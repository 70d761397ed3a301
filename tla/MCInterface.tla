------------------------------ MODULE MCInterface ------------------------------
(***************************************************************************)
(* The interface for TLC.  The router shows one page at a time and nothing *)
(* but the server outlives a page, so each behaviour is that of one page,  *)
(* and the variables of the others have no value.  The upload page's are   *)
(* its own; the other pages use the same names where they mean the same.   *)
(***************************************************************************)
EXTENDS UploadClient

CONSTANTS
  Route,        \* the pages of this instance
  Id, Name, Version, Text, MaxEntries,
  None, NotModified, Failed,
  ClipboardCommands, FilesCommands, EditorCommands,
  Path, PageSize, Window,
  i1, i2, w1, w2, l1, l2, s1, s2, e1, e2, e3, n1, n2, v1, v2, t1, t2, t3

ASSUME RoutesKnown == Route \subseteq {"upload", "clipboard", "files", "editor", "browser"}
VARIABLES
  at,           \* the page shown
  \* of the clipboard and the file list
  entries, loading, flights, cycle, here, visible, etag, op, confirming, confirmingAll, copying,
  manualCopy, previewing, selecting, truth, used, asked, gone, spare,
  files, disk, diskLoading, diskFlights, diskCycle, deleting, edited,
  \* of the editor, and of the directories shown
  access, page, editor, slot, text, saved, dir, query

clipboardOnly == <<entries, op, confirmingAll, copying, manualCopy>>
filesOnly == <<disk, diskLoading, diskFlights, diskCycle, edited>>
lists == <<loading, flights, cycle, here, visible, etag, confirming, previewing, selecting, truth, used, gone>>
editorOnly == <<access, editor, slot, text, saved>>
browserOnly == <<dir, query>>
clipboardVars == <<clipboardOnly, lists, asked, spare>>
filesVars == <<filesOnly, lists, files, deleting, asked, spare>>
editorVars == <<editorOnly, page, asked, spare>>
shared == <<files, deleting, page, asked, spare>>
pages == <<clipboardOnly, filesOnly, lists, editorOnly, browserOnly, shared>>
-----------------------------------------------------------------------------
Clipboard == INSTANCE ClipboardPage WITH
  mounted <- here, wire <- asked, left <- spare, MaxCommands <- ClipboardCommands
Files == INSTANCE FilesPage WITH
  mounted <- here, wire <- asked, left <- spare, MaxCommands <- FilesCommands
Editor == INSTANCE TextEditor WITH wire <- asked, left <- spare, MaxCommands <- EditorCommands
Browser == INSTANCE FileBrowser
\* What the pages are about differs from what stands for no answer, or for an answer like it,
\* and there are paths to browse.
ASSUME PagesAssumption ==
  Clipboard!Distinct /\ Files!Distinct /\ Editor!Distinct /\ Browser!Usable

\* A folder within another, one beside them, and enough files for the pages offered to move.
Tree ==
  {<<"a", "a", "x">>, <<"a", "x">>, <<"b", "x">>, <<"x">>, <<"y">>, <<"z">>}

NoClipboard == entries = None /\ op = None /\ confirmingAll = None /\ copying = None /\ manualCopy = None
NoFiles ==
  disk = None /\ diskLoading = None /\ diskFlights = None /\ diskCycle = None /\ edited = None
NoLists ==
  /\ loading = None /\ flights = None /\ cycle = None /\ here = None /\ visible = None /\ etag = None
  /\ confirming = None /\ previewing = None /\ selecting = None /\ truth = None /\ used = None /\ gone = None
NoEditor ==
  access = None /\ editor = None /\ slot = None /\ text = None /\ saved = None
NoBrowser == dir = None /\ query = None

InterfaceInit ==
  /\ Init /\ at \in Route
  /\ \/ /\ at = "upload" /\ NoClipboard /\ NoFiles /\ NoLists /\ NoEditor /\ NoBrowser
        /\ files = None /\ deleting = None /\ page = None /\ asked = None /\ spare = None
     \/ /\ at = "clipboard" /\ Clipboard!Init /\ NoFiles /\ NoEditor /\ NoBrowser
        /\ files = None /\ deleting = None /\ page = None
     \/ /\ at = "files" /\ Files!Init /\ NoClipboard /\ NoEditor /\ NoBrowser
        /\ page = None
     \/ /\ at = "editor" /\ Editor!Init /\ NoClipboard /\ NoFiles /\ NoLists /\ NoBrowser
        /\ files = None /\ deleting = None
     \/ /\ at = "browser" /\ Browser!Init /\ NoClipboard /\ NoFiles /\ NoLists /\ NoEditor
        /\ asked = None /\ spare = None

\* What the pages that are not shown would hold stays as it is.
Uploading == at = "upload" /\ Next /\ UNCHANGED pages
Clipping == at = "clipboard" /\ Clipboard!Next
  /\ UNCHANGED <<filesOnly, editorOnly, browserOnly, files, deleting, page>>
Listing == at = "files" /\ Files!Next
  /\ UNCHANGED <<clipboardOnly, editorOnly, browserOnly, page>>
Editing == at = "editor" /\ Editor!Next
  /\ UNCHANGED <<clipboardOnly, filesOnly, lists, browserOnly, files, deleting>>
Browsing == at = "browser" /\ Browser!Next
  /\ UNCHANGED <<clipboardOnly, filesOnly, lists, editorOnly, asked, spare>>

InterfaceNext ==
  /\ UNCHANGED at
  /\ \/ Uploading
     \/ (Clipping \/ Listing \/ Editing \/ Browsing) /\ UNCHANGED vars
InterfaceSpec == InterfaceInit /\ [][InterfaceNext]_<<at, vars, pages>>

\* React runs effects and continuations, timers fire, and the server answers what is
\* not lost; axios gives up on what is after 30 seconds.
InterfaceFairness ==
  /\ Fairness
  /\ WF_clipboardVars(at = "clipboard" /\ Clipboard!Effects)
  /\ WF_clipboardVars(at = "clipboard" /\ Clipboard!Polling)
  /\ WF_clipboardVars(at = "clipboard" /\ Clipboard!MutationSucceeds)
  /\ WF_clipboardVars(at = "clipboard" /\ Clipboard!MutationEnds)
  /\ WF_clipboardVars(at = "clipboard" /\ \E f \in flights : Clipboard!Serve(f))
  /\ WF_clipboardVars(at = "clipboard" /\ \E f \in flights : Clipboard!Settle(f))
  /\ WF_filesVars(at = "files" /\ Files!Effects)
  /\ WF_filesVars(at = "files" /\ Files!PollFiles)
  /\ WF_filesVars(at = "files" /\ \E f \in flights : Files!ServeFiles(f))
  /\ WF_filesVars(at = "files" /\ \E f \in flights : Files!SettleFiles(f))
  /\ WF_editorVars(at = "editor" /\ (Editor!Lost \/ \E r \in asked : Editor!Served(r)))
  /\ WF_editorVars(at = "editor" /\ Editor!SaveTold)
  /\ WF_editorVars(at = "editor" /\ Editor!Loaded)
  /\ WF_editorVars(at = "editor" /\ Editor!Proceed)

\* Of the initial states that differ only in what records, files, versions and texts are
\* called, which no page tells apart, one is enough.  Liveness rules out TLC's symmetry.
OneOfEachKind ==
  /\ InterfaceInit
  /\ at = "clipboard" => truth = <<e1>>
  /\ at = "files" => truth = {[name |-> n1, version |-> v1]}
  /\ at = "editor" => text \in {[n \in Name |-> t1], [n \in Name |-> IF n = n1 THEN t1 ELSE t2]}
FairInterface == OneOfEachKind /\ [][InterfaceNext]_<<at, vars, pages>> /\ InterfaceFairness
-----------------------------------------------------------------------------
(* What the pages promise, of the one that is shown.                       *)

\* What the lists show was never deleted under this page's eyes, is what their tag names,
\* and holds no record twice (useRemoteData.ts:57, FilesPage.tsx:157, ClipboardPage.tsx:105).
ListsTrue ==
  /\ at = "clipboard" => Clipboard!DeletedStaysGone /\ Clipboard!TagTrue /\ Clipboard!NoneTwice
  /\ at = "files" => Files!DeletedStaysGone /\ Files!TagTrue

\* The lists' spinners turn exactly as long as a load goes on (useRemoteData.ts:30).
SpinnersTrue ==
  /\ at = "clipboard" => Clipboard!TypeOK /\ Clipboard!LoadingTrue
  /\ at = "files" => Files!TypeOK /\ Files!LoadingTrue

\* Polling stops only while something the user can see and end is underway, as the pages
\* say then (ClipboardPage.tsx:52, FilesPage.tsx:56).
PauseSeen ==
  /\ at = "clipboard" => Clipboard!PauseSeen
  /\ at = "files" => Files!PauseSeen

\* Typed text outlives the session, in the slot of the file it belongs to
\* (EditorDraftProvider.tsx:4, FilesPage.tsx:54, FilePreview.tsx:153).
UnsavedKept ==
  at = "editor" => Editor!TypeOK /\ Editor!UnsavedKept /\ Editor!SlotOwned

\* A draft is given up only when the user confirmed that, or typed the text it began
\* from, or its text is in the file (FilePreview.tsx:93, 116; doc/transfer.md:52).
GivenUpKnowingly == [][at = "editor" => Editor!GivenUpKnowingly]_pages

\* A save that is accepted replaces the very text the user began to edit, whoever else has
\* edited the file meanwhile, also after the session expired (FilePreview.tsx:126).
ReplacesWhatWasSeen == [][at = "editor" => Editor!ReplacesWhatWasSeen]_pages

\* Nobody waits for ever: a cancelled upload run ends whatever the network does, a page
\* left to itself does not keep showing an older list, and a navigation that waits for
\* a save goes on or the user is asked (useUploadQueue.ts:295, useAutoRefresh.ts:5,
\* FilePreview.tsx:40).
Settles ==
  (\/ at = "upload" /\ run = "cancelled"
   \/ at = "clipboard" /\ Clipboard!LeftAlone
   \/ at = "files" /\ Files!LeftAlone
   \/ at = "editor" /\ Editor!BlockedSaving)
    ~>
  (\/ at = "upload" /\ run = "none"
   \/ at = "clipboard" /\ (Clipboard!LeftAlone => Clipboard!UpToDate)
   \/ at = "files" /\ (Files!LeftAlone => Files!UpToDate)
   \/ at = "editor" /\ Editor!GoesOnOrAsks)

\* Whatever files come and go, the directory shown is the nearest that survives of the one
\* asked for, links lead to every file, and every entry is on one of the pages offered, the
\* one shown among them (FilesPage.tsx:81-143).
BrowserTrue == at = "browser" =>
  /\ Browser!TypeOK /\ Browser!EveryFileReachable /\ Browser!NearestSurvivor
  /\ Browser!PageShown /\ Browser!PagesWhole
=============================================================================
