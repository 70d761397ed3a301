------------------------------ MODULE FileBrowser ------------------------------
(***************************************************************************)
(* What pages/Files makes of the list of files: the folders their paths    *)
(* imply, the directory that is shown, the search, and the pages of the    *)
(* result.  The list changes underneath: it is polled, and other devices   *)
(* upload and delete.  The order of the entries is left out.               *)
(*                                                                         *)
(* A path is the sequence of its components, a keyword one of them.        *)
(***************************************************************************)
EXTENDS Integers, FiniteSetsExt, SequencesExt

CONSTANTS
  Path,       \* of files; none is a directory of another
  None,
  PageSize,   \* PAGE_SIZE, positive
  Window      \* page numbers offered at once, positive

VARIABLES
  files,      \* data.files, none before the first load
  dir,        \* the directory the URL asks for
  query,      \* the keyword, or None
  page,
  deleting    \* the file whose deletion runs, or None

vars == <<files, dir, query, page, deleting>>
-----------------------------------------------------------------------------
Parents(f) == Prefixes(f) \ {f, <<>>}
Keyword == UNION {ToSet(p) : p \in Path}
Directories == {<<>>} \cup UNION {Parents(p) : p \in Path}

\* Paths have components, and there are finitely many of them.
Usable ==
  /\ IsFiniteSet(Path) /\ Path \subseteq Seq(Keyword) \ {<<>>}
  /\ PageSize \in Nat \ {0} /\ Window \in Nat \ {0}

Folders == UNION {Parents(f) : f \in files}

\* The directory shown is the nearest one that survives of the one asked for.
DirectoryOrRoot == IF dir \in Folders THEN dir ELSE <<>>
Directory ==
  LET nearest[n \in 0 .. Len(dir)] ==
        IF n = 0 \/ SubSeq(dir, 1, n) \in Folders THEN SubSeq(dir, 1, n) ELSE nearest[n - 1]
  IN nearest[Len(dir)]

Inside(d) == {p \in files \cup Folders : Len(p) = Len(d) + 1 /\ IsPrefix(d, p)}
Filtered == IF query = None THEN Inside(Directory) ELSE {f \in files : Contains(f, query)}

TotalPages == Max({1, (Cardinality(Filtered) + PageSize - 1) \div PageSize})
CurrentPage == Min({page, TotalPages})
PageFiles(n) ==
  LET all == SetToSeq(Filtered)
  IN ToSet(SubSeq(all, (n - 1) * PageSize + 1, Min({n * PageSize, Len(all)})))
FirstPage == Max({1, Min({CurrentPage - (Window \div 2), TotalPages - Window + 1})})
Pages == FirstPage .. FirstPage + Min({Window, TotalPages}) - 1

\* The URL may ask for any directory before the list is there.
Init ==
  files = {} /\ dir \in Directories /\ query = None /\ page = 1 /\ deleting = None
-----------------------------------------------------------------------------
\* A folder's link, a breadcrumb or the button Up.
OpenDirectory(d) ==
  /\ deleting = None
  /\ d \in Prefixes(Directory) \/ (d \in Filtered /\ d \in Folders)
  /\ dir' = d /\ query' = None /\ page' = 1
  /\ UNCHANGED <<files, deleting>>

\* Back and Forward change the URL and nothing else.
History(d) ==
  /\ dir' = d
  /\ UNCHANGED <<files, query, page, deleting>>

Search(keyword) ==
  /\ keyword # query
  /\ query' = keyword /\ page' = 1
  /\ UNCHANGED <<files, dir, deleting>>

TurnPage ==
  /\ TotalPages > 1
  /\ \/ CurrentPage > 1 /\ page' = CurrentPage - 1
     \/ CurrentPage < TotalPages /\ page' = CurrentPage + 1
     \/ page' \in Pages
  /\ UNCHANGED <<files, dir, query, deleting>>

\* A load is accepted: the first one, or one after other devices' uploads and deletions.
ListArrives ==
  /\ \/ files = {} /\ files' = Path
     \/ \E p \in Path : files' = files \cup {p}
     \/ \E p \in files : files' = files \ {p}
  /\ UNCHANGED <<dir, query, page, deleting>>

Delete(f) ==
  /\ deleting = None /\ f \in PageFiles(CurrentPage) \cap files
  /\ deleting' = f
  /\ UNCHANGED <<files, dir, query, page>>
Deleted ==
  /\ deleting # None /\ deleting' = None
  /\ files' \in {files, files \ {deleting}}
  /\ UNCHANGED <<dir, query, page>>
-----------------------------------------------------------------------------
Next ==
  \/ \E d \in Directories : OpenDirectory(d) \/ History(d)
  \/ \E keyword \in Keyword \cup {None} : Search(keyword)
  \/ TurnPage \/ ListArrives \/ Deleted \/ \E f \in Path : Delete(f)

Spec == Init /\ [][Next]_vars
-----------------------------------------------------------------------------
TypeOK ==
  /\ files \subseteq Path /\ dir \in Directories /\ query \in Keyword \cup {None}
  /\ page \in 1 .. Cardinality(Path) + Cardinality(Directories) /\ deleting \in Path \cup {None}

\* Links lead from the root to every file, whatever folders came and went, and back
\* (FilesPage.tsx:85, 123).
EveryFileReachable == \A f \in files : \A n \in 1 .. Len(f) :
  SubSeq(f, 1, n) \in Inside(SubSeq(f, 1, n - 1))

\* A directory whose last file went gives way to the nearest one that still holds any,
\* and is back when it has files again (FilesPage.tsx:90-97).
NearestSurvivor ==
  LET holding == {d \in Prefixes(dir) : d = <<>> \/ \E f \in files : IsStrictPrefix(d, f)}
  IN Directory \in holding /\ \A d \in holding : Len(d) <= Len(Directory)

\* A list that shrank never leaves the user on an empty page, nor on one that is not
\* among the pages offered; the pages offered exist (FilesPage.tsx:140, 142).
PageShown ==
  /\ Filtered # {} => PageFiles(CurrentPage) # {}
  /\ CurrentPage \in Pages /\ Pages \subseteq 1 .. TotalPages

\* Every entry is on exactly one page (FilesPage.tsx:139, 141).
PagesWhole ==
  /\ UNION {PageFiles(n) : n \in 1 .. TotalPages} = Filtered
  /\ \A n, k \in 1 .. TotalPages : n # k => PageFiles(n) \cap PageFiles(k) = {}
=============================================================================
