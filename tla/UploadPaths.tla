----------------------------- MODULE UploadPaths -----------------------------
(***************************************************************************)
(* The directories of folder uploads (internal/service/folder.go, with     *)
(* InitSession, CompleteSession, remove and DeleteFile, which call it).    *)
(*                                                                         *)
(* An upload named a/b/c reserves its name and creates the directories a   *)
(* and a/b that are missing; when it ends without a file, or its file is   *)
(* deleted, those this service created are removed if they are empty and   *)
(* no other upload needs them.  All of it happens under s.mu, so each      *)
(* operation is one action here; other programs work on the same tree      *)
(* between any two of them.  Chunks and the races around the end of a      *)
(* session are the subject of UploadSessions.                              *)
(***************************************************************************)
EXTENDS Integers, Sequences, FiniteSets

CONSTANTS
  Sid, NoSid,
  Part,      \* components of paths
  Fold,      \* lower-casing of components, for nameKey
  Target,    \* sanitized paths clients upload to: sequences of Part
  Inode,     \* identities of directories: what os.SameFile compares
  NoInode,
  Reuse,     \* whether the file system gives a freed inode out again
  Faults     \* what may go wrong: a subset of {"mkdir", "outside", "restart"}

ASSUME PathIds == NoSid \notin Sid /\ NoInode \notin Inode /\ Reuse \in BOOLEAN
ASSUME PathTargets ==
  Target \subseteq Seq(Part) \ {<<>>} /\ Target # {} /\ Fold \in [Part -> Part]

VARIABLES
  phase,     \* where each session stands
  final,     \* info.FinalFilename of each session
  names,     \* keys of s.names
  dirs,      \* directories on disk, with their inodes
  files,     \* other entries on disk: uploads, and files of others
  created,   \* s.createdDirs
  mine,      \* history: inodes of the directories this process made
  spent,     \* history: inodes given out so far
  mishaps    \* history: the faults that have struck

vars == <<phase, final, names, dirs, files, created, mine, spent, mishaps>>
-----------------------------------------------------------------------------
Parents(p) == {SubSeq(p, 1, i) : i \in 1 .. Len(p) - 1}
DirPath == UNION {Parents(p) : p \in Target}
\* A file name is a path, made unique by a suffix if there was a conflict.
Name == [path : Target, by : Sid \cup {NoSid}]
Plain(p) == [path |-> p, by |-> NoSid]
conflictName(n, s) == [n EXCEPT !.by = s]
Lower(p) == [i \in DOMAIN p |-> Fold[p[i]]]
nameKey(n) == [n EXCEPT !.path = Lower(n.path)]
StrictPrefix(p, q) == Len(p) < Len(q) /\ SubSeq(q, 1, Len(p)) = p

IsDir(p) == p \in DirPath /\ dirs[p] # NoInode
IsFile(p) == Plain(p) \in files
Exists(n) == n \in files \/ (n.by = NoSid /\ IsDir(n.path))
Active == {s \in Sid : phase[s] \in {"open", "saved"}}

Init ==
  /\ phase = [s \in Sid |-> "unused"]
  /\ final = [s \in Sid |-> Plain(CHOOSE p \in Target : TRUE)]
  /\ names = {} /\ files = {}
  /\ dirs = [d \in DirPath |-> NoInode]
  /\ created = [d \in DirPath |-> NoInode]
  /\ mine = {} /\ spent = {} /\ mishaps = {}
-----------------------------------------------------------------------------
(* prepareParent *)

Missing(p) == {d \in Parents(p) : ~IsDir(d)}
\* Inodes a file system can give to the directories of D, one each.
Inodes(D) == {f \in [D -> Inode] :
                /\ \A d \in D : f[d] \notin (IF Reuse THEN {dirs[e] : e \in DirPath} ELSE spent)
                /\ \A d, e \in D : f[d] = f[e] => d = e}

\* A parent that is a file or a symbolic link is refused before anything is
\* created; when creating one fails, the directories above it were created.
Refused(p) == \E d \in Parents(p) : IsFile(d)
Creatable(p, whole) ==
  IF whole THEN {Missing(p)}
  ELSE {{d \in Missing(p) : Len(d) < n} : n \in {Len(d) : d \in Missing(p)}}

\* The tree, and createdDirs, once the directories of f were made.
Made(f) == [d \in DirPath |-> IF d \in DOMAIN f THEN f[d] ELSE dirs[d]]
Claimed(f) == [d \in DirPath |-> IF d \in DOMAIN f THEN f[d] ELSE created[d]]
NewInodes(f) == {f[d] : d \in DOMAIN f}
-----------------------------------------------------------------------------
(* cleanupParents, for a tree `D` with the owned directories `C` and the      *)
(* reserved names `N`, from the parent of `p` upwards.                        *)

Needed(d, N) == \E n \in N : StrictPrefix(Lower(d), n.path)
SameFileUnchecked(i, j) == TRUE
SameFile(i, j) == i = j
\* What lies in directory d when the directories of G are gone.
Content(d, D, F, G) ==
  {e \in DirPath \ G : D[e] # NoInode /\ StrictPrefix(d, e)}
    \cup {n.path : n \in {m \in F : StrictPrefix(d, m.path)}}

\* The loop goes on above d: its entry in createdDirs is gone, and so is d.
Passes(d, p, D, F, C, N) ==
  /\ C[d] # NoInode /\ ~Needed(d, N)
  /\ \/ D[d] = NoInode /\ \A e \in Parents(d) \cup {d} : Plain(e) \notin F
     \/ /\ D[d] # NoInode /\ SameFile(C[d], D[d])
        /\ Content(d, D, F, {e \in Parents(p) : StrictPrefix(d, e)}) = {}
ReachedFirst(d, p, D, F, C, N) == Len(d) = Len(p) - 1
Reached(d, p, D, F, C, N) ==
  \A e \in Parents(p) : StrictPrefix(d, e) => Passes(e, p, D, F, C, N)
Removed(p, D, F, C, N) ==
  {d \in Parents(p) : Reached(d, p, D, F, C, N) /\ Passes(d, p, D, F, C, N)}
\* A directory put in the place of an owned one is disowned.
Disowned(p, D, F, C, N) ==
  {d \in Parents(p) : /\ Reached(d, p, D, F, C, N)
                      /\ C[d] # NoInode /\ ~Needed(d, N)
                      /\ D[d] # NoInode /\ ~SameFile(C[d], D[d])}

CleanupParents(p, D, F, C, N) ==
  /\ dirs' = [d \in DirPath |-> IF d \in Removed(p, D, F, C, N) THEN NoInode ELSE D[d]]
  /\ created' = [d \in DirPath |->
                   IF d \in Removed(p, D, F, C, N) \cup Disowned(p, D, F, C, N)
                     THEN NoInode ELSE C[d]]
-----------------------------------------------------------------------------
(* The operations of the service *)

ParentIgnored(p) == FALSE
\* A parent of p is reserved as a file by another session.
ParentReserved(p) == \E d \in Parents(p) : Plain(Lower(d)) \in names

\* InitSession: reserve the name and prepare its directories; whatever fails
\* before the session exists, cleanupParents is called.
InitSession(s, p) ==
  /\ phase[s] = "unused"
  /\ \/ /\ ~ParentReserved(p) /\ ~Refused(p)
        /\ \E f \in Inodes(Missing(p)) :
             LET taken == nameKey(Plain(p)) \in names \/ Exists(Plain(p))
                 name == IF taken THEN conflictName(Plain(p), s) ELSE Plain(p)
             IN  /\ phase' = [phase EXCEPT ![s] = "open"]
                 /\ final' = [final EXCEPT ![s] = name]
                 /\ names' = names \cup {nameKey(name)}
                 /\ dirs' = Made(f) /\ created' = Claimed(f)
                 /\ mine' = mine \cup NewInodes(f) /\ spent' = spent \cup NewInodes(f)
        /\ UNCHANGED <<files, mishaps>>
     \/ \* A parent is a file, or too many uploads are active.
        /\ phase' = [phase EXCEPT ![s] = "refused"]
        /\ CleanupParents(p, dirs, files, created, names)
        /\ UNCHANGED <<final, names, files, mine, spent, mishaps>>
     \/ \* Creating a directory fails, or a later step: no room on the disk.
        /\ ~ParentReserved(p) /\ ~Refused(p)
        /\ \E whole \in {TRUE} \cup (IF "mkdir" \in Faults THEN {FALSE} ELSE {}) :
             \E D \in Creatable(p, whole) : \E f \in Inodes(D) :
               /\ CleanupParents(p, Made(f), files, Claimed(f), names)
               /\ mine' = mine \cup NewInodes(f) /\ spent' = spent \cup NewInodes(f)
               /\ mishaps' = IF whole THEN mishaps ELSE mishaps \cup {"mkdir"}
        /\ phase' = [phase EXCEPT ![s] = "refused"]
        /\ UNCHANGED <<final, names, files>>

\* CompleteSession under s.mu: the parents are prepared again, in case others
\* changed them, and the name is given up for another if it was taken.
Publish(s) ==
  LET n == final[s] IN
  /\ phase[s] = "open"
  /\ \/ /\ ~Refused(n.path)
        /\ \E f \in Inodes(Missing(n.path)) :
             /\ dirs' = Made(f) /\ created' = Claimed(f)
             /\ mine' = mine \cup NewInodes(f) /\ spent' = spent \cup NewInodes(f)
        \* Opening the parent, or linking, may fail before or after the exchange.
        /\ \E name \in {n} \cup (IF Exists(n) THEN {conflictName(n, s)} ELSE {}), linked \in BOOLEAN :
             /\ linked => ~Exists(name)
             /\ final' = [final EXCEPT ![s] = name]
             /\ names' = (names \ {nameKey(n)}) \cup {nameKey(name)}
             /\ files' = IF linked THEN files \cup {name} ELSE files
             /\ phase' = IF linked THEN [phase EXCEPT ![s] = "saved"] ELSE phase
        /\ UNCHANGED mishaps
     \/ /\ ~Refused(n.path) /\ "mkdir" \in Faults
        /\ \E D \in Creatable(n.path, FALSE) : \E f \in Inodes(D) :
             /\ dirs' = Made(f) /\ created' = Claimed(f)
             /\ mine' = mine \cup NewInodes(f) /\ spent' = spent \cup NewInodes(f)
        /\ mishaps' = mishaps \cup {"mkdir"}
        /\ UNCHANGED <<phase, final, names, files>>

\* remove: completion, cancellation and expiry all end here.
Remove(s) ==
  LET left == names \ {nameKey(final[s])} IN
  /\ phase[s] \in {"open", "saved"}
  /\ phase' = [phase EXCEPT ![s] = "ended"]
  /\ names' = left
  /\ CleanupParents(final[s].path, dirs, files, created, left)
  /\ UNCHANGED <<final, files, mine, spent, mishaps>>

DeleteFile(n) ==
  /\ n \in files
  /\ files' = files \ {n}
  /\ CleanupParents(n.path, dirs, files \ {n}, created, names)
  /\ UNCHANGED <<phase, final, names, mine, spent, mishaps>>

Service == \/ \E s \in Sid, p \in Target : InitSession(s, p)
           \/ \E s \in Sid : Publish(s) \/ Remove(s)
           \/ \E n \in files : DeleteFile(n)
-----------------------------------------------------------------------------
(* Others *)

Outside ==
  /\ "outside" \in Faults
  /\ mishaps' = mishaps \cup {"outside"}
  /\ UNCHANGED <<phase, final, names, created>>

\* Another program makes a directory, where its parent is one ...
OutsideMkdir(d) ==
  /\ Outside /\ ~IsDir(d) /\ ~IsFile(d) /\ \A e \in Parents(d) : IsDir(e)
  /\ \E f \in Inodes({d}) :
       dirs' = Made(f) /\ spent' = spent \cup NewInodes(f) /\ mine' = mine \ NewInodes(f)
  /\ UNCHANGED files

\* ... removes an empty one, or moves one away with all it holds ...
OutsideRemove(d) ==
  /\ Outside /\ IsDir(d)
  /\ dirs' = [e \in DirPath |-> IF e = d \/ StrictPrefix(d, e) THEN NoInode ELSE dirs[e]]
  /\ files' = {n \in files : ~StrictPrefix(d, n.path)}
  /\ UNCHANGED <<mine, spent>>

\* ... or puts a file where a directory or an upload is to be.
OutsideFile(p) ==
  /\ Outside /\ ~IsDir(p) /\ ~IsFile(p) /\ \A d \in Parents(p) : IsDir(d)
  /\ files' = files \cup {Plain(p)}
  /\ UNCHANGED <<dirs, mine, spent>>

\* The next process knows of no session and owns no directory.
Restart ==
  /\ "restart" \in Faults
  /\ phase' = [s \in Sid |-> IF s \in Active THEN "ended" ELSE phase[s]]
  /\ names' = {} /\ mine' = {}
  /\ created' = [d \in DirPath |-> NoInode]
  /\ UNCHANGED <<final, dirs, files, spent, mishaps>>

Next == \/ Service
        \/ \E d \in DirPath : OutsideMkdir(d) \/ OutsideRemove(d)
        \/ \E p \in Target : OutsideFile(p)
        \/ Restart

Spec == Init /\ [][Next]_vars
-----------------------------------------------------------------------------
(* Properties *)

\* Type invariant: what every variable may hold.
TypeOK ==
  /\ phase \in [Sid -> {"unused", "refused", "open", "saved", "ended"}]
  /\ final \in [Sid -> Name]
  /\ names \subseteq [path : {Lower(p) : p \in Target}, by : Sid \cup {NoSid}]
  /\ dirs \in [DirPath -> Inode \cup {NoInode}]
  /\ created \in [DirPath -> Inode \cup {NoInode}]
  /\ files \subseteq Name
  /\ mine \subseteq spent /\ spent \subseteq Inode
  /\ mishaps \subseteq {"mkdir", "outside"}

\* The directories an active upload will be published into stand until it
\* ends, whatever ends or is deleted before it (cleanupParents), unless
\* someone outside takes them away.
ParentsStand ==
  "outside" \notin mishaps =>
    \A s \in Active : \A d \in Parents(final[s].path) : IsDir(d)

\* No active upload holds as its file name what another needs as a directory
\* (InitSession reserves the name and prepares the directories together).
NoFileAsParent ==
  "outside" \notin mishaps =>
    \A s, r \in Active :
      final[r].by = NoSid => ~StrictPrefix(final[r].path, final[s].path)

\* The tree always has room for what active uploads will publish.
TreeSound == TypeOK /\ ParentsStand /\ NoFileAsParent

\* The service removes only directories it created itself, not one that
\* another program put in the place of one it had created (cleanupParents),
\* where the file system does not give a freed inode to a new directory: with
\* Reuse, os.SameFile cannot tell the two apart.
OnlyOwnRemoved ==
  [][Service => \A d \in DirPath :
       dirs[d] # NoInode /\ dirs'[d] = NoInode => dirs[d] \in mine]_vars

EmptyLeft(excuses) ==
  {d \in DirPath : /\ mishaps \cap excuses = {}
                   /\ dirs[d] \in mine
                   /\ Content(d, dirs, files, {}) = {}
                   /\ ~\E s \in Active : StrictPrefix(d, final[s].path)}

\* An upload was opened into a directory of d's name but for the case of its
\* letters: nameKey takes the two for one, directoryKey does not.
Doubled(d) == \E s \in Sid : /\ phase[s] \in {"open", "saved", "ended"}
                            /\ \E e \in Parents(final[s].path) : e # d /\ Lower(e) = Lower(d)

\* No empty directory that this process created outlives the uploads and the
\* files it was created for, in whatever order they end or are deleted, as long
\* as no mkdir fails and no other program changes the tree (mishaps).  With
\* one exception: while folder/y is uploading, cleanupParents takes an empty
\* Folder for needed and keeps it (folder.go:97-100), and nothing looks at it
\* again.  Only a directory whose name differs from that of another that was
\* uploaded to by case alone is ever left behind.
EmptyParentsRemoved == \A d \in EmptyLeft({"mkdir", "outside"}) : Doubled(d)

\* Nothing at all is left, even where an initialization failed because a
\* directory could not be created: "Failed initialization, cancellation,
\* expiration, and file deletion remove empty ancestors created by this service"
\* (doc/transfer.md).
FailedInitLeavesNothing == EmptyLeft({"outside"}) = {}
=============================================================================
