------------------------------ MODULE PathsProofs ------------------------------
(***************************************************************************)
(* Proofs about UploadPaths, for any number of uploads, any paths, however *)
(* deeply nested, and any faults: the directories an upload needs stand    *)
(* until it ends, only the service's own directories are removed, and none *)
(* of them is left behind empty.                                           *)
(***************************************************************************)
EXTENDS UploadPaths, SequenceTheorems, TLAPS

(* Paths: a parent of a path is a strict prefix of it, and the parents of one *)
(* path form a chain.                                                         *)
Path == Seq(Part) \ {<<>>}

\* What is uploaded to is a path.
LEMMA Paths ==
  /\ Target \subseteq Path
  /\ \A p \in Path : p \in Seq(Part) /\ Len(p) \in Nat /\ Len(p) >= 1
BY PathTargets DEF Path

\* A strict prefix agrees with the path it begins.
LEMMA PrefixPointwise ==
  ASSUME NEW p \in Seq(Part), NEW q \in Seq(Part)
  PROVE  StrictPrefix(p, q) <=> Len(p) < Len(q) /\ \A i \in 1 .. Len(p) : p[i] = q[i]
<1> DEFINE r == SubSeq(q, 1, Len(p))
<1>1. SUFFICES ASSUME Len(p) < Len(q) PROVE r = p <=> \A i \in 1 .. Len(p) : p[i] = q[i]
  BY DEF StrictPrefix
<1>2. Len(p) \in Nat /\ Len(q) \in Nat
  OBVIOUS
<1>3. r \in Seq(Part) /\ Len(r) = Len(p) /\ \A i \in 1 .. Len(p) : r[i] = q[i]
  <2>1. \A i \in 1 .. Len(p) : q[i] \in Part
    BY <1>1, <1>2
  <2>2. /\ r \in Seq(Part)
        /\ Len(r) = IF 1 <= Len(p) THEN Len(p) - 1 + 1 ELSE 0
        /\ \A i \in 1 .. Len(p) - 1 + 1 : r[i] = q[1 + i - 1]
    BY <1>2, <2>1, SubSeqProperties
  <2> QED  BY <1>2, <2>2
<1>4. ASSUME \A i \in 1 .. Len(p) : p[i] = q[i] PROVE r = p
  <2> HIDE DEF r
  <2> QED  BY <1>3, <1>4, SeqEqual
<1> QED  BY <1>3, <1>4

\* The parents of a path are its strict prefixes.
LEMMA ParentIsPrefix ==
  ASSUME NEW p \in Path, NEW d
  PROVE  d \in Parents(p) <=> d \in Path /\ StrictPrefix(d, p)
<1>1. p \in Seq(Part) /\ Len(p) \in Nat
  BY Paths
<1>2. ASSUME NEW i \in 1 .. Len(p) - 1 PROVE SubSeq(p, 1, i) \in Path /\ StrictPrefix(SubSeq(p, 1, i), p)
  <2> DEFINE r == SubSeq(p, 1, i)
  <2>1. \A j \in 1 .. i : p[j] \in Part
    BY <1>1, <1>2
  <2>2. /\ r \in Seq(Part)
        /\ Len(r) = IF 1 <= i THEN i - 1 + 1 ELSE 0
    BY <1>2, <2>1, SubSeqProperties
  <2>3. Len(r) = i
    BY <1>2, <2>2
  <2>4. r # <<>>
    BY <1>2, <2>3
  <2> QED  BY <1>1, <1>2, <2>2, <2>3, <2>4 DEF StrictPrefix, Path
<1>3. ASSUME d \in Path, StrictPrefix(d, p) PROVE d \in Parents(p)
  <2>1. Len(d) \in 1 .. Len(p) - 1 /\ d = SubSeq(p, 1, Len(d))
    BY <1>1, <1>3, Paths DEF StrictPrefix
  <2> QED  BY <2>1 DEF Parents
<1> QED  BY <1>2, <1>3 DEF Parents

\* Strict prefixes are ordered, and those of one path form a chain.
LEMMA PrefixFacts ==
  ASSUME NEW d \in Path, NEW e \in Path, NEW p \in Path
  PROVE  /\ ~StrictPrefix(d, d)
         /\ StrictPrefix(d, e) /\ StrictPrefix(e, p) => StrictPrefix(d, p)
         /\ StrictPrefix(d, p) /\ StrictPrefix(e, p) => d = e \/ StrictPrefix(d, e) \/ StrictPrefix(e, d)
<1>1. /\ d \in Seq(Part) /\ e \in Seq(Part) /\ p \in Seq(Part)
      /\ Len(d) \in Nat /\ Len(e) \in Nat /\ Len(p) \in Nat
  BY Paths
<1>2. ~StrictPrefix(d, d)
  BY <1>1 DEF StrictPrefix
<1>3. ASSUME StrictPrefix(d, e), StrictPrefix(e, p) PROVE StrictPrefix(d, p)
  <2>1. /\ Len(d) < Len(e) /\ \A i \in 1 .. Len(d) : d[i] = e[i]
        /\ Len(e) < Len(p) /\ \A i \in 1 .. Len(e) : e[i] = p[i]
    BY <1>1, <1>3, PrefixPointwise
  <2>2. Len(d) < Len(p) /\ \A i \in 1 .. Len(d) : d[i] = p[i]
    BY <1>1, <2>1
  <2> QED  BY <1>1, <2>2, PrefixPointwise
<1>4. ASSUME StrictPrefix(d, p), StrictPrefix(e, p)
      PROVE  d = e \/ StrictPrefix(d, e) \/ StrictPrefix(e, d)
  <2>1. /\ \A i \in 1 .. Len(d) : d[i] = p[i]
        /\ \A i \in 1 .. Len(e) : e[i] = p[i]
    BY <1>1, <1>4, PrefixPointwise
  <2>2. CASE Len(d) = Len(e)
    <3>1. \A i \in 1 .. Len(d) : d[i] = e[i]
      BY <2>1, <2>2
    <3> QED  BY <1>1, <2>2, <3>1, SeqEqual
  <2>3. CASE Len(d) < Len(e)
    <3>1. \A i \in 1 .. Len(d) : d[i] = e[i]
      BY <1>1, <2>1, <2>3
    <3> QED  BY <1>1, <2>3, <3>1, PrefixPointwise
  <2>4. CASE Len(e) < Len(d)
    <3>1. \A i \in 1 .. Len(e) : e[i] = d[i]
      BY <1>1, <2>1, <2>4
    <3> QED  BY <1>1, <2>4, <3>1, PrefixPointwise
  <2> QED  BY <1>1, <2>2, <2>3, <2>4
<1> QED  BY <1>2, <1>3, <1>4

\* Lower-casing keeps prefixes; what is one after lower-casing has the same
\* lower-case form as the prefix of that length.
LEMMA LowerPrefix ==
  ASSUME NEW d \in Path, NEW p \in Path
  PROVE  /\ Lower(d) \in Path
         /\ StrictPrefix(d, p) => StrictPrefix(Lower(d), Lower(p))
         /\ StrictPrefix(Lower(d), Lower(p)) => \E e \in Parents(p) : Lower(e) = Lower(d)
<1>1. ASSUME NEW q \in Path
      PROVE  Lower(q) \in Seq(Part) /\ Len(Lower(q)) = Len(q)
             /\ \A i \in 1 .. Len(q) : Lower(q)[i] = Fold[q[i]] /\ q[i] \in Part
  <2>1. q \in Seq(Part) /\ Len(q) \in Nat /\ DOMAIN q = 1 .. Len(q)
    BY Paths
  <2>2. \A i \in 1 .. Len(q) : q[i] \in Part /\ Fold[q[i]] \in Part
    BY <2>1, PathTargets
  <2>3. Lower(q) = [i \in 1 .. Len(q) |-> Fold[q[i]]]
    BY <2>1 DEF Lower
  <2>4. Lower(q) \in Seq(Part) /\ Len(Lower(q)) = Len(q)
    BY <2>1, <2>2, <2>3, IsASeq
  <2> QED  BY <2>2, <2>3, <2>4
<1>2. /\ d \in Seq(Part) /\ p \in Seq(Part) /\ Len(d) \in Nat /\ Len(p) \in Nat /\ Len(d) >= 1
  BY Paths
<1>3. Lower(d) \in Path
  BY <1>1, <1>2 DEF Path
<1>4. ASSUME StrictPrefix(d, p) PROVE StrictPrefix(Lower(d), Lower(p))
  <2>1. Len(d) < Len(p) /\ \A i \in 1 .. Len(d) : d[i] = p[i]
    BY <1>2, <1>4, PrefixPointwise
  <2>2. Len(Lower(d)) = Len(d) /\ Len(Lower(p)) = Len(p)
    BY <1>1
  <2>3. ASSUME NEW i \in 1 .. Len(d) PROVE Lower(d)[i] = Lower(p)[i]
    <3>1. i \in 1 .. Len(p)
      BY <1>2, <2>1
    <3> QED  BY <1>1, <2>1, <3>1
  <2> QED  BY <1>1, <2>1, <2>2, <2>3, PrefixPointwise
<1>5. ASSUME StrictPrefix(Lower(d), Lower(p)) PROVE \E e \in Parents(p) : Lower(e) = Lower(d)
  <2> DEFINE e == SubSeq(p, 1, Len(d))
  <2>1. Len(d) < Len(p) /\ \A i \in 1 .. Len(d) : Lower(d)[i] = Lower(p)[i]
    BY <1>1, <1>5, PrefixPointwise
  <2>2. e \in Parents(p)
    BY <1>2, <2>1 DEF Parents
  <2>3. e \in Path /\ Len(e) = Len(d) /\ \A i \in 1 .. Len(d) : e[i] = p[i]
    <3>1. e \in Path /\ StrictPrefix(e, p) /\ e \in Seq(Part)
      BY <2>2, Paths, ParentIsPrefix
    <3>2. Len(e) = Len(d)
      <4>1. \A i \in 1 .. Len(d) : p[i] \in Part
        BY <1>2, <2>1
      <4>2. Len(e) = IF 1 <= Len(d) THEN Len(d) - 1 + 1 ELSE 0
        BY <1>2, <4>1, SubSeqProperties
      <4> QED  BY <1>2, <4>2
    <3> HIDE DEF e
    <3> QED  BY <1>2, <3>1, <3>2, PrefixPointwise
  <2> HIDE DEF e
  <2>4. Lower(e) \in Seq(Part) /\ Lower(d) \in Seq(Part) /\ Len(Lower(e)) = Len(Lower(d))
    BY <1>1, <2>3
  <2>5. ASSUME NEW i \in 1 .. Len(d) PROVE Lower(e)[i] = Lower(d)[i]
    <3>1. i \in 1 .. Len(p) /\ i \in 1 .. Len(e)
      BY <1>2, <2>1, <2>3
    <3> QED  BY <1>1, <2>1, <2>3, <3>1
  <2>6. Lower(e) = Lower(d)
    BY <1>1, <2>4, <2>5, SeqEqual
  <2> QED  BY <2>2, <2>6
<1> QED  BY <1>3, <1>4, <1>5

\* The directories of the model, with their parents, and what they are not.
LEMMA Directories ==
  /\ DirPath \subseteq Path
  /\ \A p \in Target : Parents(p) \subseteq DirPath
  /\ \A d \in DirPath : Parents(d) \subseteq DirPath
<1>1. DirPath \subseteq Path
  BY Paths, ParentIsPrefix DEF DirPath
<1>2. \A p \in Target : Parents(p) \subseteq DirPath
  BY DEF DirPath
<1>3. ASSUME NEW d \in DirPath, NEW e \in Parents(d) PROVE e \in DirPath
  <2>1. PICK p \in Target : d \in Parents(p)
    BY DEF DirPath
  <2>2. p \in Path /\ d \in Path /\ e \in Path /\ StrictPrefix(d, p) /\ StrictPrefix(e, d)
    BY <1>1, <2>1, Paths, ParentIsPrefix
  <2>3. e \in Parents(p)
    BY <2>2, PrefixFacts, ParentIsPrefix
  <2> QED  BY <1>2, <2>3
<1> QED  BY <1>1, <1>2, <1>3
-----------------------------------------------------------------------------
(* Names, the making of directories, and the cleanup. *)

\* A name, its key and the name a conflict leads to.
LEMMA Names ==
  /\ \A n \in Name : n.path \in Target /\ n.path \in Path /\ n.by \in Sid \cup {NoSid}
  /\ \A p \in Target : Plain(p) \in Name /\ Plain(p).path = p /\ Plain(p).by = NoSid
  /\ \A n \in Name, s \in Sid : /\ conflictName(n, s) \in Name
                                /\ conflictName(n, s).path = n.path /\ conflictName(n, s).by = s
  /\ \A n \in Name : nameKey(n).path = Lower(n.path) /\ nameKey(n).by = n.by
  /\ \A n \in Name : nameKey(n) \in [path : {Lower(p) : p \in Target}, by : Sid \cup {NoSid}]
  /\ \A n \in Name : n.by = NoSid => n = Plain(n.path) /\ nameKey(n) = Plain(Lower(n.path))
BY Paths DEF Name, Plain, conflictName, nameKey

\* prepareParent makes the directories of D and claims them, and no others.
LEMMA MadeFacts ==
  ASSUME TypeOK, NEW p \in Target, NEW D \in SUBSET Missing(p), NEW f \in Inodes(D)
  PROVE  /\ Made(f) \in [DirPath -> Inode \cup {NoInode}]
         /\ Claimed(f) \in [DirPath -> Inode \cup {NoInode}]
         /\ NewInodes(f) \subseteq Inode
         /\ D \subseteq Parents(p) /\ D \subseteq DirPath
         /\ \A d \in D : /\ dirs[d] = NoInode /\ Made(f)[d] = f[d] /\ Claimed(f)[d] = f[d]
                         /\ f[d] \in Inode /\ f[d] \in NewInodes(f) /\ f[d] # NoInode
         /\ \A d \in DirPath \ D : Made(f)[d] = dirs[d] /\ Claimed(f)[d] = created[d]
<1>1. f \in [D -> Inode] /\ DOMAIN f = D
  BY DEF Inodes
<1>2. D \subseteq Parents(p) /\ D \subseteq DirPath /\ \A d \in D : dirs[d] = NoInode
  BY Directories DEF Missing, IsDir
<1>3. /\ Made(f) = [d \in DirPath |-> IF d \in D THEN f[d] ELSE dirs[d]]
      /\ Claimed(f) = [d \in DirPath |-> IF d \in D THEN f[d] ELSE created[d]]
      /\ NewInodes(f) = {f[d] : d \in D}
  BY <1>1 DEF Made, Claimed, NewInodes
<1>4. /\ dirs \in [DirPath -> Inode \cup {NoInode}] /\ created \in [DirPath -> Inode \cup {NoInode}]
      /\ NoInode \notin Inode
  BY PathIds DEF TypeOK
<1> QED  BY <1>1, <1>2, <1>3, <1>4

\* Inodes that are given out are those of no directory.
Given == \A d \in DirPath : dirs[d] # NoInode => dirs[d] \in spent

\* The inode of a new directory is that of no other; where inodes are not given
\* out again, it never was.
LEMMA NewAreNew ==
  ASSUME TypeOK, Given, NEW D, NEW f \in Inodes(D)
  PROVE  /\ \A d \in DirPath : dirs[d] \notin NewInodes(f)
         /\ ~Reuse => NewInodes(f) \cap spent = {}
<1>1. f \in [D -> Inode] /\ DOMAIN f = D /\ NoInode \notin Inode
  BY PathIds DEF Inodes
<1>2. \A e \in D : f[e] \notin (IF Reuse THEN {dirs[d] : d \in DirPath} ELSE spent)
  BY DEF Inodes
<1>3. NewInodes(f) = {f[d] : d \in D}
  BY <1>1 DEF NewInodes
<1>4. \A d \in DirPath : dirs[d] = NoInode \/ dirs[d] \in spent
  BY DEF Given
<1>5. ASSUME NEW d \in DirPath, NEW e \in D, dirs[d] = f[e] PROVE FALSE
  BY <1>1, <1>2, <1>4, <1>5
<1> QED  BY <1>2, <1>3, <1>5

\* What the cleanup does to a directory and to who owns it.
LEMMA CleanFacts ==
  ASSUME NEW p \in Target, NEW D \in [DirPath -> Inode \cup {NoInode}], NEW F,
         NEW C \in [DirPath -> Inode \cup {NoInode}], NEW N, CleanupParents(p, D, F, C, N)
  PROVE  /\ dirs' \in [DirPath -> Inode \cup {NoInode}]
         /\ created' \in [DirPath -> Inode \cup {NoInode}]
         /\ \A d \in DirPath : dirs'[d] = IF d \in Removed(p, D, F, C, N) THEN NoInode ELSE D[d]
         /\ \A d \in DirPath : created'[d] = C[d] \/ created'[d] = NoInode
         /\ \A d \in DirPath : d \notin Removed(p, D, F, C, N) /\ D[d] = C[d] => created'[d] = C[d]
         /\ \A d \in Removed(p, D, F, C, N) :
              /\ d \in Parents(p) /\ C[d] # NoInode /\ ~Needed(d, N)
              /\ D[d] # NoInode => C[d] = D[d]
BY DEF CleanupParents, Removed, Disowned, Passes, SameFile

\* Every step keeps the type invariant.
LEMMA TypedStep == TypeOK /\ [Next]_vars => TypeOK'
<1> SUFFICES ASSUME TypeOK, [Next]_vars PROVE TypeOK'
  OBVIOUS
<1> DEFINE Keys == [path : {Lower(p) : p \in Target}, by : Sid \cup {NoSid}]
           Trees == [DirPath -> Inode \cup {NoInode}]
           Phases == {"unused", "refused", "open", "saved", "ended"}
<1>t. /\ phase \in [Sid -> Phases] /\ final \in [Sid -> Name] /\ names \subseteq Keys
      /\ dirs \in Trees /\ created \in Trees /\ files \subseteq Name
      /\ mine \subseteq spent /\ spent \subseteq Inode /\ mishaps \subseteq {"mkdir", "outside"}
  BY DEF TypeOK
<1>u. ASSUME phase' \in [Sid -> Phases], final' \in [Sid -> Name], names' \subseteq Keys,
             dirs' \in Trees, created' \in Trees, files' \subseteq Name,
             mine' \subseteq spent', spent' \subseteq Inode, mishaps' \subseteq {"mkdir", "outside"}
      PROVE  TypeOK'
  BY <1>u DEF TypeOK
<1> HIDE DEF Keys, Trees, Phases
<1>p. \A x \in Phases, s \in Sid : [phase EXCEPT ![s] = x] \in [Sid -> Phases]
  BY <1>t
<1>q. {"refused", "open", "saved", "ended"} \subseteq Phases
  BY DEF Phases
<1>n. \A n \in Name : nameKey(n) \in Keys
  BY Names DEF Keys
<1>m. ASSUME NEW p \in Target, NEW D \in SUBSET Missing(p), NEW f \in Inodes(D)
      PROVE  Made(f) \in Trees /\ Claimed(f) \in Trees /\ NewInodes(f) \subseteq Inode
  BY <1>m, MadeFacts DEF Trees
<1>c. ASSUME NEW p \in Target, NEW D \in Trees, NEW C \in Trees, NEW F, NEW N, CleanupParents(p, D, F, C, N)
      PROVE  dirs' \in Trees /\ created' \in Trees
  BY <1>c, CleanFacts DEF Trees
<1>1. ASSUME NEW s \in Sid, NEW p \in Target, InitSession(s, p) PROVE TypeOK'
  <2>1. CASE \E f \in Inodes(Missing(p)), name \in {Plain(p), conflictName(Plain(p), s)} :
               /\ phase' = [phase EXCEPT ![s] = "open"]
               /\ final' = [final EXCEPT ![s] = name] /\ names' = names \cup {nameKey(name)}
               /\ dirs' = Made(f) /\ created' = Claimed(f)
               /\ mine' = mine \cup NewInodes(f) /\ spent' = spent \cup NewInodes(f)
               /\ UNCHANGED <<files, mishaps>>
    <3>1. \A name \in {Plain(p), conflictName(Plain(p), s)} : name \in Name
      BY Names
    <3> QED  BY <1>t, <1>u, <1>p, <1>q, <1>n, <1>m, <2>1, <3>1
  <2>2. CASE /\ phase' = [phase EXCEPT ![s] = "refused"]
             /\ CleanupParents(p, dirs, files, created, names)
             /\ UNCHANGED <<final, names, files, mine, spent, mishaps>>
    BY <1>t, <1>u, <1>p, <1>q, <1>c, <2>2
  <2>3. CASE \E D \in SUBSET Missing(p) : \E f \in Inodes(D) :
             /\ CleanupParents(p, Made(f), files, Claimed(f), names)
             /\ mine' = mine \cup NewInodes(f) /\ spent' = spent \cup NewInodes(f)
             /\ mishaps' \subseteq mishaps \cup {"mkdir"}
             /\ phase' = [phase EXCEPT ![s] = "refused"] /\ UNCHANGED <<final, names, files>>
    <3>0. PICK D \in SUBSET Missing(p) : \E f \in Inodes(D) :
             /\ CleanupParents(p, Made(f), files, Claimed(f), names)
             /\ mine' = mine \cup NewInodes(f) /\ spent' = spent \cup NewInodes(f)
      BY <2>3
    <3>1. PICK f \in Inodes(D) :
             /\ CleanupParents(p, Made(f), files, Claimed(f), names)
             /\ mine' = mine \cup NewInodes(f) /\ spent' = spent \cup NewInodes(f)
      BY <3>0
    <3>2. Made(f) \in Trees /\ Claimed(f) \in Trees /\ NewInodes(f) \subseteq Inode
      BY <1>m
    <3>3. dirs' \in Trees /\ created' \in Trees
      BY <1>c, <3>1, <3>2
    <3> QED  BY <1>t, <1>u, <1>p, <1>q, <2>3, <3>1, <3>2, <3>3
  <2> QED  BY <1>1, <2>1, <2>2, <2>3 DEF InitSession, Creatable
<1>2. ASSUME NEW s \in Sid, Publish(s) PROVE TypeOK'
  <2>1. final[s] \in Name /\ final[s].path \in Target
    BY <1>t, Names
  <2>0. PICK D \in SUBSET Missing(final[s].path) : \E f \in Inodes(D) :
             /\ dirs' = Made(f) /\ created' = Claimed(f)
             /\ mine' = mine \cup NewInodes(f) /\ spent' = spent \cup NewInodes(f)
    BY <1>2 DEF Publish, Creatable
  <2>2. PICK f \in Inodes(D) :
             /\ dirs' = Made(f) /\ created' = Claimed(f)
             /\ mine' = mine \cup NewInodes(f) /\ spent' = spent \cup NewInodes(f)
    BY <2>0
  <2>3. /\ phase' = phase \/ phase' = [phase EXCEPT ![s] = "saved"]
        /\ mishaps' \subseteq mishaps \cup {"mkdir"}
        /\ \/ UNCHANGED <<final, names, files>>
           \/ \E name \in {final[s], conflictName(final[s], s)} :
                /\ final' = [final EXCEPT ![s] = name] /\ files' \in {files, files \cup {name}}
                /\ names' = (names \ {nameKey(final[s])}) \cup {nameKey(name)}
    BY <1>2 DEF Publish
  <2>4. \A name \in {final[s], conflictName(final[s], s)} : name \in Name
    BY <2>1, Names
  <2>5. Made(f) \in Trees /\ Claimed(f) \in Trees /\ NewInodes(f) \subseteq Inode
    BY <1>m, <2>1
  <2> QED  BY <1>t, <1>u, <1>p, <1>q, <1>n, <2>2, <2>3, <2>4, <2>5
<1>3. ASSUME NEW s \in Sid, Remove(s) PROVE TypeOK'
  BY <1>t, <1>u, <1>p, <1>q, <1>c, <1>3, Names DEF Remove
<1>4. ASSUME NEW n \in files, DeleteFile(n) PROVE TypeOK'
  BY <1>t, <1>u, <1>c, <1>4, Names DEF DeleteFile
<1>5. ASSUME NEW d \in DirPath, OutsideMkdir(d) PROVE TypeOK'
  <2>1. PICK f \in Inodes({d}) : /\ dirs' = Made(f) /\ spent' = spent \cup NewInodes(f)
                                 /\ mine' = mine \ NewInodes(f)
    BY <1>5 DEF OutsideMkdir
  <2>2. Made(f) \in Trees /\ NewInodes(f) \subseteq Inode
    <3>1. f \in [{d} -> Inode] /\ DOMAIN f = {d}
      BY DEF Inodes
    <3> QED  BY <1>t, <3>1 DEF Made, NewInodes, Trees
  <2> QED  BY <1>t, <1>u, <1>5, <2>1, <2>2 DEF OutsideMkdir, Outside
<1>6. ASSUME NEW d \in DirPath, OutsideRemove(d) PROVE TypeOK'
  <2>1. dirs' \in Trees
    BY <1>t, <1>6 DEF OutsideRemove, Trees
  <2> QED  BY <1>t, <1>u, <1>6, <2>1 DEF OutsideRemove, Outside
<1>7. ASSUME NEW p \in Target, OutsideFile(p) PROVE TypeOK'
  BY <1>t, <1>u, <1>7, Names DEF OutsideFile, Outside
<1>8. CASE Restart
  <2>1. phase' \in [Sid -> Phases] /\ created' \in Trees
    BY <1>t, <1>8, <1>q DEF Restart, Trees
  <2> QED  BY <1>t, <1>u, <1>8, <2>1 DEF Restart
<1>9. CASE UNCHANGED vars
  BY <1>t, <1>u, <1>9 DEF vars
<1> QED
  BY <1>1, <1>2, <1>3, <1>4, <1>5, <1>6, <1>7, <1>8, <1>9 DEF Next, Service

\* The type invariant holds at the start.
LEMMA TypedInit == Init => TypeOK
<1> SUFFICES ASSUME Init PROVE TypeOK
  OBVIOUS
<1>1. (CHOOSE p \in Target : TRUE) \in Target
  BY PathTargets
<1> QED  BY <1>1, Names DEF Init, TypeOK
-----------------------------------------------------------------------------
(* The steps, by what they do to the uploads and to the tree. *)

\* prepareParent made the directories of f, all that were missing or only some.
Makes(f) == /\ dirs' = Made(f) /\ created' = Claimed(f)
            /\ mine' = mine \cup NewInodes(f) /\ spent' = spent \cup NewInodes(f)
\* An upload is opened, or published, under a name that is its own; publication
\* may fail once the parents are made, with the name exchanged or not.
Opens(s, p, name) ==
  /\ phase[s] = "unused" /\ phase' = [phase EXCEPT ![s] = "open"]
  /\ \/ name = conflictName(Plain(p), s)
     \/ name = Plain(p) /\ nameKey(name) \notin names /\ ~Exists(name)
  /\ ~ParentReserved(p)
  /\ final' = [final EXCEPT ![s] = name] /\ names' = names \cup {nameKey(name)}
  /\ UNCHANGED <<files, mishaps>> /\ \E f \in Inodes(Missing(p)) : Makes(f)
Links(s, name) ==
  /\ phase[s] = "open" /\ phase' \in {phase, [phase EXCEPT ![s] = "saved"]}
  /\ name = final[s] \/ name = conflictName(final[s], s)
  /\ final' = [final EXCEPT ![s] = name] /\ files' \in {files, files \cup {name}}
  /\ names' = (names \ {nameKey(final[s])}) \cup {nameKey(name)}
  /\ UNCHANGED mishaps /\ \E f \in Inodes(Missing(final[s].path)) : Makes(f)
\* An upload is turned away, and what had been made for it is cleaned up.
TurnsAway(s, p) ==
  /\ phase[s] = "unused" /\ phase' = [phase EXCEPT ![s] = "refused"]
  /\ UNCHANGED <<final, names, files>>
  /\ \/ CleanupParents(p, dirs, files, created, names) /\ UNCHANGED <<mine, spent, mishaps>>
     \/ \E D \in SUBSET Missing(p) : \E f \in Inodes(D) :
          /\ CleanupParents(p, Made(f), files, Claimed(f), names)
          /\ mine' = mine \cup NewInodes(f) /\ spent' = spent \cup NewInodes(f)
          /\ (D = Missing(p) /\ mishaps' = mishaps) \/ mishaps' = mishaps \cup {"mkdir"}
\* Publication fails on a directory that cannot be made.
Stops(s) ==
  /\ phase[s] = "open" /\ UNCHANGED <<phase, final, names, files>>
  /\ mishaps' = mishaps \cup {"mkdir"}
  /\ \E D \in SUBSET Missing(final[s].path) : \E f \in Inodes(D) : Makes(f)
Aside == (\E d \in DirPath : OutsideMkdir(d) \/ OutsideRemove(d)) \/ (\E p \in Target : OutsideFile(p))

\* What the service does, ...
LEMMA ServiceSteps ==
  ASSUME Service
  PROVE  \/ \E s \in Sid, p \in Target : TurnsAway(s, p) \/ \E name : Opens(s, p, name)
         \/ \E s \in Sid : Stops(s) \/ Remove(s) \/ \E name : Links(s, name)
         \/ \E n \in files : DeleteFile(n)
<1>1. ASSUME NEW s \in Sid, NEW p \in Target, InitSession(s, p)
      PROVE  TurnsAway(s, p) \/ \E name : Opens(s, p, name)
  <2>1. CASE phase'= [phase EXCEPT ![s] = "open"] /\ mishaps' = mishaps /\ files' = files
             /\ ~ParentReserved(p) /\ \E f \in Inodes(Missing(p)) :
               LET taken == nameKey(Plain(p)) \in names \/ Exists(Plain(p))
                   name == IF taken THEN conflictName(Plain(p), s) ELSE Plain(p)
               IN  /\ final' = [final EXCEPT ![s] = name] /\ names' = names \cup {nameKey(name)}
                   /\ Makes(f)
    <3> DEFINE taken == nameKey(Plain(p)) \in names \/ Exists(Plain(p))
               name == IF taken THEN conflictName(Plain(p), s) ELSE Plain(p)
    <3>1. /\ final' = [final EXCEPT ![s] = name] /\ names' = names \cup {nameKey(name)}
          /\ \E f \in Inodes(Missing(p)) : Makes(f)
      BY <2>1
    <3>2. name = conflictName(Plain(p), s) \/ (name = Plain(p) /\ nameKey(name) \notin names /\ ~Exists(name))
      OBVIOUS
    <3>3. phase[s] = "unused"
      BY <1>1 DEF InitSession
    <3> HIDE DEF name
    <3> QED  BY <2>1, <3>1, <3>2, <3>3 DEF Opens
  <2>2. CASE phase' = [phase EXCEPT ![s] = "refused"] /\ UNCHANGED <<final, names, files>>
             /\ \/ CleanupParents(p, dirs, files, created, names) /\ UNCHANGED <<mine, spent, mishaps>>
                \/ \E whole \in {TRUE, FALSE} :
                     \E D \in Creatable(p, whole) : \E f \in Inodes(D) :
                       /\ CleanupParents(p, Made(f), files, Claimed(f), names)
                       /\ mine' = mine \cup NewInodes(f) /\ spent' = spent \cup NewInodes(f)
                       /\ mishaps' = IF whole THEN mishaps ELSE mishaps \cup {"mkdir"}
    <3>1. phase[s] = "unused"
      BY <1>1 DEF InitSession
    <3> QED  BY <2>2, <3>1 DEF TurnsAway, Creatable
  <2> QED  BY <1>1, <2>1, <2>2 DEF InitSession, Makes
<1>2. ASSUME NEW s \in Sid, Publish(s) PROVE Stops(s) \/ \E name : Links(s, name)
  BY <1>2 DEF Publish, Stops, Links, Makes, Creatable
<1> QED  BY <1>1, <1>2 DEF Service

\* ... and whatever happens.
LEMMA Steps ==
  ASSUME [Next]_vars
  PROVE  \/ \E s \in Sid, p \in Target : TurnsAway(s, p) \/ \E name : Opens(s, p, name)
         \/ \E s \in Sid : Stops(s) \/ Remove(s) \/ \E name : Links(s, name)
         \/ \E n \in files : DeleteFile(n)
         \/ Aside \/ Restart \/ UNCHANGED vars
BY ServiceSteps DEF Next, Aside
-----------------------------------------------------------------------------
(* Names and parents of the active uploads *)

\* The reserved names are those of the active uploads, one each.
Reserved ==
  /\ names = {nameKey(final[s]) : s \in Active}
  /\ \A s, r \in Active : nameKey(final[s]) = nameKey(final[r]) => s = r
  /\ \A s \in Active : final[s].by \in {NoSid, s}

\* No step loses or doubles a reservation.
LEMMA ReservedStep == ASSUME TypeOK, Reserved, [Next]_vars PROVE Reserved'
<1>0. /\ phase \in [Sid -> {"unused", "refused", "open", "saved", "ended"}] /\ final \in [Sid -> Name]
      /\ NoSid \notin Sid
  BY PathIds DEF TypeOK
<1>k. ASSUME names' = names, final' = final, Active' = Active PROVE Reserved'
  BY <1>k DEF Reserved
<1>1. ASSUME NEW s \in Sid, NEW p \in Target, TurnsAway(s, p) PROVE Reserved'
  <2>1. Active' = Active
    BY <1>0, <1>1 DEF Active, TurnsAway
  <2> QED  BY <1>1, <1>k, <2>1 DEF TurnsAway
<1>2. ASSUME NEW s \in Sid, NEW p \in Target, NEW name, Opens(s, p, name) PROVE Reserved'
  <2>1. Active' = Active \cup {s} /\ s \notin Active
    BY <1>0, <1>2 DEF Active, Opens
  <2>2. final'[s] = name /\ \A r \in Active : final'[r] = final[r]
    BY <1>0, <1>2, <2>1 DEF Opens, Active
  <2>3. name \in Name /\ name.by \in {NoSid, s} /\ nameKey(name).by = name.by
    BY <1>2, Names DEF Opens
  <2>4. ASSUME NEW r \in Active PROVE nameKey(final[r]) # nameKey(name)
    <3>1. CASE nameKey(name) \notin names
      BY <3>1 DEF Reserved
    <3>2. CASE name = conflictName(Plain(p), s)
      <4>1. name.by = s
        BY <3>2, Names
      <4>2. nameKey(final[r]).by \in {NoSid, r} /\ r # s
        BY <1>0, <2>1, Names DEF Reserved, Active
      <4> QED  BY <1>0, <2>3, <4>1, <4>2
    <3> QED  BY <1>2, <3>1, <3>2 DEF Opens
  <2>5. names' = names \cup {nameKey(name)}
    BY <1>2 DEF Opens
  <2> QED  BY <2>1, <2>2, <2>3, <2>4, <2>5 DEF Reserved
<1>3. ASSUME NEW s \in Sid, NEW name, Links(s, name) PROVE Reserved'
  <2>1. Active' = Active /\ s \in Active
    BY <1>0, <1>3 DEF Active, Links
  <2>2. final'[s] = name /\ \A r \in Active \ {s} : final'[r] = final[r]
    BY <1>0, <1>3, <2>1 DEF Links, Active
  <2>3. final[s] \in Name /\ name \in Name /\ name.by \in {NoSid, s} /\ nameKey(name).by = name.by
    BY <1>0, <1>3, <2>1, Names DEF Links, Reserved
  <2>4. ASSUME NEW r \in Active \ {s} PROVE nameKey(final[r]) # nameKey(name)
    <3>1. CASE name = final[s]
      BY <2>1, <3>1 DEF Reserved
    <3>2. CASE name = conflictName(final[s], s)
      <4>1. name.by = s
        BY <2>3, <3>2, Names
      <4>2. nameKey(final[r]).by \in {NoSid, r}
        BY <1>0, Names DEF Reserved, Active
      <4> QED  BY <1>0, <2>3, <4>1, <4>2
    <3> QED  BY <1>3, <3>1, <3>2 DEF Links
  <2>5. names' = (names \ {nameKey(final[s])}) \cup {nameKey(name)}
    BY <1>3 DEF Links
  <2>6. names \ {nameKey(final[s])} = {nameKey(final[r]) : r \in Active \ {s}}
    BY <2>1 DEF Reserved
  <2> QED  BY <2>1, <2>2, <2>3, <2>4, <2>5, <2>6 DEF Reserved
<1>4. ASSUME NEW s \in Sid, Stops(s) PROVE Reserved'
  BY <1>4, <1>k DEF Stops, Active
<1>5. ASSUME NEW s \in Sid, Remove(s) PROVE Reserved'
  <2>1. Active' = Active \ {s} /\ s \in Active
    BY <1>0, <1>5 DEF Active, Remove
  <2>2. names' = names \ {nameKey(final[s])} /\ final' = final
    BY <1>5 DEF Remove
  <2> QED  BY <2>1, <2>2 DEF Reserved
<1>6. ASSUME NEW n \in files, DeleteFile(n) PROVE Reserved'
  BY <1>6, <1>k DEF DeleteFile, Active
<1>7. CASE Aside
  BY <1>7, <1>k DEF Aside, OutsideMkdir, OutsideRemove, OutsideFile, Outside, Active
<1>8. CASE Restart
  <2>1. Active' = {} /\ names' = {}
    BY <1>0, <1>8 DEF Active, Restart
  <2> QED  BY <2>1 DEF Reserved
<1>9. CASE UNCHANGED vars
  BY <1>9, <1>k DEF vars, Active
<1> QED
  BY <1>1, <1>2, <1>3, <1>4, <1>5, <1>6, <1>7, <1>8, <1>9, Steps

\* Every directory has an inode that was given out.
LEMMA GivenStep == ASSUME TypeOK, Given, [Next]_vars PROVE Given'
<1>0. dirs \in [DirPath -> Inode \cup {NoInode}] /\ created \in [DirPath -> Inode \cup {NoInode}]
  BY DEF TypeOK
<1>m. ASSUME NEW p \in Target, NEW D \in SUBSET Missing(p), NEW f \in Inodes(D)
      PROVE  \A d \in DirPath : Made(f)[d] # NoInode => Made(f)[d] \in spent \cup NewInodes(f)
  BY <1>m, MadeFacts DEF Given
<1>c. ASSUME NEW p \in Target, NEW D \in [DirPath -> Inode \cup {NoInode}],
             NEW C \in [DirPath -> Inode \cup {NoInode}], NEW F, NEW N, CleanupParents(p, D, F, C, N),
             \A d \in DirPath : D[d] # NoInode => D[d] \in spent'
      PROVE  Given'
  <2>1. \A d \in DirPath : dirs'[d] = IF d \in Removed(p, D, F, C, N) THEN NoInode ELSE D[d]
    BY <1>c, CleanFacts
  <2>2. \A d \in DirPath : dirs'[d] # NoInode => dirs'[d] \in spent'
    BY <1>c, <2>1
  <2> QED  BY <2>2 DEF Given
<1>1. ASSUME NEW s \in Sid, NEW p \in Target, TurnsAway(s, p) PROVE Given'
  <2>1. CASE CleanupParents(p, dirs, files, created, names) /\ UNCHANGED <<mine, spent, mishaps>>
    BY <1>0, <1>c, <2>1 DEF Given
  <2>2. ASSUME NEW D \in SUBSET Missing(p), NEW f \in Inodes(D),
               CleanupParents(p, Made(f), files, Claimed(f), names), spent' = spent \cup NewInodes(f)
        PROVE  Given'
    <3>1. Made(f) \in [DirPath -> Inode \cup {NoInode}] /\ Claimed(f) \in [DirPath -> Inode \cup {NoInode}]
      BY <2>2, MadeFacts
    <3>2. \A d \in DirPath : Made(f)[d] # NoInode => Made(f)[d] \in spent'
      BY <1>m, <2>2
    <3> QED  BY <1>c, <2>2, <3>1, <3>2
  <2> QED  BY <1>1, <2>1, <2>2 DEF TurnsAway
<1>2. ASSUME NEW p \in Target, NEW D \in SUBSET Missing(p), NEW f \in Inodes(D), Makes(f) PROVE Given'
  <2>1. \A d \in DirPath : Made(f)[d] # NoInode => Made(f)[d] \in spent'
    BY <1>m, <1>2 DEF Makes
  <2> QED  BY <1>2, <2>1 DEF Given, Makes
<1>3. ASSUME NEW s \in Sid, Stops(s) PROVE Given'
  <2>1. final[s].path \in Target
    BY Names DEF TypeOK
  <2> QED  BY <1>2, <1>3, <2>1 DEF Stops
<1>11. ASSUME NEW s \in Sid, NEW name, Links(s, name) PROVE Given'
  <2>1. final[s].path \in Target
    BY Names DEF TypeOK
  <2> QED  BY <1>2, <1>11, <2>1 DEF Links
<1>4. ASSUME NEW s \in Sid, Remove(s) PROVE Given'
  <2>1. final[s].path \in Target
    BY Names DEF TypeOK
  <2> QED  BY <1>0, <1>4, <1>c, <2>1 DEF Remove, Given
<1>5. ASSUME NEW n \in files, DeleteFile(n) PROVE Given'
  <2>1. n.path \in Target
    BY Names DEF TypeOK
  <2> QED  BY <1>0, <1>5, <1>c, <2>1 DEF DeleteFile, Given
<1>6. ASSUME NEW d \in DirPath, OutsideMkdir(d) PROVE Given'
  <2>1. PICK f \in Inodes({d}) : dirs' = Made(f) /\ spent' = spent \cup NewInodes(f)
    BY <1>6 DEF OutsideMkdir
  <2>2. f \in [{d} -> Inode] /\ DOMAIN f = {d}
    BY DEF Inodes
  <2> QED  BY <2>1, <2>2 DEF Made, NewInodes, Given
<1>7. ASSUME NEW d \in DirPath, OutsideRemove(d) PROVE Given'
  BY <1>7 DEF OutsideRemove, Given
<1>8. CASE (\E p \in Target : OutsideFile(p)) \/ Restart \/ UNCHANGED vars
  BY <1>8 DEF OutsideFile, Restart, vars, Given
<1>9. ASSUME NEW s \in Sid, NEW p \in Target, NEW name, Opens(s, p, name) PROVE Given'
  BY <1>2, <1>9 DEF Opens
<1>10. CASE Aside
  BY <1>6, <1>7, <1>8, <1>10 DEF Aside
<1> QED
  BY <1>1, <1>3, <1>4, <1>5, <1>8, <1>9, <1>10, <1>11, Steps
-----------------------------------------------------------------------------
(* The directories an upload needs *)

Undisturbed == "outside" \notin mishaps

\* A cleanup leaves the parents of every reserved name.
LEMMA CleanKeeps ==
  ASSUME NEW p \in Target, NEW D \in [DirPath -> Inode \cup {NoInode}], NEW F,
         NEW C \in [DirPath -> Inode \cup {NoInode}], NEW N, CleanupParents(p, D, F, C, N),
         NEW n \in Name, nameKey(n) \in N, NEW d \in Parents(n.path)
  PROVE  dirs'[d] = D[d]
<1>1. d \in DirPath /\ d \in Path /\ n.path \in Path /\ StrictPrefix(d, n.path)
  BY Names, Directories, ParentIsPrefix
<1>2. StrictPrefix(Lower(d), nameKey(n).path)
  BY <1>1, Names, LowerPrefix
<1>3. Needed(d, N)
  BY <1>2 DEF Needed
<1> QED  BY <1>1, <1>3, CleanFacts

\* prepareParent leaves every parent standing, and takes none away.
LEMMA MadeStands ==
  ASSUME TypeOK, NEW p \in Target, NEW D \in SUBSET Missing(p), NEW f \in Inodes(D)
  PROVE  /\ \A d \in DirPath : dirs[d] # NoInode => Made(f)[d] # NoInode
         /\ D = Missing(p) => \A d \in Parents(p) : Made(f)[d] # NoInode
<1>1. \A d \in DirPath : dirs[d] # NoInode => Made(f)[d] # NoInode
  BY MadeFacts
<1>2. ASSUME D = Missing(p), NEW d \in Parents(p) PROVE Made(f)[d] # NoInode
  <2>1. d \in DirPath
    BY Directories
  <2>2. d \in D \/ dirs[d] # NoInode
    BY <1>2, <2>1 DEF Missing, IsDir
  <2> QED  BY <1>1, <2>1, <2>2, MadeFacts
<1> QED  BY <1>1, <1>2

\* What s will publish into stands.
Standing(s) == \A d \in Parents(final[s].path) : dirs[d] # NoInode

\* No end of another upload, and no deletion, takes a directory an upload needs.
LEMMA StandingStep ==
  ASSUME TypeOK, Reserved, [Next]_vars, Undisturbed', \A s \in Active : Standing(s)
  PROVE  \A s \in Active' : Standing(s)'
<1>0. /\ phase \in [Sid -> {"unused", "refused", "open", "saved", "ended"}] /\ final \in [Sid -> Name]
      /\ dirs \in [DirPath -> Inode \cup {NoInode}] /\ created \in [DirPath -> Inode \cup {NoInode}]
      /\ \A s \in Sid : final[s].path \in Target /\ Parents(final[s].path) \subseteq DirPath
  BY Names, Directories DEF TypeOK
<1>g. ASSUME NEW s \in Sid, final'[s].path = final[s].path, Standing(s),
             \A d \in DirPath : dirs[d] # NoInode => dirs'[d] # NoInode
      PROVE  Standing(s)'
  BY <1>0, <1>g DEF Standing
<1>c. ASSUME NEW s \in Active, NEW p \in Target, NEW D \in [DirPath -> Inode \cup {NoInode}],
             NEW C \in [DirPath -> Inode \cup {NoInode}], NEW F, NEW N, CleanupParents(p, D, F, C, N),
             nameKey(final[s]) \in N, final'[s] = final[s],
             \A d \in DirPath : dirs[d] # NoInode => D[d] # NoInode
      PROVE  Standing(s)'
  <2>1. final[s] \in Name /\ Parents(final[s].path) \subseteq DirPath
    BY <1>0 DEF Active
  <2>2. \A d \in Parents(final[s].path) : dirs'[d] = D[d]
    BY <1>c, <2>1, CleanKeeps
  <2> QED  BY <1>c, <2>1, <2>2 DEF Standing
<1>n. \A s \in Active : nameKey(final[s]) \in names
  BY DEF Reserved
<1>1. ASSUME NEW s \in Sid, NEW p \in Target, TurnsAway(s, p) PROVE \A r \in Active' : Standing(r)'
  <2>0. Active' = Active /\ final' = final
    BY <1>0, <1>1 DEF Active, TurnsAway
  <2>1. CASE CleanupParents(p, dirs, files, created, names)
    BY <1>0, <1>c, <1>n, <2>0, <2>1
  <2>2. ASSUME NEW D \in SUBSET Missing(p), NEW f \in Inodes(D),
               CleanupParents(p, Made(f), files, Claimed(f), names)
        PROVE  \A r \in Active' : Standing(r)'
    <3>1. /\ Made(f) \in [DirPath -> Inode \cup {NoInode}] /\ Claimed(f) \in [DirPath -> Inode \cup {NoInode}]
          /\ \A d \in DirPath : dirs[d] # NoInode => Made(f)[d] # NoInode
      BY <2>2, MadeFacts, MadeStands
    <3> QED  BY <1>c, <1>n, <2>0, <2>2, <3>1
  <2> QED  BY <1>1, <2>1, <2>2 DEF TurnsAway
<1>2. ASSUME NEW s \in Sid, NEW p \in Target, NEW name, Opens(s, p, name)
      PROVE  \A r \in Active' : Standing(r)'
  <2>1. Active' = Active \cup {s} /\ s \notin Active
    BY <1>0, <1>2 DEF Active, Opens
  <2>2. final'[s] = name /\ name.path = p /\ \A r \in Active : final'[r] = final[r]
    <3>1. final'[s] = name /\ \A r \in Active : final'[r] = final[r]
      BY <1>0, <1>2, <2>1 DEF Opens, Active
    <3>2. name.path = p
      BY <1>2, Names DEF Opens
    <3> QED  BY <3>1, <3>2
  <2>3. PICK f \in Inodes(Missing(p)) : dirs' = Made(f)
    BY <1>2 DEF Opens, Makes
  <2>4. /\ \A d \in DirPath : dirs[d] # NoInode => dirs'[d] # NoInode
        /\ \A d \in Parents(p) : dirs'[d] # NoInode
    BY <2>3, MadeStands
  <2>5. \A r \in Active : Standing(r)'
    BY <1>g, <2>2, <2>4 DEF Active
  <2>6. Standing(s)'
    BY <2>2, <2>4 DEF Standing
  <2> QED  BY <2>1, <2>5, <2>6
<1>3. ASSUME NEW s \in Sid, Stops(s) \/ \E name : Links(s, name) PROVE \A r \in Active' : Standing(r)'
  <2>1. Active' = Active
    BY <1>0, <1>3 DEF Active, Links, Stops
  <2>2. \A r \in Sid : final'[r].path = final[r].path
    <3>1. CASE Stops(s)
      BY <3>1 DEF Stops
    <3>2. ASSUME NEW name, Links(s, name) PROVE \A r \in Sid : final'[r].path = final[r].path
      <4>1. name.path = final[s].path
        BY <1>0, <3>2, Names DEF Links
      <4> QED  BY <1>0, <3>2, <4>1 DEF Links
    <3> QED  BY <1>3, <3>1, <3>2
  <2>3. \E D \in SUBSET Missing(final[s].path) : \E f \in Inodes(D) : dirs' = Made(f)
    BY <1>3 DEF Stops, Links, Makes
  <2>4. \A d \in DirPath : dirs[d] # NoInode => dirs'[d] # NoInode
    BY <1>0, <2>3, MadeStands
  <2> QED  BY <1>g, <2>1, <2>2, <2>4 DEF Active
<1>4. ASSUME NEW s \in Sid, Remove(s) PROVE \A r \in Active' : Standing(r)'
  <2>1. Active' = Active \ {s} /\ s \in Active /\ final' = final
    BY <1>0, <1>4 DEF Active, Remove
  <2>2. CleanupParents(final[s].path, dirs, files, created, names \ {nameKey(final[s])})
    BY <1>4 DEF Remove
  <2>3. \A r \in Active' : nameKey(final[r]) \in names \ {nameKey(final[s])}
    BY <2>1 DEF Reserved
  <2>4. final[s].path \in Target
    BY <1>0
  <2> QED  BY <1>0, <1>c, <2>1, <2>2, <2>3, <2>4
<1>5. ASSUME NEW n \in files, DeleteFile(n) PROVE \A r \in Active' : Standing(r)'
  <2>1. Active' = Active /\ final' = final /\ n.path \in Target
    BY <1>5, Names DEF Active, DeleteFile, TypeOK
  <2>2. CleanupParents(n.path, dirs, files \ {n}, created, names)
    BY <1>5 DEF DeleteFile
  <2> QED  BY <1>0, <1>c, <1>n, <2>1, <2>2
<1>6. ~Aside
  BY DEF Aside, OutsideMkdir, OutsideRemove, OutsideFile, Outside, Undisturbed
<1>7. CASE Restart
  BY <1>0, <1>7 DEF Restart, Active
<1>8. CASE UNCHANGED vars
  BY <1>8 DEF vars, Active, Standing
<1> QED
  BY <1>1, <1>2, <1>3, <1>4, <1>5, <1>6, <1>7, <1>8, Steps

\* No upload's file is where another's directory is to be.
Apart(s, r) == final[r].by = NoSid => ~StrictPrefix(final[r].path, final[s].path)

\* A name below that of another is refused, and so is one that stands as a directory.
LEMMA ApartStep ==
  ASSUME TypeOK, Reserved, [Next]_vars, Undisturbed', \A s \in Active : Standing(s),
         \A s, r \in Active : Apart(s, r)
  PROVE  \A s, r \in Active' : Apart(s, r)'
<1>0. /\ phase \in [Sid -> {"unused", "refused", "open", "saved", "ended"}] /\ final \in [Sid -> Name]
      /\ \A s \in Sid : final[s].path \in Target /\ final[s].path \in Path
      /\ NoSid \notin Sid /\ Active \subseteq Sid
  BY Names, PathIds DEF TypeOK, Active
<1>k. ASSUME Active' \subseteq Active, final' = final PROVE \A s, r \in Active' : Apart(s, r)'
  BY <1>k DEF Apart
<1>1. ASSUME NEW s \in Sid, NEW p \in Target, NEW name, Opens(s, p, name)
      PROVE  \A r, q \in Active' : Apart(r, q)'
  <2>1. Active' = Active \cup {s} /\ s \notin Active
    BY <1>0, <1>1 DEF Active, Opens
  <2>2. final'[s] = name /\ name.path = p /\ p \in Path /\ \A r \in Active : final'[r] = final[r]
    <3>1. final'[s] = name /\ \A r \in Active : final'[r] = final[r]
      BY <1>0, <1>1, <2>1 DEF Opens, Active
    <3>2. name = Plain(p) \/ name = conflictName(Plain(p), s)
      BY <1>1 DEF Opens
    <3>3. name.path = p
      BY <3>2, Names
    <3>4. p \in Path
      BY Paths
    <3> QED  BY <3>1, <3>3, <3>4
  <2>3. \A r, q \in Active : Apart(r, q)'
    BY <2>2 DEF Apart
  <2>4. Apart(s, s)'
    BY <2>2, PrefixFacts DEF Apart
  <2>5. ASSUME NEW r \in Active PROVE Apart(s, r)'
    <3>1. SUFFICES ASSUME final[r].by = NoSid, StrictPrefix(final[r].path, p) PROVE FALSE
      BY <2>2, <2>5 DEF Apart
    <3>2. final[r].path \in Parents(p)
      BY <1>0, <2>2, <3>1, ParentIsPrefix
    <3>3. final[r] \in Name /\ nameKey(final[r]) \in names
      BY <1>0 DEF Reserved
    <3>4. nameKey(final[r]) = Plain(Lower(final[r].path))
      BY <3>1, <3>3, Names
    <3> QED  BY <1>1, <3>2, <3>3, <3>4 DEF Opens, ParentReserved
  <2>6. ASSUME NEW r \in Active PROVE Apart(r, s)'
    <3>1. SUFFICES ASSUME name.by = NoSid, StrictPrefix(p, final[r].path) PROVE FALSE
      BY <2>2, <2>6 DEF Apart
    <3>2. p \in Parents(final[r].path)
      BY <1>0, <2>2, <3>1, ParentIsPrefix
    <3>3. p \in DirPath /\ dirs[p] # NoInode
      BY <1>0, <3>2, Directories DEF Standing
    <3>4. Exists(Plain(p))
      BY <3>3, Names DEF Exists, IsDir
    <3>5. name = conflictName(Plain(p), s)
      BY <1>1, <3>4 DEF Opens
    <3>6. name.by = s
      BY <3>5, Names
    <3> QED  BY <1>0, <3>1, <3>6
  <2> QED  BY <2>1, <2>3, <2>4, <2>5, <2>6
<1>2. ASSUME NEW s \in Sid, NEW name, Links(s, name) PROVE \A r, q \in Active' : Apart(r, q)'
  <2>1. Active' = Active /\ s \in Active
    BY <1>0, <1>2 DEF Active, Links
  <2>2. name.path = final[s].path /\ (name = final[s] \/ name.by = s)
    BY <1>0, <1>2, Names DEF Links
  <2>3. /\ \A r \in Active : final'[r].path = final[r].path
        /\ \A r \in Active : final'[r].by = NoSid => final[r].by = NoSid
    BY <1>0, <1>2, <2>2 DEF Links
  <2> QED  BY <2>1, <2>3 DEF Apart
<1>3. ASSUME NEW s \in Sid, NEW p \in Target, TurnsAway(s, p) PROVE \A r, q \in Active' : Apart(r, q)'
  BY <1>0, <1>3, <1>k DEF TurnsAway, Active
<1>4. ASSUME NEW s \in Sid, Stops(s) \/ Remove(s) PROVE \A r, q \in Active' : Apart(r, q)'
  BY <1>0, <1>4, <1>k DEF Stops, Remove, Active
<1>5. ASSUME NEW n \in files, DeleteFile(n) PROVE \A r, q \in Active' : Apart(r, q)'
  BY <1>5, <1>k DEF DeleteFile, Active
<1>6. ~Aside
  BY DEF Aside, OutsideMkdir, OutsideRemove, OutsideFile, Outside, Undisturbed
<1>7. CASE Restart \/ UNCHANGED vars
  BY <1>0, <1>7, <1>k DEF Restart, vars, Active
<1> QED
  BY <1>1, <1>2, <1>3, <1>4, <1>5, <1>6, <1>7, Steps

\* Faults that have struck are not forgotten.
LEMMA MishapsGrow == [Next]_vars => mishaps \subseteq mishaps'
BY Steps DEF TurnsAway, Opens, Stops, Links, Remove, DeleteFile, Aside, OutsideMkdir, OutsideRemove,
  OutsideFile, Outside, Restart, vars

\* The inductive invariant of the tree.
Rooted == TypeOK /\ Given /\ Reserved
            /\ (Undisturbed => \A s \in Active : Standing(s) /\ \A r \in Active : Apart(s, r))

\* Every step keeps it, ...
LEMMA RootedStep == Rooted /\ [Next]_vars => Rooted'
<1> SUFFICES ASSUME Rooted, [Next]_vars PROVE Rooted'
  OBVIOUS
<1>1. TypeOK' /\ Given' /\ Reserved'
  BY TypedStep, GivenStep, ReservedStep DEF Rooted
<1>2. ASSUME Undisturbed' PROVE \A s \in Active' : Standing(s)' /\ \A r \in Active' : Apart(s, r)'
  <2>1. Undisturbed
    BY <1>2, MishapsGrow DEF Undisturbed
  <2> QED  BY <1>2, <2>1, StandingStep, ApartStep DEF Rooted
<1> QED  BY <1>1, <1>2 DEF Rooted

\* ... and it holds at the start.
LEMMA RootedInit == Init => Rooted
<1>1. Init => Active = {}
  BY DEF Init, Active
<1> QED  BY <1>1, TypedInit DEF Rooted, Init, Given, Reserved

\* The tree always has room for what active uploads will publish, unless another
\* program takes it away.
THEOREM TreeAlwaysSound == Spec => []TreeSound
<1>1. Rooted => TreeSound
  <2> SUFFICES ASSUME Rooted PROVE TreeSound
    OBVIOUS
  <2>1. ASSUME Undisturbed, NEW s \in Active, NEW d \in Parents(final[s].path) PROVE IsDir(d)
    <3>1. d \in DirPath
      BY Names, Directories DEF Rooted, TypeOK, Active
    <3> QED  BY <2>1, <3>1 DEF Rooted, Standing, IsDir
  <2> QED  BY <2>1 DEF TreeSound, ParentsStand, NoFileAsParent, Rooted, Undisturbed, Apart
<1> QED  BY <1>1, RootedInit, RootedStep, PTL DEF Spec
-----------------------------------------------------------------------------
(* Whose directories are removed *)

\* What is owned was made by this process, where inodes are not given out again.
Owned == \A d \in DirPath : created[d] # NoInode => created[d] \in mine

\* Making directories and claiming them go together.
LEMMA MadeOwned ==
  ASSUME TypeOK, Owned, NEW p \in Target, NEW D \in SUBSET Missing(p), NEW f \in Inodes(D)
  PROVE  \A d \in DirPath : Claimed(f)[d] # NoInode => Claimed(f)[d] \in mine \cup NewInodes(f)
BY MadeFacts DEF Owned

\* A cleanup removes what is owned only, as it stands.
LEMMA CleanOwned ==
  ASSUME NEW p \in Target, NEW D \in [DirPath -> Inode \cup {NoInode}], NEW F,
         NEW C \in [DirPath -> Inode \cup {NoInode}], NEW N, CleanupParents(p, D, F, C, N),
         NEW M, \A d \in DirPath : C[d] # NoInode => C[d] \in M
  PROVE  /\ \A d \in DirPath : created'[d] # NoInode => created'[d] \in M
         /\ \A d \in DirPath : D[d] # NoInode /\ dirs'[d] = NoInode => D[d] \in M
<1>1. \A d \in DirPath : created'[d] = C[d] \/ created'[d] = NoInode
  BY CleanFacts
<1>2. \A d \in DirPath : D[d] # NoInode /\ dirs'[d] = NoInode => D[d] = C[d]
  <2> SUFFICES ASSUME NEW d \in DirPath, D[d] # NoInode, dirs'[d] = NoInode PROVE D[d] = C[d]
    OBVIOUS
  <2>1. d \in Removed(p, D, F, C, N)
    BY CleanFacts
  <2> QED  BY <2>1, CleanFacts
<1> QED  BY <1>1, <1>2

\* What the service takes away in this step, it had made.
TakesOwn == \A d \in DirPath : dirs[d] # NoInode /\ dirs'[d] = NoInode => dirs[d] \in mine

\* Nobody else's directory comes to be owned, or is taken away.
LEMMA OwnedStep ==
  ASSUME Rooted, ~Reuse, Owned, [Next]_vars
  PROVE  Owned' /\ (Service => TakesOwn)
<1>0. /\ TypeOK /\ Given
      /\ dirs \in [DirPath -> Inode \cup {NoInode}] /\ created \in [DirPath -> Inode \cup {NoInode}]
      /\ mine \subseteq spent /\ \A s \in Sid : final[s].path \in Target
  BY Names DEF Rooted, TypeOK
<1>k. ASSUME created' = created, mine \subseteq mine', \A d \in DirPath : dirs[d] # NoInode => dirs'[d] # NoInode
      PROVE  Owned' /\ TakesOwn
  BY <1>k DEF Owned, TakesOwn
<1>c. ASSUME NEW p \in Target, NEW F, NEW N, CleanupParents(p, dirs, F, created, N), mine' = mine
      PROVE  Owned' /\ TakesOwn
  <2>1. \A d \in DirPath : created[d] # NoInode => created[d] \in mine
    BY DEF Owned
  <2>2. /\ \A d \in DirPath : created'[d] # NoInode => created'[d] \in mine
        /\ \A d \in DirPath : dirs[d] # NoInode /\ dirs'[d] = NoInode => dirs[d] \in mine
    BY <1>0, <1>c, <2>1, CleanOwned
  <2> QED  BY <1>c, <2>2 DEF Owned, TakesOwn
<1>m. ASSUME NEW p \in Target, NEW D \in SUBSET Missing(p), NEW f \in Inodes(D), Makes(f)
      PROVE  Owned' /\ TakesOwn
  <2>1. \A d \in DirPath : Claimed(f)[d] # NoInode => Claimed(f)[d] \in mine \cup NewInodes(f)
    BY <1>0, <1>m, MadeOwned
  <2>2. \A d \in DirPath : dirs[d] # NoInode => Made(f)[d] # NoInode
    BY <1>0, <1>m, MadeStands
  <2> QED  BY <1>m, <2>1, <2>2 DEF Makes, Owned, TakesOwn
<1>1. ASSUME NEW s \in Sid, NEW p \in Target, TurnsAway(s, p) PROVE Owned' /\ TakesOwn
  <2>1. CASE CleanupParents(p, dirs, files, created, names) /\ UNCHANGED <<mine, spent, mishaps>>
    BY <1>c, <2>1
  <2>2. ASSUME NEW D \in SUBSET Missing(p), NEW f \in Inodes(D),
               CleanupParents(p, Made(f), files, Claimed(f), names), mine' = mine \cup NewInodes(f)
        PROVE  Owned' /\ TakesOwn
    <3>1. /\ Made(f) \in [DirPath -> Inode \cup {NoInode}] /\ Claimed(f) \in [DirPath -> Inode \cup {NoInode}]
          /\ \A d \in DirPath \ D : Made(f)[d] = dirs[d]
          /\ \A d \in D : dirs[d] = NoInode
      BY <1>0, <2>2, MadeFacts
    <3>2. \A d \in DirPath : Claimed(f)[d] # NoInode => Claimed(f)[d] \in mine \cup NewInodes(f)
      BY <1>0, <2>2, MadeOwned
    <3>3. /\ \A d \in DirPath : created'[d] # NoInode => created'[d] \in mine \cup NewInodes(f)
          /\ \A d \in DirPath : Made(f)[d] # NoInode /\ dirs'[d] = NoInode
                                  => Made(f)[d] \in mine \cup NewInodes(f)
      BY <2>2, <3>1, <3>2, CleanOwned
    <3>4. \A d \in DirPath : dirs[d] \notin NewInodes(f)
      BY <1>0, <2>2, NewAreNew
    <3>5. Owned'
      BY <2>2, <3>3 DEF Owned
    <3>6. TakesOwn
      BY <3>1, <3>3, <3>4 DEF TakesOwn
    <3> QED  BY <3>5, <3>6
  <2> QED  BY <1>1, <2>1, <2>2 DEF TurnsAway
<1>2. ASSUME NEW s \in Sid, NEW p \in Target, NEW name, Opens(s, p, name) PROVE Owned' /\ TakesOwn
  BY <1>m, <1>2 DEF Opens
<1>3. ASSUME NEW s \in Sid, NEW name, Links(s, name) PROVE Owned' /\ TakesOwn
  BY <1>0, <1>m, <1>3 DEF Links
<1>4. ASSUME NEW s \in Sid, Stops(s) PROVE Owned' /\ TakesOwn
  BY <1>0, <1>m, <1>4 DEF Stops
<1>5. ASSUME NEW s \in Sid, Remove(s) PROVE Owned' /\ TakesOwn
  BY <1>0, <1>c, <1>5 DEF Remove
<1>6. ASSUME NEW n \in files, DeleteFile(n) PROVE Owned' /\ TakesOwn
  <2>1. n.path \in Target
    BY <1>0, Names DEF TypeOK
  <2> QED  BY <1>c, <1>6, <2>1 DEF DeleteFile
<1>7. ASSUME Aside PROVE Owned'
  <2>1. created' = created
    BY <1>7 DEF Aside, OutsideMkdir, OutsideRemove, OutsideFile, Outside
  <2>2. \A d \in DirPath : created[d] # NoInode => created[d] \in mine'
    <3>1. CASE mine' = mine
      BY <3>1 DEF Owned
    <3>2. ASSUME NEW d \in DirPath, NEW f \in Inodes({d}), mine' = mine \ NewInodes(f) PROVE mine' = mine
      <4>1. NewInodes(f) \cap spent = {}
        BY <1>0, NewAreNew
      <4> QED  BY <1>0, <3>2, <4>1
    <3> QED  BY <1>7, <3>1, <3>2 DEF Aside, OutsideMkdir, OutsideRemove, OutsideFile
  <2> QED  BY <1>7, <2>1, <2>2 DEF Owned
<1>8. CASE Restart
  BY <1>8 DEF Restart, Owned, TakesOwn
<1>9. CASE UNCHANGED vars
  BY <1>9, <1>k DEF vars
<1>10. Owned'
  BY <1>1, <1>2, <1>3, <1>4, <1>5, <1>6, <1>7, <1>8, <1>9, Steps
<1>11. Service => TakesOwn
  BY <1>1, <1>2, <1>3, <1>4, <1>5, <1>6, ServiceSteps
<1> QED  BY <1>10, <1>11

\* The service removes only directories it created itself, if the file system
\* does not give the inode of a removed directory to a new one.
THEOREM OnlyOwnAreRemoved == ASSUME ~Reuse PROVE Spec => OnlyOwnRemoved
<1>1. Init => Owned
  BY DEF Init, Owned
<1>2. Rooted /\ Owned /\ [Next]_vars => Owned'
  BY OwnedStep
<1>3. Rooted /\ Owned /\ [Next]_vars =>
        [Service => \A d \in DirPath : dirs[d] # NoInode /\ dirs'[d] = NoInode => dirs[d] \in mine]_vars
  BY OwnedStep DEF TakesOwn
<1> QED  BY <1>1, <1>2, <1>3, RootedInit, RootedStep, PTL DEF Spec, OnlyOwnRemoved
-----------------------------------------------------------------------------
(* What is left behind *)

Unhindered == mishaps \cap {"mkdir", "outside"} = {}

\* Directories stand in directories, and so do files.
Closed(D, F) ==
  /\ \A d \in DirPath : D[d] # NoInode => \A e \in Parents(d) : D[e] # NoInode
  /\ \A n \in F : \A e \in Parents(n.path) : D[e] # NoInode
\* What the process made it knows to be its own.
Known(D, C, M) == \A d \in DirPath : D[d] \in M => C[d] = D[d]
\* d was made here, is empty, and nothing that is reserved needs it.
Untidy(d, D, F, M, N) == D[d] \in M /\ Content(d, D, F, {}) = {} /\ ~Needed(d, N)

\* A cleanup leaves no file and no directory without its parents.
LEMMA CleanClosed ==
  ASSUME NEW p \in Target, NEW D \in [DirPath -> Inode \cup {NoInode}], NEW F \in SUBSET Name,
         NEW C \in [DirPath -> Inode \cup {NoInode}], NEW N, CleanupParents(p, D, F, C, N),
         Closed(D, F)
  PROVE  Closed(dirs', F)
<1> DEFINE R == Removed(p, D, F, C, N)
<1>1. \A d \in DirPath : dirs'[d] = IF d \in R THEN NoInode ELSE D[d]
  BY CleanFacts
<1>2. ASSUME NEW e \in DirPath, e \in R, D[e] # NoInode
      PROVE  /\ \A d \in DirPath : e \in Parents(d) => dirs'[d] = NoInode
             /\ \A n \in F : e \notin Parents(n.path)
  <2>1. /\ e \in Parents(p) /\ Reached(e, p, D, F, C, N)
        /\ Content(e, D, F, {h \in Parents(p) : StrictPrefix(e, h)}) = {}
    BY <1>2 DEF Removed, Passes
  <2>2. e \in Path /\ p \in Path
    BY Directories, Paths
  <2>3. ASSUME NEW d \in DirPath, e \in Parents(d), D[d] # NoInode PROVE d \in R
    <3>1. d \in Path /\ StrictPrefix(e, d)
      BY <2>3, Directories, ParentIsPrefix
    <3>2. d \in Parents(p)
      BY <2>1, <2>3, <3>1 DEF Content
    <3>3. Passes(d, p, D, F, C, N)
      BY <2>1, <3>1, <3>2 DEF Reached
    <3>4. ASSUME NEW h \in Parents(p), StrictPrefix(d, h) PROVE Passes(h, p, D, F, C, N)
      <4>1. h \in Path
        BY <2>2, ParentIsPrefix
      <4>2. StrictPrefix(e, h)
        BY <2>2, <3>1, <3>4, <4>1, PrefixFacts
      <4> QED  BY <2>1, <4>2 DEF Reached
    <3> QED  BY <3>2, <3>3, <3>4 DEF Removed, Reached
  <2>4. ASSUME NEW n \in F, e \in Parents(n.path) PROVE FALSE
    <3>1. StrictPrefix(e, n.path)
      BY <2>4, Names, ParentIsPrefix
    <3> QED  BY <2>1, <3>1 DEF Content
  <2> QED  BY <1>1, <2>3, <2>4
<1>3. ASSUME NEW d \in DirPath, dirs'[d] # NoInode, NEW e \in Parents(d) PROVE dirs'[e] # NoInode
  <2>1. e \in DirPath /\ D[d] # NoInode
    BY <1>1, <1>3, Directories
  <2>2. D[e] # NoInode
    BY <2>1, <1>3 DEF Closed
  <2> QED  BY <1>1, <1>2, <1>3, <2>1, <2>2
<1>4. ASSUME NEW n \in F, NEW e \in Parents(n.path) PROVE dirs'[e] # NoInode
  <2>1. e \in DirPath
    BY Names, Directories
  <2>2. D[e] # NoInode
    BY <1>4 DEF Closed
  <2> QED  BY <1>1, <1>2, <1>4, <2>1, <2>2
<1> QED  BY <1>3, <1>4 DEF Closed

\* A cleanup that begins where, those of X aside, only the deepest parent of p may
\* be empty leaves no other empty directory behind: it climbs as long as it empties
\* what is above.
LEMMA CleanTidy ==
  ASSUME NEW p \in Target, NEW D \in [DirPath -> Inode \cup {NoInode}], NEW F \in SUBSET Name,
         NEW C \in [DirPath -> Inode \cup {NoInode}], NEW N, CleanupParents(p, D, F, C, N),
         NEW M \in SUBSET Inode, Closed(D, F), Known(D, C, M),
         NEW X, \A d \in DirPath \ X : Untidy(d, D, F, M, N) =>
           d \in Parents(p) /\ \A e \in Parents(p) : ~StrictPrefix(d, e)
  PROVE  Known(dirs', created', M) /\ \A d \in DirPath \ X : ~Untidy(d, dirs', F, M, N)
<1> DEFINE R == Removed(p, D, F, C, N)
<1>0. NoInode \notin M
  BY PathIds
<1>1. \A d \in DirPath : dirs'[d] = IF d \in R THEN NoInode ELSE D[d]
  BY CleanFacts
<1>2. Known(dirs', created', M)
  <2> SUFFICES ASSUME NEW d \in DirPath, dirs'[d] \in M PROVE created'[d] = dirs'[d]
    BY DEF Known
  <2>1. d \notin R /\ dirs'[d] = D[d]
    BY <1>0, <1>1
  <2>2. D[d] = C[d]
    BY <2>1 DEF Known
  <2> QED  BY <2>1, <2>2, CleanFacts
<1>3. ASSUME NEW d \in DirPath \ X, Untidy(d, dirs', F, M, N) PROVE FALSE
  <2>1. d \notin R /\ D[d] \in M /\ D[d] # NoInode /\ C[d] = D[d] /\ ~Needed(d, N) /\ d \in Path
    BY <1>0, <1>1, <1>3, Directories DEF Untidy, Known
  <2>2. /\ \A h \in DirPath : StrictPrefix(d, h) => dirs'[h] = NoInode
        /\ \A n \in F : ~StrictPrefix(d, n.path)
    BY <1>3 DEF Untidy, Content
  <2>3. \A h \in DirPath : StrictPrefix(d, h) /\ D[h] # NoInode => h \in R
    BY <1>1, <2>2
  <2>4. \A h \in R : h \in Parents(p) /\ Passes(h, p, D, F, C, N) /\ Reached(h, p, D, F, C, N)
    BY DEF Removed
  <2>5. ASSUME d \in Parents(p), Reached(d, p, D, F, C, N) PROVE FALSE
    <3>1. Content(d, D, F, {h \in Parents(p) : StrictPrefix(d, h)}) = {}
      BY <2>2, <2>3, <2>4 DEF Content
    <3>2. Passes(d, p, D, F, C, N)
      BY <2>1, <3>1 DEF Passes, SameFile
    <3> QED  BY <2>1, <2>5, <3>2 DEF Removed
  <2>6. CASE \A h \in DirPath : StrictPrefix(d, h) => D[h] = NoInode
    <3>1. Content(d, D, F, {}) = {}
      BY <2>2, <2>6 DEF Content
    <3>2. Untidy(d, D, F, M, N)
      BY <2>1, <3>1 DEF Untidy
    <3>3. d \in Parents(p) /\ Reached(d, p, D, F, C, N)
      BY <3>2 DEF Reached
    <3> QED  BY <2>5, <3>3
  <2>7. CASE \E h \in DirPath : StrictPrefix(d, h) /\ D[h] # NoInode
    <3>1. PICK e \in DirPath : StrictPrefix(d, e) /\ D[e] # NoInode
      BY <2>7
    <3>2. e \in R /\ e \in Parents(p) /\ Passes(e, p, D, F, C, N) /\ Reached(e, p, D, F, C, N)
      BY <2>3, <2>4, <3>1
    <3>3. p \in Path /\ e \in Path /\ StrictPrefix(e, p) /\ StrictPrefix(d, p)
      BY <2>1, <3>1, <3>2, Paths, Directories, ParentIsPrefix, PrefixFacts
    <3>4. d \in Parents(p)
      BY <2>1, <3>3, ParentIsPrefix
    <3>5. ASSUME NEW g \in Parents(p), StrictPrefix(d, g) PROVE Passes(g, p, D, F, C, N)
      <4>1. g \in Path /\ g \in DirPath /\ StrictPrefix(g, p)
        BY <3>3, ParentIsPrefix, Directories
      <4>2. g = e \/ StrictPrefix(e, g) \/ StrictPrefix(g, e)
        BY <3>3, <4>1, PrefixFacts
      <4>3. CASE StrictPrefix(g, e)
        <5>1. g \in Parents(e)
          BY <3>3, <4>1, <4>3, ParentIsPrefix
        <5>2. D[g] # NoInode
          BY <3>1, <5>1 DEF Closed
        <5> QED  BY <2>3, <2>4, <3>5, <4>1, <5>2
      <4> QED  BY <3>2, <4>2, <4>3 DEF Reached
    <3> QED  BY <2>5, <3>4, <3>5 DEF Reached
  <2> QED  BY <2>6, <2>7
<1> QED  BY <1>2, <1>3

\* The tree is in order when nothing disturbed it, but where two directories
\* differ by their case alone.
Neat == Closed(dirs, files) /\ Known(dirs, created, mine)
          /\ \A d \in DirPath : Untidy(d, dirs, files, mine, names) => Doubled(d)

\* A directory that differed from another by its case alone does so for good.
LEMMA DoubledStays == ASSUME TypeOK, [Next]_vars, NEW d, Doubled(d) PROVE Doubled(d)'
<1>0. /\ phase \in [Sid -> {"unused", "refused", "open", "saved", "ended"}] /\ final \in [Sid -> Name]
      /\ Active \subseteq Sid
  BY DEF TypeOK, Active
<1>1. PICK s \in Sid : /\ phase[s] \in {"open", "saved", "ended"}
                       /\ \E e \in Parents(final[s].path) : e # d /\ Lower(e) = Lower(d)
  BY DEF Doubled
<1>2. phase'[s] \in {"open", "saved", "ended"} /\ final'[s].path = final[s].path
  <2>1. ASSUME NEW r \in Sid, NEW p \in Target, TurnsAway(r, p)
        PROVE  phase'[s] \in {"open", "saved", "ended"} /\ final'[s].path = final[s].path
    BY <1>0, <1>1, <2>1 DEF TurnsAway
  <2>2. ASSUME NEW r \in Sid, NEW p \in Target, NEW name, Opens(r, p, name)
        PROVE  phase'[s] \in {"open", "saved", "ended"} /\ final'[s].path = final[s].path
    BY <1>0, <1>1, <2>2 DEF Opens
  <2>3. ASSUME NEW r \in Sid, NEW name, Links(r, name)
        PROVE  phase'[s] \in {"open", "saved", "ended"} /\ final'[s].path = final[s].path
    <3>1. name.path = final[r].path
      BY <1>0, <2>3, Names DEF Links
    <3> QED  BY <1>0, <1>1, <2>3, <3>1 DEF Links
  <2>4. ASSUME NEW r \in Sid, Stops(r) \/ Remove(r)
        PROVE  phase'[s] \in {"open", "saved", "ended"} /\ final'[s].path = final[s].path
    BY <1>0, <1>1, <2>4 DEF Stops, Remove
  <2>5. CASE \/ \E n \in files : DeleteFile(n)
             \/ Aside \/ UNCHANGED vars
    BY <1>1, <2>5 DEF DeleteFile, Aside, OutsideMkdir, OutsideRemove, OutsideFile, Outside, vars
  <2>6. CASE Restart
    BY <1>0, <1>1, <2>6 DEF Restart
  <2> QED  BY <2>1, <2>2, <2>3, <2>4, <2>5, <2>6, Steps
<1> QED  BY <1>1, <1>2 DEF Doubled

\* prepareParent keeps the order, but for the parents it makes.
LEMMA MadeNeat ==
  ASSUME Rooted, Neat, NEW p \in Target, NEW f \in Inodes(Missing(p))
  PROVE  /\ Closed(Made(f), files) /\ Known(Made(f), Claimed(f), mine \cup NewInodes(f))
         /\ \A d \in Parents(p) : Made(f)[d] # NoInode
         /\ \A d \in DirPath : \A F, N : files \subseteq F /\ (Needed(d, names) => Needed(d, N))
              /\ Untidy(d, Made(f), F, mine \cup NewInodes(f), N) => d \in Parents(p) \/ Doubled(d)
<1> DEFINE D == Missing(p)
           M == mine \cup NewInodes(f)
<1>0. TypeOK /\ Given /\ p \in Path /\ D \in SUBSET Missing(p) /\ f \in Inodes(D)
  BY Paths DEF Rooted
<1>1. /\ D \subseteq Parents(p)
      /\ \A d \in D : dirs[d] = NoInode /\ Made(f)[d] = f[d] /\ Claimed(f)[d] = f[d]
      /\ \A d \in DirPath \ D : Made(f)[d] = dirs[d] /\ Claimed(f)[d] = created[d]
  BY <1>0, MadeFacts
<1>2. /\ \A d \in DirPath : dirs[d] # NoInode => Made(f)[d] # NoInode
      /\ \A d \in Parents(p) : Made(f)[d] # NoInode
  BY <1>0, MadeStands
<1>3. \A d \in DirPath : dirs[d] \notin NewInodes(f)
  BY <1>0, NewAreNew
<1>4. Closed(Made(f), files)
  <2>1. ASSUME NEW d \in DirPath, Made(f)[d] # NoInode, NEW e \in Parents(d) PROVE Made(f)[e] # NoInode
    <3>1. CASE d \in D
      <4>1. d \in Path /\ e \in Path /\ StrictPrefix(e, d) /\ StrictPrefix(d, p)
        BY <1>0, <1>1, <2>1, <3>1, Directories, ParentIsPrefix
      <4>2. e \in Parents(p)
        BY <1>0, <4>1, PrefixFacts, ParentIsPrefix
      <4> QED  BY <1>2, <4>2
    <3>2. CASE d \notin D
      <4>1. e \in DirPath /\ dirs[e] # NoInode
        BY <1>1, <2>1, <3>2, Directories DEF Neat, Closed
      <4> QED  BY <1>2, <4>1
    <3> QED  BY <3>1, <3>2
  <2>2. ASSUME NEW n \in files, NEW e \in Parents(n.path) PROVE Made(f)[e] # NoInode
    <3>1. e \in DirPath
      BY <1>0, Names, Directories DEF TypeOK
    <3> QED  BY <1>2, <3>1 DEF Neat, Closed
  <2> QED  BY <2>1, <2>2 DEF Closed
<1>5. Known(Made(f), Claimed(f), M)
  BY <1>1, <1>3 DEF Neat, Known
<1>6. ASSUME NEW d \in DirPath, NEW F, NEW N, files \subseteq F, Needed(d, names) => Needed(d, N), d \notin Parents(p),
             Untidy(d, Made(f), F, M, N)
      PROVE  Doubled(d)
  <2>1. dirs[d] \in mine
    BY <1>1, <1>3, <1>6 DEF Untidy
  <2>2. Content(d, dirs, files, {}) = {}
    BY <1>2, <1>6 DEF Untidy, Content
  <2>3. ~Needed(d, names)
    BY <1>6 DEF Untidy, Needed
  <2> QED  BY <2>1, <2>2, <2>3 DEF Neat, Untidy
<1> QED  BY <1>2, <1>4, <1>5, <1>6

\* The same, where all parents of p stand and only they, and those of X, may be empty.
LEMMA Swept ==
  ASSUME NEW p \in Target, NEW D \in [DirPath -> Inode \cup {NoInode}], NEW F \in SUBSET Name,
         NEW C \in [DirPath -> Inode \cup {NoInode}], NEW N, CleanupParents(p, D, F, C, N),
         NEW M \in SUBSET Inode, Closed(D, F), Known(D, C, M),
         \A e \in Parents(p) : D[e] # NoInode,
         NEW X, \A d \in DirPath \ X : Untidy(d, D, F, M, N) => d \in Parents(p)
  PROVE  /\ Closed(dirs', F) /\ Known(dirs', created', M)
         /\ \A d \in DirPath \ X : ~Untidy(d, dirs', F, M, N)
<1>1. Closed(dirs', F)
  BY CleanClosed
<1>2. ASSUME NEW d \in DirPath \ X, Untidy(d, D, F, M, N)
      PROVE  d \in Parents(p) /\ \A e \in Parents(p) : ~StrictPrefix(d, e)
  <2>1. Content(d, D, F, {}) = {}
    BY <1>2 DEF Untidy
  <2>2. \A e \in Parents(p) : e \in DirPath /\ D[e] # NoInode
    BY Directories
  <2>3. \A e \in Parents(p) : StrictPrefix(d, e) => e \in Content(d, D, F, {})
    BY <2>2 DEF Content
  <2> QED  BY <1>2, <2>1, <2>3
<1>3. Known(dirs', created', M) /\ \A d \in DirPath \ X : ~Untidy(d, dirs', F, M, N)
  BY <1>2, CleanTidy
<1> QED  BY <1>1, <1>3

\* A name needs the parents of its path, and is taken to need what differs from
\* one of them by its case alone.
LEMMA NeededBy ==
  ASSUME NEW d \in DirPath, NEW n \in Name
  PROVE  /\ d \in Parents(n.path) => StrictPrefix(Lower(d), nameKey(n).path)
         /\ StrictPrefix(Lower(d), nameKey(n).path) =>
              \/ d \in Parents(n.path)
              \/ \E e \in Parents(n.path) : e # d /\ Lower(e) = Lower(d)
<1>1. d \in Path /\ n.path \in Path /\ nameKey(n).path = Lower(n.path)
  BY Names, Directories
<1> QED  BY <1>1, LowerPrefix, ParentIsPrefix

\* Whatever happens, no directory is left behind, but where one could not be
\* made, others work on the tree, or two directories differ by their case alone.
LEMMA NeatStep ==
  ASSUME Rooted, Neat, [Next]_vars, Unhindered'
  PROVE  Neat'
<1> DEFINE X == {d \in DirPath : Doubled(d)'}
<1>x. \A d \in DirPath : /\ Doubled(d) => d \in X
                         /\ d \in X => Doubled(d)'
  BY DoubledStays DEF Rooted
<1> HIDE DEF X
<1>y. ASSUME Closed(dirs', files'), Known(dirs', created', mine'),
             \A d \in DirPath \ X : ~Untidy(d, dirs', files', mine', names')
      PROVE  Neat'
  <2>1. \A d \in DirPath : Untidy(d, dirs', files', mine', names') => Doubled(d)'
    BY <1>x, <1>y
  <2> QED  BY <1>y, <2>1 DEF Neat
<1>0. /\ TypeOK /\ Reserved /\ (\A s \in Active : Standing(s)) /\ Unhindered
      /\ phase \in [Sid -> {"unused", "refused", "open", "saved", "ended"}] /\ final \in [Sid -> Name]
      /\ dirs \in [DirPath -> Inode \cup {NoInode}] /\ created \in [DirPath -> Inode \cup {NoInode}]
      /\ files \in SUBSET Name /\ mine \in SUBSET Inode
      /\ \A s \in Sid : final[s].path \in Target
  BY MishapsGrow, Names DEF Rooted, TypeOK, Undisturbed, Unhindered
<1>n. Closed(dirs, files) /\ Known(dirs, created, mine)
        /\ \A d \in DirPath \ X : ~Untidy(d, dirs, files, mine, names)
  BY <1>x DEF Neat
<1>1. ASSUME NEW s \in Sid, NEW p \in Target, TurnsAway(s, p) PROVE Neat'
  <2>0. names' = names /\ files' = files
    BY <1>1 DEF TurnsAway
  <2>1. CASE CleanupParents(p, dirs, files, created, names) /\ mine' = mine
    <3>1. Closed(dirs', files)
      BY <1>0, <1>n, <2>1, CleanClosed
    <3>2. Known(dirs', created', mine) /\ \A d \in DirPath \ X : ~Untidy(d, dirs', files, mine, names)
      BY <1>0, <1>n, <2>1, CleanTidy
    <3> QED  BY <1>y, <2>0, <2>1, <3>1, <3>2
  <2>2. ASSUME NEW f \in Inodes(Missing(p)), mine' = mine \cup NewInodes(f),
               CleanupParents(p, Made(f), files, Claimed(f), names)
        PROVE  Neat'
    <3> DEFINE M == mine \cup NewInodes(f)
    <3>1. /\ Made(f) \in [DirPath -> Inode \cup {NoInode}]
          /\ Claimed(f) \in [DirPath -> Inode \cup {NoInode}] /\ M \in SUBSET Inode
      BY <1>0, MadeFacts
    <3>2. /\ Closed(Made(f), files) /\ Known(Made(f), Claimed(f), M)
          /\ \A d \in Parents(p) : Made(f)[d] # NoInode
          /\ \A d \in DirPath \ X : Untidy(d, Made(f), files, M, names) => d \in Parents(p)
      BY <1>x, MadeNeat
    <3> HIDE DEF M
    <3>3. /\ Closed(dirs', files) /\ Known(dirs', created', M)
          /\ \A d \in DirPath \ X : ~Untidy(d, dirs', files, M, names)
      BY <1>0, <2>2, <3>1, <3>2, Swept
    <3> QED  BY <1>y, <2>0, <2>2, <3>3 DEF M
  <2>3. \/ CleanupParents(p, dirs, files, created, names) /\ mine' = mine
        \/ \E f \in Inodes(Missing(p)) : /\ mine' = mine \cup NewInodes(f)
                                         /\ CleanupParents(p, Made(f), files, Claimed(f), names)
    <3>1. mishaps' # mishaps \cup {"mkdir"}
      BY DEF Unhindered
    <3> QED  BY <1>1, <3>1 DEF TurnsAway
  <2> QED  BY <2>1, <2>2, <2>3
<1>2. ASSUME NEW p \in Target, NEW name \in Name, name.path = p, NEW f \in Inodes(Missing(p)), Makes(f),
             files' \in {files, files \cup {name}}, nameKey(name) \in names',
             \A d \in DirPath : Needed(d, names) => Needed(d, names')
      PROVE  Neat'
  <2>1. dirs' = Made(f) /\ created' = Claimed(f) /\ mine' = mine \cup NewInodes(f) /\ files \subseteq files'
    BY <1>2 DEF Makes
  <2>2. /\ Closed(dirs', files) /\ Known(dirs', created', mine')
        /\ \A d \in Parents(p) : dirs'[d] # NoInode
        /\ \A d \in DirPath \ X : Untidy(d, dirs', files', mine', names') => d \in Parents(p)
    BY <1>x, <1>2, <2>1, MadeNeat
  <2>3. Closed(dirs', files')
    BY <1>2, <2>2 DEF Closed
  <2>4. ASSUME NEW d \in DirPath \ X PROVE ~Untidy(d, dirs', files', mine', names')
    <3>1. d \in Parents(p) => Needed(d, names')
      BY <1>2, NeededBy DEF Needed
    <3> QED  BY <2>2, <3>1 DEF Untidy
  <2> QED  BY <1>y, <2>2, <2>3, <2>4
<1>3. ASSUME NEW s \in Sid, NEW p \in Target, NEW name, Opens(s, p, name) PROVE Neat'
  <2>1. name \in Name /\ name.path = p
    BY <1>3, Names DEF Opens
  <2>2. names' = names \cup {nameKey(name)} /\ files' = files /\ \E f \in Inodes(Missing(p)) : Makes(f)
    BY <1>3 DEF Opens
  <2>3. \A d \in DirPath : Needed(d, names) => Needed(d, names')
    BY <2>2 DEF Needed
  <2> QED  BY <1>2, <2>1, <2>2, <2>3
<1>4. ASSUME NEW s \in Sid, NEW name, Links(s, name) PROVE Neat'
  <2> DEFINE p == final[s].path
  <2>1. final[s] \in Name /\ name \in Name /\ name.path = p /\ p \in Target
    BY <1>0, <1>4, Names DEF Links
  <2>2. /\ names' = (names \ {nameKey(final[s])}) \cup {nameKey(name)} /\ files' \in {files, files \cup {name}}
        /\ \E f \in Inodes(Missing(p)) : Makes(f)
    BY <1>4 DEF Links
  <2>3. nameKey(name).path = nameKey(final[s]).path
    BY <2>1, Names
  <2>4. \A d \in DirPath : Needed(d, names) => Needed(d, names')
    BY <2>2, <2>3 DEF Needed
  <2> HIDE DEF p
  <2> QED  BY <1>2, <2>1, <2>2, <2>4
<1>5. ASSUME NEW s \in Sid, Remove(s) PROVE Neat'
  <2> DEFINE left == names \ {nameKey(final[s])}
  <2>1. s \in Active /\ final[s] \in Name /\ final[s].path \in Target /\ Parents(final[s].path) \subseteq DirPath
    BY <1>0, <1>5, Names, Directories DEF Active, Remove
  <2>2. /\ CleanupParents(final[s].path, dirs, files, created, left)
        /\ names' = left /\ files' = files /\ mine' = mine
    BY <1>5 DEF Remove
  <2>3. \A e \in Parents(final[s].path) : dirs[e] # NoInode
    BY <1>0, <2>1 DEF Standing
  <2>4. ASSUME NEW d \in DirPath \ X, Untidy(d, dirs, files, mine, left) PROVE d \in Parents(final[s].path)
    <3>1. Needed(d, names) /\ ~Needed(d, left)
      BY <1>n, <2>4 DEF Untidy
    <3>2. StrictPrefix(Lower(d), nameKey(final[s]).path)
      BY <3>1 DEF Needed
    <3>3. d \in Parents(final[s].path) \/ Doubled(d)
      BY <1>0, <2>1, <3>2, NeededBy DEF Doubled, Active
    <3> QED  BY <1>x, <2>4, <3>3
  <2> HIDE DEF left
  <2>5. /\ Closed(dirs', files) /\ Known(dirs', created', mine)
        /\ \A d \in DirPath \ X : ~Untidy(d, dirs', files, mine, left)
    BY <1>0, <1>n, <2>1, <2>2, <2>3, <2>4, Swept
  <2> QED  BY <1>y, <2>2, <2>5
<1>6. ASSUME NEW n \in files, DeleteFile(n) PROVE Neat'
  <2> DEFINE F == files \ {n}
  <2>1. n \in Name /\ n.path \in Target /\ n.path \in Path
    BY <1>0, Names
  <2>2. /\ CleanupParents(n.path, dirs, F, created, names)
        /\ names' = names /\ files' = F /\ mine' = mine
    BY <1>6 DEF DeleteFile
  <2>3. Closed(dirs, F) /\ \A e \in Parents(n.path) : dirs[e] # NoInode
    BY <1>n DEF Closed
  <2>4. ASSUME NEW d \in DirPath \ X, Untidy(d, dirs, F, mine, names) PROVE d \in Parents(n.path)
    <3>1. Content(d, dirs, files, {}) # {} /\ Content(d, dirs, F, {}) = {}
      BY <1>n, <2>4 DEF Untidy
    <3>2. StrictPrefix(d, n.path)
      BY <3>1 DEF Content
    <3> QED  BY <2>1, <3>2, Directories, ParentIsPrefix
  <2>5. F \in SUBSET Name
    BY <1>0
  <2> HIDE DEF F
  <2>6. /\ Closed(dirs', F) /\ Known(dirs', created', mine)
        /\ \A d \in DirPath \ X : ~Untidy(d, dirs', F, mine, names)
    BY <1>0, <1>n, <2>1, <2>2, <2>3, <2>4, <2>5, Swept
  <2> QED  BY <1>y, <2>2, <2>6
<1>7. ASSUME NEW s \in Sid PROVE ~Stops(s)
  BY DEF Stops, Unhindered
<1>8. ~Aside
  BY DEF Aside, OutsideMkdir, OutsideRemove, OutsideFile, Outside, Unhindered
<1>9. CASE Restart
  <2>1. dirs' = dirs /\ files' = files /\ mine' = {}
    BY <1>9 DEF Restart
  <2> QED  BY <1>y, <1>n, <2>1 DEF Known, Untidy
<1>10. CASE UNCHANGED vars
  BY <1>y, <1>n, <1>10 DEF vars
<1> QED
  BY <1>1, <1>3, <1>4, <1>5, <1>6, <1>7, <1>8, <1>9, <1>10, Steps

\* No empty directory that this process created outlives the uploads and the
\* files it was created for, but one whose name differs by its case alone from
\* that of a directory another upload was opened into.
THEOREM EmptyParentsAlwaysRemoved == Spec => []EmptyParentsRemoved
<1>1. Init => Neat
  BY PathIds DEF Init, Neat, Closed, Known, Untidy
<1>2. Rooted /\ (Unhindered => Neat) /\ [Next]_vars => (Unhindered => Neat)'
  <2> SUFFICES ASSUME Rooted, Unhindered => Neat, [Next]_vars, Unhindered' PROVE Neat'
    OBVIOUS
  <2>1. Unhindered
    BY MishapsGrow DEF Unhindered
  <2> QED  BY <2>1, NeatStep
<1>3. Rooted /\ (Unhindered => Neat) => EmptyParentsRemoved
  <2> SUFFICES ASSUME Rooted, Unhindered => Neat, NEW d \in EmptyLeft({"mkdir", "outside"}) PROVE Doubled(d)
    BY DEF EmptyParentsRemoved
  <2>1. /\ d \in DirPath /\ Unhindered /\ dirs[d] \in mine /\ Content(d, dirs, files, {}) = {}
        /\ ~\E s \in Active : StrictPrefix(d, final[s].path)
    BY DEF EmptyLeft, Unhindered
  <2>2. Doubled(d) \/ Needed(d, names)
    BY <2>1 DEF Neat, Untidy
  <2> SUFFICES ASSUME Needed(d, names) PROVE Doubled(d)
    BY <2>2
  <2>3. PICK s \in Active : StrictPrefix(Lower(d), nameKey(final[s]).path)
    BY DEF Needed, Rooted, Reserved
  <2>4. final[s] \in Name /\ final[s].path \in Path
    BY Names DEF Rooted, TypeOK, Active
  <2>5. CASE d \in Parents(final[s].path)
    BY <2>1, <2>4, <2>5, ParentIsPrefix
  <2>6. CASE \E e \in Parents(final[s].path) : e # d /\ Lower(e) = Lower(d)
    BY <2>6 DEF Doubled, Active
  <2> QED  BY <2>1, <2>3, <2>4, <2>5, <2>6, NeededBy
<1> QED  BY <1>1, <1>2, <1>3, RootedInit, RootedStep, PTL DEF Spec
================================================================================
