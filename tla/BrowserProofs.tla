----------------------------- MODULE BrowserProofs -----------------------------
(***************************************************************************)
(* Proofs about the files page's directories and pages, for any files, any *)
(* number of entries on a page and any number of pages offered: whatever   *)
(* comes and goes, the directory shown is the nearest that survives, links *)
(* lead to every file, and every entry is on exactly one of the pages.     *)
(***************************************************************************)
EXTENDS FileBrowser, SequenceTheorems, FiniteSetTheorems, WellFoundedInduction, TLAPS

-----------------------------------------------------------------------------
(* Numbers.                                                                *)

\* The greater and the smaller of two.
LEMMA OfTwo ==
  ASSUME NEW a \in Int, NEW b \in Int
  PROVE  /\ Max({a, b}) = IF a >= b THEN a ELSE b
         /\ Min({a, b}) = IF a <= b THEN a ELSE b
<1>1. ASSUME NEW m \in {a, b}, \A y \in {a, b} : m >= y PROVE Max({a, b}) = IF a >= b THEN a ELSE b
  <2>1. /\ Max({a, b}) \in {a, b} /\ \A y \in {a, b} : Max({a, b}) >= y
    BY <1>1 DEF Max
  <2> QED
    BY <2>1
<1>2. ASSUME NEW m \in {a, b}, \A y \in {a, b} : m =< y PROVE Min({a, b}) = IF a <= b THEN a ELSE b
  <2>1. /\ Min({a, b}) \in {a, b} /\ \A y \in {a, b} : Min({a, b}) =< y
    BY <1>2 DEF Min
  <2> QED
    BY <2>1
<1> QED
  BY <1>1, <1>2

\* More pages hold at least as much.
LEMMA Monotone ==
  ASSUME NEW a \in Int, NEW b \in Int, NEW p \in Nat, a <= b
  PROVE  a * p <= b * p
<1>1. (b - a) * p >= 0 /\ b * p = a * p + (b - a) * p
  OBVIOUS
<1> QED
  BY <1>1

\* Division rounds down.
LEMMA Division ==
  ASSUME NEW m \in Nat, NEW p \in Nat \ {0}
  PROVE  /\ m \div p \in Nat
         /\ (m \div p) * p <= m /\ m < (m \div p) * p + p
  OBVIOUS

\* As many pages as it takes, and no more.
LEMMA Ceiling ==
  ASSUME NEW n \in Nat, NEW p \in Nat \ {0}
  PROVE  LET t == (n + p - 1) \div p IN
         /\ t \in Nat /\ n <= t * p /\ t <= n
         /\ n > 0 => t > 0 /\ (t - 1) * p < n
<1> DEFINE t == (n + p - 1) \div p
<1>1. t \in Nat /\ t * p <= n + p - 1 /\ n + p - 1 < t * p + p
  BY Division
<1> HIDE DEF t
<1>2. n <= t * p /\ (t - 1) * p = t * p - p
  BY <1>1
<1>3. t <= n
  <2>1. ASSUME t > n PROVE FALSE
    <3>1. (n + 1) * p <= t * p /\ (n + 1) * p = n * p + p
      BY <1>1, <2>1, Monotone
    <3>2. n * 1 <= n * p
      BY <1>1
    <3> QED
      BY <1>1, <3>1, <3>2
  <2> QED
    BY <1>1, <2>1
<1>4. n > 0 => t > 0
  BY <1>1
<1> QED
  BY <1>1, <1>2, <1>3, <1>4 DEF t
-----------------------------------------------------------------------------
(* Sequences.                                                              *)

\* An order of a finite set has each of its elements in one place.
LEMMA Ordered ==
  ASSUME NEW S, IsFiniteSet(S)
  PROVE  LET all == SetToSeq(S) IN
         /\ all \in Seq(S) /\ Len(all) = Cardinality(S) /\ Cardinality(S) \in Nat
         /\ \A x \in S : \E i \in 1 .. Len(all) : all[i] = x
         /\ \A i, j \in 1 .. Len(all) : all[i] = all[j] => i = j
<1> DEFINE n == Cardinality(S)
           all == SetToSeq(S)
<1>1. n \in Nat /\ Bijection(1 .. n, S) # {}
  BY FS_CardinalityType DEF ExistsBijection
<1>2. PICK b \in [1 .. n -> S] : IsInjective(b)
  BY <1>1 DEF Bijection, Injection
<1>3. all \in [1 .. n -> S] /\ IsInjective(all)
  BY <1>2 DEF SetToSeq
<1> HIDE DEF n, all
<1>4. all \in Injection(1 .. n, S)
  BY <1>3 DEF Injection
<1>5. IsFiniteSet(1 .. n) /\ Cardinality(1 .. n) = n
  BY <1>1, FS_Interval
<1>6. all \in Surjection(1 .. n, S)
  BY <1>4, <1>5, FS_Injection DEF n
<1>7. all \in Seq(S) /\ Len(all) = n
  BY <1>1, <1>3
<1>8. \A x \in S : \E i \in 1 .. n : all[i] = x
  BY <1>6 DEF Surjection
<1>9. \A i, j \in 1 .. n : all[i] = all[j] => i = j
  BY <1>3 DEF IsInjective
<1> QED
  BY <1>1, <1>7, <1>8, <1>9 DEF n, all

\* The first so many components of a path.
LEMMA First ==
  ASSUME NEW S, NEW s \in Seq(S), NEW n \in 0 .. Len(s)
  PROVE  /\ SubSeq(s, 1, n) \in Seq(S) /\ Len(SubSeq(s, 1, n)) = n
         /\ \A i \in 1 .. n : SubSeq(s, 1, n)[i] = s[i]
<1>1. \A i \in 1 .. n : s[i] \in S
  OBVIOUS
<1> QED
  BY <1>1, SubSeqProperties

\* The first of the first.
LEMMA FirstOfFirst ==
  ASSUME NEW S, NEW s \in Seq(S), NEW n \in 0 .. Len(s), NEW m \in 0 .. n
  PROVE  SubSeq(SubSeq(s, 1, n), 1, m) = SubSeq(s, 1, m)
<1> DEFINE t == SubSeq(s, 1, n)
<1>1. Len(s) \in Nat /\ m \in 0 .. Len(s)
  OBVIOUS
<1>2. t \in Seq(S) /\ Len(t) = n /\ \A i \in 1 .. n : t[i] = s[i]
  BY First
<1> HIDE DEF t
<1>3. SubSeq(t, 1, m) \in Seq(S) /\ Len(SubSeq(t, 1, m)) = m /\ \A i \in 1 .. m : SubSeq(t, 1, m)[i] = t[i]
  BY <1>2, First
<1>4. SubSeq(s, 1, m) \in Seq(S) /\ Len(SubSeq(s, 1, m)) = m /\ \A i \in 1 .. m : SubSeq(s, 1, m)[i] = s[i]
  BY <1>1, First
<1>5. \A i \in 1 .. m : SubSeq(t, 1, m)[i] = SubSeq(s, 1, m)[i]
  BY <1>1, <1>2, <1>3, <1>4
<1> QED
  BY <1>3, <1>4, <1>5, SeqEqual DEF t

\* The prefixes of a path are those its prefix test accepts.
LEMMA PrefixesAre ==
  ASSUME NEW S, NEW s \in Seq(S), NEW d \in Seq(S)
  PROVE  d \in Prefixes(s) <=> IsPrefix(d, s)
<1>1. SubSeq(d, 1, Len(d)) = d /\ Len(d) \in Nat /\ Len(s) \in Nat
  BY SubSeqFull
<1>2. ASSUME NEW l \in 0 .. Len(s), d = SubSeq(s, 1, l) PROVE IsPrefix(d, s)
  <2>1. Len(d) = l
    BY <1>2, First
  <2> QED
    BY <1>1, <1>2, <2>1 DEF IsPrefix
<1>3. ASSUME IsPrefix(d, s) PROVE d \in Prefixes(s)
  <2>1. Len(d) \in 0 .. Len(s) /\ d = SubSeq(s, 1, Len(d))
    BY <1>1, <1>3 DEF IsPrefix
  <2>2. \E l \in 0 .. Len(s) : d = SubSeq(s, 1, l)
    BY <2>1
  <2> QED
    BY <2>2 DEF Prefixes
<1> QED
  BY <1>2, <1>3 DEF Prefixes
-----------------------------------------------------------------------------
(* What is finite, and where the folders are.                              *)

\* A path is made of keywords, and so is what it starts with.
LEMMA Components ==
  ASSUME Usable, NEW p \in Path
  PROVE  /\ p \in Seq(Keyword) /\ Len(p) \in Nat \ {0}
         /\ Prefixes(p) \subseteq Seq(Keyword) /\ Parents(p) \subseteq Seq(Keyword)
<1>1. p \in Seq(Keyword) /\ Len(p) \in Nat \ {0}
  BY EmptySeq DEF Usable
<1>2. \A n \in 0 .. Len(p) : SubSeq(p, 1, n) \in Seq(Keyword)
  BY <1>1, First
<1>3. Prefixes(p) \subseteq Seq(Keyword)
  BY <1>2 DEF Prefixes
<1> QED
  BY <1>1, <1>3 DEF Parents

\* A path has finitely many folders, and all the paths together.
LEMMA FewDirectories ==
  ASSUME Usable
  PROVE  IsFiniteSet(Directories) /\ Directories \subseteq Seq(Keyword)
<1>1. ASSUME NEW p \in Path PROVE IsFiniteSet(Parents(p))
  <2> DEFINE at == [l \in 0 .. Len(p) |-> SubSeq(p, 1, l)]
  <2>1. at \in Surjection(0 .. Len(p), Prefixes(p))
    BY DEF Surjection, Prefixes
  <2>2. IsFiniteSet(0 .. Len(p))
    BY Components, FS_Interval
  <2>3. IsFiniteSet(Prefixes(p))
    <3> HIDE DEF at
    <3> QED
      BY <2>1, <2>2, FS_Surjection
  <2> QED
    BY <2>3, FS_Subset DEF Parents
<1> DEFINE All == {Parents(p) : p \in Path}
           of == [p \in Path |-> Parents(p)]
<1>2. of \in Surjection(Path, All)
  BY DEF Surjection
<1>3. IsFiniteSet(All)
  <2> HIDE DEF of, All
  <2> QED
    BY <1>2, FS_Surjection DEF Usable
<1>4. IsFiniteSet(UNION All)
  <2>1. \A ps \in All : IsFiniteSet(ps)
    BY <1>1
  <2> HIDE DEF All
  <2> QED
    BY <1>3, <2>1, FS_UNION
<1>5. Directories \subseteq Seq(Keyword)
  BY Components, EmptySeq DEF Directories
<1>6. IsFiniteSet({<<>>}) /\ Directories = {<<>>} \cup UNION All
  BY FS_Singleton DEF Directories
<1> HIDE DEF All
<1> QED
  BY <1>4, <1>5, <1>6, FS_Union

\* The folders are among the directories, and are what some file lies below.
LEMMA FoldersAre ==
  ASSUME Usable, files \subseteq Path
  PROVE  /\ Folders \subseteq Directories
         /\ \A d \in Seq(Keyword) : d \in Folders <=> d # <<>> /\ \E f \in files : IsStrictPrefix(d, f)
<1>1. Folders \subseteq Directories
  BY DEF Folders, Directories
<1>2. ASSUME NEW d \in Seq(Keyword)
      PROVE  d \in Folders <=> d # <<>> /\ \E f \in files : IsStrictPrefix(d, f)
  <2>1. \A f \in files : d \in Prefixes(f) <=> IsPrefix(d, f)
    BY Components, PrefixesAre
  <2> QED
    BY <2>1 DEF Folders, Parents, IsStrictPrefix
<1> QED
  BY <1>1, <1>2

\* What is shown is finite, and bounded by what there is.
LEMMA FewShown ==
  ASSUME Usable, files \subseteq Path
  PROVE  /\ IsFiniteSet(Filtered) /\ Filtered \subseteq files \cup Folders
         /\ Cardinality(Filtered) \in Nat
         /\ Cardinality(Path) \in Nat /\ Cardinality(Directories) \in Nat \ {0}
         /\ Cardinality(Filtered) <= Cardinality(Path) + Cardinality(Directories)
<1>1. Filtered \subseteq files \cup Folders /\ Filtered \subseteq Path \cup Directories
  BY FoldersAre DEF Filtered, Inside
<1>2. IsFiniteSet(Path) /\ IsFiniteSet(Directories)
  BY FewDirectories DEF Usable
<1>3. /\ IsFiniteSet(Path \cup Directories)
      /\ Cardinality(Path \cup Directories) =
           Cardinality(Path) + Cardinality(Directories) - Cardinality(Path \cap Directories)
  BY <1>2, FS_Union
<1>4. Cardinality(Path) \in Nat /\ Cardinality(Directories) \in Nat
         /\ Cardinality(Path \cap Directories) \in Nat
  BY <1>2, FS_CardinalityType, FS_Intersection
<1>5. Cardinality(Directories) # 0
  BY <1>2, FS_EmptySet DEF Directories
<1>6. /\ IsFiniteSet(Filtered) /\ Cardinality(Filtered) \in Nat
      /\ Cardinality(Filtered) <= Cardinality(Path \cup Directories)
  BY <1>1, <1>3, FS_Subset, FS_CardinalityType
<1> QED
  BY <1>1, <1>3, <1>4, <1>5, <1>6
-----------------------------------------------------------------------------
(* The pages.                                                              *)

\* What a page needs of the state.
Shown == Usable /\ files \subseteq Path /\ page \in Nat \ {0}

\* There are as many pages as the entries need, one of them shown, and the pages offered exist.
LEMMA PagesFit ==
  ASSUME Shown
  PROVE  LET N == Cardinality(Filtered) IN
         /\ TotalPages \in Nat \ {0} /\ N <= TotalPages * PageSize
         /\ TotalPages = 1 \/ TotalPages <= N
         /\ N > 0 => (TotalPages - 1) * PageSize < N
         /\ CurrentPage \in 1 .. TotalPages
<1> DEFINE N == Cardinality(Filtered)
           t == (N + PageSize - 1) \div PageSize
<1>1. N \in Nat /\ PageSize \in Nat \ {0} /\ page \in Nat \ {0}
  BY FewShown DEF Shown, Usable
<1>2. t \in Nat /\ N <= t * PageSize /\ t <= N /\ (N > 0 => t > 0 /\ (t - 1) * PageSize < N)
  <2> HIDE DEF N
  <2> QED
    BY <1>1, Ceiling
<1>3. TotalPages = IF 1 >= t THEN 1 ELSE t
  <2>1. TotalPages = Max({1, t})
    BY DEF TotalPages
  <2> HIDE DEF t
  <2> QED
    BY <1>2, <2>1, OfTwo
<1> HIDE DEF N, t
<1>4. TotalPages \in Nat \ {0} /\ N <= TotalPages * PageSize
  <2>1. CASE t = 0
    BY <1>1, <1>2, <1>3, <2>1
  <2>2. CASE t # 0
    BY <1>1, <1>2, <1>3, <2>2
  <2> QED
    BY <2>1, <2>2
<1>5. TotalPages = 1 \/ TotalPages <= N
  BY <1>1, <1>2, <1>3
<1>6. N > 0 => (TotalPages - 1) * PageSize < N
  BY <1>1, <1>2, <1>3
<1>7. CurrentPage = IF page <= TotalPages THEN page ELSE TotalPages
  <2>1. page \in Int /\ TotalPages \in Int
    BY <1>1, <1>4
  <2> QED
    BY <2>1, OfTwo DEF CurrentPage
<1> QED
  BY <1>1, <1>4, <1>5, <1>6, <1>7 DEF N

\* The entries of a page, by their places.
LEMMA PageHolds ==
  ASSUME Shown, NEW n \in Nat \ {0}, NEW x
  PROVE  x \in PageFiles(n) <=>
           \E i \in 1 .. Cardinality(Filtered) :
              (n - 1) * PageSize < i /\ i <= n * PageSize /\ SetToSeq(Filtered)[i] = x
<1> DEFINE all == SetToSeq(Filtered)
           from == (n - 1) * PageSize + 1
           to == Min({n * PageSize, Len(all)})
           part == SubSeq(all, from, to)
<1>1. all \in Seq(Filtered) /\ Len(all) = Cardinality(Filtered) /\ Cardinality(Filtered) \in Nat
  BY FewShown, Ordered DEF Shown
<1>2. PageSize \in Nat \ {0} /\ n * PageSize \in Nat /\ (n - 1) * PageSize \in Nat
  BY DEF Shown, Usable
<1>3. PageFiles(n) = ToSet(part)
  BY DEF PageFiles
<1>4. from \in Nat \ {0} /\ to \in Nat /\ to = IF n * PageSize <= Len(all) THEN n * PageSize ELSE Len(all)
  <2> DEFINE m == n * PageSize
             l == Len(all)
  <2>1. m \in Nat /\ l \in Nat
    BY <1>1, <1>2
  <2>2. Min({m, l}) = IF m <= l THEN m ELSE l
    <3> HIDE DEF m, l
    <3> QED
      BY <2>1, OfTwo
  <2> HIDE DEF all
  <2> QED
    BY <1>2, <2>1, <2>2
<1> HIDE DEF all, to
<1>5. \A i \in from .. to : all[i] \in Filtered
  BY <1>1, <1>2, <1>4
<1>6. /\ part \in Seq(Filtered) /\ Len(part) = IF from <= to THEN to - from + 1 ELSE 0
      /\ \A j \in 1 .. to - from + 1 : part[j] = all[from + j - 1]
  <2> HIDE DEF from
  <2> QED
    BY <1>4, <1>5, SubSeqProperties
<1>7. x \in ToSet(part) <=> \E i \in from .. to : all[i] = x
  <2> HIDE DEF from, part
  <2>1. DOMAIN part = 1 .. Len(part)
    BY <1>6
  <2>2. ASSUME NEW j \in 1 .. Len(part), part[j] = x PROVE \E i \in from .. to : all[i] = x
    <3>1. j \in 1 .. to - from + 1 /\ from + j - 1 \in from .. to
      BY <1>4, <1>6, <2>2
    <3> QED
      BY <1>6, <2>2, <3>1
  <2>3. ASSUME NEW i \in from .. to, all[i] = x PROVE \E j \in 1 .. Len(part) : part[j] = x
    <3>1. i - from + 1 \in 1 .. to - from + 1 /\ i - from + 1 \in 1 .. Len(part)
             /\ from + (i - from + 1) - 1 = i
      <4>1. i \in Nat /\ from <= i /\ i <= to
        BY <1>4, <2>3
      <4>2. Len(part) = to - from + 1
        BY <1>4, <1>6, <4>1
      <4> QED
        BY <1>4, <4>1, <4>2
    <3>2. part[i - from + 1] = all[i]
      BY <1>6, <3>1
    <3> QED
      BY <2>3, <3>1, <3>2
  <2> QED
    BY <2>1, <2>2, <2>3 DEF ToSet
<1>8. \A i : i \in from .. to <=>
         i \in 1 .. Cardinality(Filtered) /\ (n - 1) * PageSize < i /\ i <= n * PageSize
  BY <1>1, <1>2, <1>4
<1> HIDE DEF part, from
<1> QED
  BY <1>3, <1>7, <1>8 DEF all

\* A list that shrank leaves the user on a page that has entries, if there are any, and that is
\* among the pages offered.
LEMMA ShownIsThere == ASSUME Shown PROVE PageShown
<1> DEFINE N == Cardinality(Filtered)
           T == TotalPages
           C == CurrentPage
           half == Window \div 2
<1>1. /\ N \in Nat /\ T \in Nat \ {0} /\ C \in 1 .. T /\ PageSize \in Nat \ {0}
      /\ N > 0 => (T - 1) * PageSize < N
      /\ IsFiniteSet(Filtered)
  BY FewShown, PagesFit DEF Shown, Usable
<1>2. ASSUME Filtered # {} PROVE PageFiles(C) # {}
  <2>1. N > 0
    BY <1>1, <1>2, FS_EmptySet
  <2> DEFINE i == (C - 1) * PageSize + 1
  <2>2. (C - 1) * PageSize <= (T - 1) * PageSize
    <3> HIDE DEF C, T
    <3> QED
      BY <1>1, Monotone
  <2>3. (C - 1) * PageSize \in Nat /\ C * PageSize = (C - 1) * PageSize + PageSize
    <3> HIDE DEF C
    <3> QED
      BY <1>1
  <2>4. (T - 1) * PageSize \in Nat
    <3> HIDE DEF T
    <3> QED
      BY <1>1
  <2>5. i \in 1 .. N /\ (C - 1) * PageSize < i /\ i <= C * PageSize
    <3> HIDE DEF C, T, N
    <3> QED
      BY <1>1, <2>1, <2>2, <2>3, <2>4
  <2> HIDE DEF i
  <2>6. SetToSeq(Filtered)[i] \in PageFiles(C)
    BY <1>1, <2>5, PageHolds
  <2> QED
    BY <2>6
<1>3. half \in Nat /\ half < Window /\ Window \in Nat \ {0}
  BY DEF Shown, Usable
<1> DEFINE last == IF C - half <= T - Window + 1 THEN C - half ELSE T - Window + 1
           first == IF 1 >= last THEN 1 ELSE last
           count == IF Window <= T THEN Window ELSE T
<1>4. FirstPage = first /\ Pages = first .. first + count - 1
  <2> HIDE DEF half, C, T
  <2>1. Min({C - half, T - Window + 1}) = last /\ Min({Window, T}) = count
    <3>1. C - half \in Int /\ T - Window + 1 \in Int /\ Window \in Int /\ T \in Int
      BY <1>1, <1>3
    <3> QED
      BY <3>1, OfTwo
  <2>2. Max({1, last}) = first
    BY <1>1, <1>3, OfTwo
  <2> QED
    BY <2>1, <2>2 DEF FirstPage, Pages, half, C, T
<1>5. C \in first .. first + count - 1 /\ first \in Nat /\ count \in Nat /\ first >= 1 /\ first + count - 1 <= T
  <2> HIDE DEF half, C, T
  <2> QED
    BY <1>1, <1>3
<1> HIDE DEF first, count
<1> QED
  BY <1>1, <1>2, <1>4, <1>5 DEF PageShown

\* Every entry is on exactly one page.
LEMMA EachOnOnePage == ASSUME Shown PROVE PagesWhole
<1> DEFINE N == Cardinality(Filtered)
           all == SetToSeq(Filtered)
           T == TotalPages
<1>1. /\ N \in Nat /\ T \in Nat \ {0} /\ N <= T * PageSize /\ PageSize \in Nat \ {0}
      /\ all \in Seq(Filtered) /\ Len(all) = N
      /\ \A x \in Filtered : \E i \in 1 .. N : all[i] = x
      /\ \A i, j \in 1 .. N : all[i] = all[j] => i = j
  BY FewShown, PagesFit, Ordered DEF Shown, Usable
<1>2. \A x : \A n \in 1 .. T : x \in PageFiles(n) <=>
         \E i \in 1 .. N : (n - 1) * PageSize < i /\ i <= n * PageSize /\ all[i] = x
  <2>1. \A n \in 1 .. T : n \in Nat \ {0}
    BY <1>1
  <2> QED
    BY <2>1, PageHolds
<1> HIDE DEF N, all, T
<1>3. ASSUME NEW x \in Filtered PROVE \E n \in 1 .. T : x \in PageFiles(n)
  <2>1. PICK i \in 1 .. N : all[i] = x
    BY <1>1
  <2> DEFINE n == (i + PageSize - 1) \div PageSize
  <2>2. n \in Nat \ {0} /\ i <= n * PageSize /\ (n - 1) * PageSize < i
    BY <1>1, Ceiling
  <2> HIDE DEF n
  <2>3. n <= T
    <3>1. ASSUME T < n PROVE FALSE
      <4>1. T * PageSize <= (n - 1) * PageSize
        BY <1>1, <2>2, <3>1, Monotone
      <4>2. T * PageSize \in Nat /\ (n - 1) * PageSize \in Nat
        BY <1>1, <2>2
      <4> QED
        BY <1>1, <2>2, <4>1, <4>2
    <3> QED
      BY <1>1, <2>2, <3>1
  <2>4. n \in 1 .. T
    BY <1>1, <2>2, <2>3
  <2> QED
    BY <1>2, <2>1, <2>2, <2>4
<1>4. \A n \in 1 .. T : PageFiles(n) \subseteq Filtered
  BY <1>1, <1>2
<1>5. ASSUME NEW n \in 1 .. T, NEW k \in 1 .. T, n < k
      PROVE  PageFiles(n) \cap PageFiles(k) = {}
  <2> SUFFICES ASSUME NEW x, x \in PageFiles(n), x \in PageFiles(k) PROVE FALSE
    OBVIOUS
  <2>1. PICK i \in 1 .. N : i <= n * PageSize /\ all[i] = x
    BY <1>2
  <2>2. PICK j \in 1 .. N : (k - 1) * PageSize < j /\ all[j] = x
    BY <1>2
  <2>3. i = j
    BY <1>1, <2>1, <2>2
  <2>4. n * PageSize <= (k - 1) * PageSize /\ n * PageSize \in Nat /\ (k - 1) * PageSize \in Nat
    BY <1>1, <1>5, Monotone
  <2> QED
    BY <2>1, <2>2, <2>3, <2>4
<1>6. \A n, k \in 1 .. T : n # k => PageFiles(n) \cap PageFiles(k) = {}
  <2>1. \A n, k \in 1 .. T : n # k => n < k \/ k < n
    BY <1>1
  <2> QED
    BY <1>5, <2>1
<1>7. UNION {PageFiles(n) : n \in 1 .. T} = Filtered
  BY <1>3, <1>4
<1> QED
  BY <1>6, <1>7 DEF PagesWhole, T
-----------------------------------------------------------------------------
(* The directories.                                                        *)

\* Each component of a file's path is a link in the directory before it.
LEMMA LinksLead == ASSUME Usable, files \subseteq Path PROVE EveryFileReachable
<1> SUFFICES ASSUME NEW f \in files, NEW n \in 1 .. Len(f)
             PROVE  SubSeq(f, 1, n) \in Inside(SubSeq(f, 1, n - 1))
  BY DEF EveryFileReachable
<1> DEFINE p == SubSeq(f, 1, n)
           d == SubSeq(f, 1, n - 1)
<1>1. f \in Seq(Keyword) /\ Len(f) \in Nat \ {0}
  BY Components
<1>2. n \in 0 .. Len(f) /\ n - 1 \in 0 .. Len(f) /\ n - 1 \in 0 .. n
  BY <1>1
<1>3. p \in Seq(Keyword) /\ Len(p) = n
  BY <1>1, <1>2, First
<1>4. d \in Seq(Keyword) /\ Len(d) = n - 1
  BY <1>1, <1>2, First
<1>5. IsPrefix(d, p)
  <2>1. SubSeq(p, 1, n - 1) = d
    BY <1>1, <1>2, FirstOfFirst
  <2>2. SubSeq(d, 1, n - 1) = d
    BY <1>4, SubSeqFull
  <2> HIDE DEF p, d
  <2> QED
    BY <1>2, <1>3, <1>4, <2>1, <2>2 DEF IsPrefix
<1>6. p \in files \cup Folders
  <2>1. CASE p = f
    BY <2>1
  <2>2. CASE p # f
    <3>1. p \in Prefixes(f)
      BY <1>2 DEF Prefixes
    <3>2. p # <<>>
      BY <1>3
    <3> QED
      BY <2>2, <3>1, <3>2 DEF Folders, Parents
  <2> QED
    BY <2>1, <2>2
<1> HIDE DEF p, d
<1>7. p \in Inside(d)
  BY <1>2, <1>3, <1>4, <1>5, <1>6 DEF Inside
<1> QED
  BY <1>7 DEF p, d

\* Induction up to m: what holds of 0 and of each successor below m holds up to m.
LEMMA UpTo ==
  ASSUME NEW m \in Nat, NEW T, 0 \in T, \A n \in T \cap Nat : n < m => n + 1 \in T
  PROVE  0 .. m \subseteq T
<1> DEFINE R == OpToRel(<, Nat)
           F == (0 .. m) \ T
<1>1. SUFFICES ASSUME F # {} PROVE FALSE
  OBVIOUS
<1>2. F \subseteq Nat /\ IsWellFoundedOn(R, Nat)
  <2>1. F \subseteq Nat
    OBVIOUS
  <2> QED
    BY <2>1, NatLessThanWellFounded
<1>3. PICK x \in F : \A y \in F : <<y, x>> \notin R
  <2> HIDE DEF R, F
  <2> QED
    BY <1>1, <1>2, WFMin
<1>4. \A y \in F : ~(y < x)
  BY <1>2, <1>3 DEF OpToRel
<1>5. x # 0 /\ x - 1 \in 0 .. m /\ x - 1 \notin F
  BY <1>4
<1> QED
  BY <1>5

\* The directory shown is what the one asked for starts with, up to the last folder on the way.
LEMMA LastFolder ==
  ASSUME Usable, dir \in Seq(Keyword)
  PROVE  \E k \in 0 .. Len(dir) :
           /\ Directory = SubSeq(dir, 1, k)
           /\ k = 0 \/ SubSeq(dir, 1, k) \in Folders
           /\ \A j \in k + 1 .. Len(dir) : SubSeq(dir, 1, j) \notin Folders
<1> DEFINE m == Len(dir)
           Upto(n) == SubSeq(dir, 1, n)
           Holds(n) == SubSeq(dir, 1, n) \in Folders
           Latest(n, k) == k \in 0 .. n /\ (k = 0 \/ Holds(k)) /\ \A j \in k + 1 .. n : ~Holds(j)
           Def(g) == [n \in 0 .. Len(dir) |->
                        IF n = 0 \/ SubSeq(dir, 1, n) \in Folders THEN SubSeq(dir, 1, n) ELSE g[n - 1]]
           f == CHOOSE g : g = Def(g)
<1>1. m \in Nat
  OBVIOUS
<1>2. Latest(0, 0)
  OBVIOUS
<1>3. ASSUME NEW n \in Nat PROVE Holds(n + 1) => Latest(n + 1, n + 1)
  OBVIOUS
<1>4. ASSUME NEW n \in Nat, NEW k, Latest(n, k) PROVE ~Holds(n + 1) => Latest(n + 1, k)
  <2> HIDE DEF Holds
  <2>1. \A j \in k + 1 .. n + 1 : j \in k + 1 .. n \/ j = n + 1
    BY <1>4
  <2> QED
    BY <1>4, <2>1
<1>5. ASSUME NEW n \in Nat, NEW k, NEW l, Latest(n, k), Latest(n, l) PROVE k = l
  <2> HIDE DEF Holds
  <2>1. k \in 0 .. n /\ l \in 0 .. n
    BY <1>5
  <2>2. CASE k < l
    <3>1. l \in k + 1 .. n /\ l # 0
      BY <2>1, <2>2
    <3> QED
      BY <1>5, <3>1
  <2>3. CASE l < k
    <3>1. k \in l + 1 .. n /\ k # 0
      BY <2>1, <2>3
    <3> QED
      BY <1>5, <3>1
  <2> QED
    BY <2>1, <2>2, <2>3
<1> HIDE DEF Latest
<1>6. \A n \in 0 .. m : \E k : Latest(n, k)
  <2> DEFINE T == {n \in 0 .. m : \E k : Latest(n, k)}
  <2>1. 0 \in T
    BY <1>1, <1>2
  <2>2. \A n \in T \cap Nat : n < m => n + 1 \in T
    <3> SUFFICES ASSUME NEW n \in T \cap Nat, n < m PROVE n + 1 \in T
      OBVIOUS
    <3>1. n \in Nat /\ n + 1 \in 0 .. m /\ \E k : Latest(n, k)
      BY <1>1
    <3>2. \E k : Latest(n + 1, k)
      <4> HIDE DEF Holds, T
      <4> QED
        BY <1>3, <1>4, <3>1
    <3> QED
      BY <3>1, <3>2
  <2>3. 0 .. m \subseteq T
    <3> HIDE DEF T
    <3> QED
      BY <1>1, <2>1, <2>2, UpTo
  <2> QED
    BY <2>3
<1> DEFINE of(n) == Upto(CHOOSE k : Latest(n, k))
           w == [n \in 0 .. Len(dir) |-> of(n)]
<1>7. \A n \in 0 .. m : \E k : Latest(n, k) /\ w[n] = Upto(k)
  BY <1>6
<1>8. w = Def(w)
  <2>1. ASSUME NEW n \in 0 .. m
        PROVE  w[n] = IF n = 0 \/ Holds(n) THEN Upto(n) ELSE w[n - 1]
    <3>1. PICK k : Latest(n, k) /\ w[n] = Upto(k)
      BY <1>7
    <3>2. n \in Nat /\ k \in 0 .. n
      BY <1>1, <3>1 DEF Latest
    <3>3. CASE n = 0
      BY <3>1, <3>2, <3>3
    <3>4. CASE n # 0 /\ Holds(n)
      <4>1. n - 1 \in Nat /\ (n - 1) + 1 = n
        BY <3>2, <3>4
      <4>2. Latest(n, n)
        <5> HIDE DEF Holds
        <5> QED
          BY <1>3, <3>4, <4>1
      <4>3. k = n
        BY <1>5, <3>1, <3>2, <4>2
      <4> QED
        BY <3>1, <3>4, <4>3
    <3>5. CASE n # 0 /\ ~Holds(n)
      <4>1. n - 1 \in Nat /\ (n - 1) + 1 = n /\ n - 1 \in 0 .. m
        BY <1>1, <3>2, <3>5
      <4>2. PICK l : Latest(n - 1, l) /\ w[n - 1] = Upto(l)
        BY <1>7, <4>1
      <4>3. Latest(n, l)
        <5> HIDE DEF Holds
        <5> QED
          BY <1>4, <3>5, <4>1, <4>2
      <4>4. k = l
        BY <1>5, <3>1, <3>2, <4>3
      <4> QED
        BY <3>1, <3>5, <4>2, <4>4
    <3> QED
      BY <3>3, <3>4, <3>5
  <2> HIDE DEF Latest
  <2>2. w = [n \in 0 .. Len(dir) |-> w[n]]
    <3> HIDE DEF of
    <3> QED
      OBVIOUS
  <2> HIDE DEF w
  <2> QED
    BY <2>1, <2>2
<1>9. f = Def(f)
  <2> HIDE DEF w
  <2> QED
    BY <1>8
<1> HIDE DEF f, w
<1>10. \A n \in 0 .. m : f[n] = IF n = 0 \/ Holds(n) THEN Upto(n) ELSE f[n - 1]
  BY <1>9
<1>11. Directory = f[m]
  BY DEF Directory, f
<1> DEFINE U == {n \in 0 .. m : \E k : Latest(n, k) /\ f[n] = Upto(k)}
<1>12. 0 \in U
  <2>1. 0 \in 0 .. m /\ f[0] = Upto(0)
    <3> HIDE DEF Upto, Holds
    <3> QED
      BY <1>1, <1>10
  <2> HIDE DEF Upto
  <2> QED
    BY <1>2, <2>1
<1>13. \A n \in U \cap Nat : n < m => n + 1 \in U
  <2> SUFFICES ASSUME NEW n \in U \cap Nat, n < m PROVE n + 1 \in U
    OBVIOUS
  <2>1. n \in Nat /\ n + 1 \in 0 .. m /\ n + 1 # 0 /\ (n + 1) - 1 = n
    BY <1>1
  <2>2. PICK k : Latest(n, k) /\ f[n] = Upto(k)
    OBVIOUS
  <2>3. f[n + 1] = IF Holds(n + 1) THEN Upto(n + 1) ELSE Upto(k)
    BY <1>10, <2>1, <2>2
  <2>4. \E l : Latest(n + 1, l) /\ f[n + 1] = Upto(l)
    <3> HIDE DEF Holds, Upto, U
    <3>1. CASE Holds(n + 1)
      BY <1>3, <2>1, <2>3, <3>1
    <3>2. CASE ~Holds(n + 1)
      BY <1>4, <2>1, <2>2, <2>3, <3>2
    <3> QED
      BY <3>1, <3>2
  <2> QED
    BY <2>1, <2>4
<1>14. m \in U
  <2> HIDE DEF U
  <2>1. 0 .. m \subseteq U
    BY <1>1, <1>12, <1>13, UpTo
  <2> QED
    BY <1>1, <2>1
<1>15. PICK k : Latest(m, k) /\ f[m] = Upto(k)
  BY <1>14
<1> QED
  BY <1>11, <1>15 DEF Latest

\* A directory whose last file went gives way to the nearest one that still holds any.
LEMMA Survives == ASSUME Usable, files \subseteq Path, dir \in Seq(Keyword) PROVE NearestSurvivor
<1> DEFINE holding == {d \in Prefixes(dir) : d = <<>> \/ \E f \in files : IsStrictPrefix(d, f)}
<1>1. PICK k \in 0 .. Len(dir) :
        /\ Directory = SubSeq(dir, 1, k)
        /\ k = 0 \/ SubSeq(dir, 1, k) \in Folders
        /\ \A j \in k + 1 .. Len(dir) : SubSeq(dir, 1, j) \notin Folders
  BY LastFolder
<1>2. Len(dir) \in Nat /\ Directory \in Seq(Keyword) /\ Len(Directory) = k
  BY <1>1, First
<1>3. Directory \in holding
  <2>1. Directory \in Prefixes(dir)
    BY <1>1 DEF Prefixes
  <2>2. CASE k = 0
    <3>1. Directory = <<>>
      BY <1>1, <2>2, SubSeqEmpty
    <3> QED
      BY <2>1, <3>1
  <2>3. CASE Directory \in Folders
    BY <1>2, <2>1, <2>3, FoldersAre
  <2> QED
    BY <1>1, <2>2, <2>3
<1>4. ASSUME NEW d \in holding PROVE Len(d) <= Len(Directory)
  <2>1. PICK l \in 0 .. Len(dir) : d = SubSeq(dir, 1, l)
    BY DEF Prefixes
  <2>2. d \in Seq(Keyword) /\ Len(d) = l
    BY <2>1, First
  <2>3. ASSUME l > k PROVE FALSE
    <3>1. l \in k + 1 .. Len(dir) /\ d # <<>>
      BY <1>2, <2>2, <2>3
    <3>2. d \notin Folders
      BY <1>1, <2>1, <3>1
    <3> QED
      BY <2>2, <3>1, <3>2, FoldersAre
  <2> QED
    BY <1>2, <2>1, <2>2, <2>3
<1> QED
  BY <1>3, <1>4 DEF NearestSurvivor
-----------------------------------------------------------------------------
(* The types, and what follows from them.                                  *)

\* The types tell all that the directories and the pages need.
LEMMA TypesShow ==
  ASSUME Usable, TypeOK
  PROVE  EveryFileReachable /\ NearestSurvivor /\ PageShown /\ PagesWhole
<1>1. Shown /\ dir \in Seq(Keyword)
  BY FewDirectories, FewShown DEF TypeOK, Shown
<1> QED
  BY <1>1, LinksLead, Survives, ShownIsThere, EachOnOnePage DEF TypeOK

\* The page is read from a URL that any directory may have been asked in.
LEMMA TypesBegin == ASSUME Usable, Init PROVE TypeOK
<1>1. Cardinality(Path) \in Nat /\ Cardinality(Directories) \in Nat \ {0}
  BY FewShown DEF Init
<1> QED
  BY <1>1 DEF Init, TypeOK

\* No step turns to a page there never was, nor leaves the directories there may be.
LEMMA TypesKept == ASSUME Usable, TypeOK, [Next]_vars PROVE TypeOK'
<1> DEFINE most == Cardinality(Path) + Cardinality(Directories)
<1>1. /\ files \subseteq Path /\ dir \in Directories /\ query \in Keyword \cup {None}
      /\ page \in 1 .. most /\ deleting \in Path \cup {None}
  BY DEF TypeOK
<1>2. Cardinality(Path) \in Nat /\ Cardinality(Directories) \in Nat \ {0} /\ 1 \in 1 .. most
  BY FewShown DEF TypeOK
<1> SUFFICES /\ files' \subseteq Path /\ dir' \in Directories /\ query' \in Keyword \cup {None}
             /\ page' \in 1 .. most /\ deleting' \in Path \cup {None}
  BY DEF TypeOK
<1>3. ASSUME NEW d \in Directories, OpenDirectory(d) \/ History(d) PROVE TypeOK'
  BY <1>1, <1>2, <1>3 DEF OpenDirectory, History, TypeOK
<1>4. ASSUME NEW keyword \in Keyword \cup {None}, Search(keyword) PROVE TypeOK'
  BY <1>1, <1>2, <1>4 DEF Search, TypeOK
<1>5. CASE TurnPage
  <2>1. Shown
    BY <1>1, <1>2 DEF Shown
  <2>2. /\ TotalPages \in Nat \ {0} /\ CurrentPage \in 1 .. TotalPages /\ Pages \subseteq 1 .. TotalPages
        /\ TotalPages = 1 \/ TotalPages <= Cardinality(Filtered)
    BY <2>1, PagesFit, ShownIsThere DEF PageShown
  <2>3. Cardinality(Filtered) \in Nat /\ Cardinality(Filtered) <= most
    BY <1>1, FewShown
  <2>4. page' \in 1 .. TotalPages
    <3>1. \/ CurrentPage > 1 /\ page' = CurrentPage - 1
          \/ CurrentPage < TotalPages /\ page' = CurrentPage + 1
          \/ page' \in Pages
      BY <1>5 DEF TurnPage
    <3>2. /\ CurrentPage > 1 => CurrentPage - 1 \in 1 .. TotalPages
          /\ CurrentPage < TotalPages => CurrentPage + 1 \in 1 .. TotalPages
      BY <2>2
    <3>3. page' \in Pages => page' \in 1 .. TotalPages
      BY <2>2
    <3> QED
      BY <3>1, <3>2, <3>3
  <2>5. page' \in 1 .. most
    <3> HIDE DEF most
    <3>1. most \in Nat
      BY <1>2 DEF most
    <3> QED
      BY <1>2, <2>2, <2>3, <2>4, <3>1
  <2> QED
    BY <1>1, <1>5, <2>5 DEF TurnPage
<1>6. CASE ListArrives
  BY <1>1, <1>6 DEF ListArrives
<1>7. CASE Deleted
  BY <1>1, <1>7 DEF Deleted
<1>8. ASSUME NEW f \in Path, Delete(f) PROVE TypeOK'
  BY <1>1, <1>8 DEF Delete, TypeOK
<1>9. CASE UNCHANGED vars
  BY <1>1, <1>9 DEF vars
<1> QED
  BY <1>3, <1>4, <1>5, <1>6, <1>7, <1>8, <1>9 DEF Next, TypeOK

\* Whatever is listed, asked for and turned to, the page is never beyond the entries there may
\* be, nor the directory one that no path has (FilesPage.tsx:81, 137, 142).
THEOREM TypeCorrect == ASSUME Usable PROVE Spec => []TypeOK
  BY TypesBegin, TypesKept, PTL DEF Spec

\* Whatever folders come and go, links lead from the root to every file (FilesPage.tsx:85, 123).
THEOREM FilesStayReachable == ASSUME Usable PROVE Spec => []EveryFileReachable
  BY TypesShow, TypeCorrect, PTL

\* The directory shown is the nearest to the one asked for that still holds a file, however
\* many of those on the way are gone (FilesPage.tsx:90-97).
THEOREM NearestIsShown == ASSUME Usable PROVE Spec => []NearestSurvivor
  BY TypesShow, TypeCorrect, PTL

\* The page shown has entries if there are any, is among those offered, and those exist, however
\* the list shrank (FilesPage.tsx:140, 142).
THEOREM PageIsThere == ASSUME Usable PROVE Spec => []PageShown
  BY TypesShow, TypeCorrect, PTL

\* The pages divide the entries: each is on one, and on one only (FilesPage.tsx:139, 141).
THEOREM PagesDivide == ASSUME Usable PROVE Spec => []PagesWhole
  BY TypesShow, TypeCorrect, PTL
=============================================================================
