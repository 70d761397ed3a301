---------------------------- MODULE ClipboardProofs ----------------------------
(***************************************************************************)
(* Proofs about ClipboardStore, for any number of clients, entries, limits *)
(* and faults: the history on disk is whole at every step, what was        *)
(* acknowledged stays, images and thumbnails are those of the list, and    *)
(* the list changes as ClipboardPromise says.                              *)
(***************************************************************************)
EXTENDS ClipboardStore, SequenceTheorems, WellFoundedInduction, TLAPS

\* Induction up to m: what holds of 0 and of each successor below m holds up to m.
LEMMA UpTo ==
  ASSUME NEW m \in Nat, NEW T, 0 \in T, \A n \in T \cap Nat : n < m => n + 1 \in T
  PROVE  0 .. m \subseteq T
<1> DEFINE R == OpToRel(<, Nat)
           F == (0 .. m) \ T
<1>1. SUFFICES ASSUME F # {} PROVE FALSE
  OBVIOUS
<1>2. IsWellFoundedOn(R, Nat)
  BY NatLessThanWellFounded
<1>3. F \subseteq Nat
  OBVIOUS
<1>4. PICK x \in F : \A y \in F : <<y, x>> \notin R
  <2> HIDE DEF R, F
  <2> QED
    BY <1>1, <1>2, <1>3, WFMin
<1>5. \A y \in F : ~(y < x)
  BY <1>3, <1>4 DEF OpToRel
<1>6. x # 0 /\ x - 1 \in 0 .. m /\ x - 1 \notin F
  BY <1>5
<1> QED
  BY <1>6

\* Sizes are natural numbers.
LEMMA Sizes ==
  /\ \A e \in Entry : e.size \in Nat
  /\ \A list \in Seq(Entry) : Len(list) \in Nat /\ \A n \in 1 .. Len(list) : list[n].size \in Nat
<1>1. \A e \in Entry : e.size \in Size \cup {0}
  BY DEF Entry
<1>2. \A z \in Size : z \in Nat
  BY ClipboardLimits
<1>3. \A e \in Entry : e.size \in Nat
  BY <1>1, <1>2
<1> QED
  BY <1>3

\* What the loop of CreateImage has summed up after each entry.
Sums(t, list) ==
  /\ t \in [0 .. Len(list) -> Nat] /\ t[0] = 0
  /\ \A n \in 1 .. Len(list) : t[n] = t[n - 1] + list[n].size

\* Total is what the loop computes.
LEMMA Summed ==
  ASSUME NEW list \in Seq(Entry)
  PROVE  \E t : Sums(t, list) /\ Total(list) = t[Len(list)]
<1> DEFINE m == Len(list)
           Sum(t, k) == t[0] = 0 /\ \A n \in 1 .. k : t[n] = t[n - 1] + list[n].size
           T == {k \in 0 .. m : \E t \in [0 .. k -> Nat] : Sum(t, k)}
<1>0. m \in Nat /\ \A n \in 1 .. m : list[n].size \in Nat
  BY Sizes
<1>1. 0 \in T
  <2>1. [n \in 0 .. 0 |-> 0] \in [0 .. 0 -> Nat] /\ Sum([n \in 0 .. 0 |-> 0], 0)
    OBVIOUS
  <2>2. \E t \in [0 .. 0 -> Nat] : Sum(t, 0)
    <3> HIDE DEF Sum
    <3> QED
      BY <2>1
  <2> QED
    BY <1>0, <2>2
<1>2. ASSUME NEW k \in T, k < m PROVE k + 1 \in T
  <2>1. PICK t \in [0 .. k -> Nat] : Sum(t, k)
    BY <1>2
  <2>2. k \in Nat /\ k + 1 \in 1 .. m
    BY <1>0, <1>2
  <2> DEFINE u == [n \in 0 .. k + 1 |-> IF n = k + 1 THEN t[k] + list[k + 1].size ELSE t[n]]
  <2>3. u \in [0 .. k + 1 -> Nat]
    BY <1>0, <2>2
  <2>4. Sum(u, k + 1)
    BY <2>1, <2>2
  <2>5. k + 1 \in 0 .. m
    BY <1>0, <2>2
  <2>6. \E v \in [0 .. k + 1 -> Nat] : Sum(v, k + 1)
    <3> HIDE DEF Sum, u
    <3> QED
      BY <2>3, <2>4
  <2> QED
    BY <2>5, <2>6
<1>3. m \in T
  <2> HIDE DEF T
  <2>1. 0 .. m \subseteq T
    BY <1>0, <1>1, <1>2, UpTo
  <2> QED
    BY <1>0, <2>1
<1>4. PICK t \in [0 .. m -> Nat] : Sum(t, m)
  BY <1>3
<1> DEFINE Def(g) == [n \in 0 .. Len(list) |-> IF n = 0 THEN 0 ELSE g[n - 1] + list[n].size]
           f == CHOOSE g : g = Def(g)
<1>5. t = Def(t)
  BY <1>0, <1>4
<1>6. f = Def(f)
  BY <1>5
<1>7. Total(list) = f[Len(list)]
  BY DEF Total
<1>8. \A n \in 0 .. m : f[n] = IF n = 0 THEN 0 ELSE f[n - 1] + list[n].size
  <2> HIDE DEF f
  <2> QED BY <1>6
<1>9. 0 .. m \subseteq {n \in 0 .. m : f[n] = t[n]}
  <2> HIDE DEF f
  <2> DEFINE S == {n \in 0 .. m : f[n] = t[n]}
  <2>1. 0 \in S
    BY <1>0, <1>4, <1>8
  <2>2. ASSUME NEW n \in S \cap Nat, n < m PROVE n + 1 \in S
    BY <1>0, <1>4, <1>8, <2>2
  <2> HIDE DEF S
  <2>3. 0 .. m \subseteq S
    BY <1>0, <2>1, <2>2, UpTo
  <2> QED BY <2>3 DEF S
<1>10. f[m] = t[m]
  <2> HIDE DEF f
  <2> QED
    BY <1>0, <1>9
<1> QED
  <2> HIDE DEF f
  <2> QED
    BY <1>4, <1>7, <1>10 DEF Sums
-----------------------------------------------------------------------------
(* The inductive invariant.                                                *)

\* No two entries of a list have the same id.
Unique(list) == \A i, j \in 1 .. Len(list) : list[i].id = list[j].id => i = j
Sound(list) == Unique(list) /\ Len(list) <= MaxEntries /\ Total(list) <= MaxTotal

\* A request that adds an entry, and the entry it adds.
Adds(c) == job[c].op \in {"text", "image"}
Added(c) == [id |-> job[c].id, kind |-> job[c].op, size |-> job[c].size]

\* What a change makes of the list.
Becomes(c, list) ==
  CASE Adds(c) -> Newest(Added(c), list)
    [] job[c].op = "delete" -> Without(list, job[c].id)
    [] OTHER -> <<>>

Planning == {"draft", "place", "save"}
Committing == {"memory", "drop"}

\* Which request stands where, and what it is about.
Role(c) ==
  /\ pc[c] \in {"decode", "draft", "place", "undo"} => job[c].op = "image"
  /\ pc[c] \in {"lock", "save"} \cup Committing => job[c].op \in {"text", "image", "delete", "clear"}
  /\ pc[c] \in {"open", "opening"} => job[c].op \in {"open", "thumb"}
  /\ pc[c] \in {"look", "queue", "again", "render"} => job[c].op = "thumb"
  /\ pc[c] \in {"list", "idle"} => job[c].op \notin {"open", "thumb"}
  /\ job[c].op = "text" => job[c].size = 0
  /\ job[c].op \in {"text", "delete", "open", "thumb"} => job[c].id \in Id
  /\ pc[c] \in Writing \cup {"lock"} /\ job[c].op = "image" => job[c].id \in Id
  /\ pc[c] # "done" => answer[c] = "none"

\* Whoever holds s.mu for writing is alone with it.
Alone == \A c, d \in Client : c # d /\ pc[c] \in Writing => pc[d] \notin Writing \cup {"opening"}

\* An id that was drawn is used once.
Drawn(c) == Adds(c) /\ pc[c] \in Planning \cup {"lock", "undo"}
Used == Ids(history) \cup gone
OwnId ==
  /\ fresh \cap Used = {}
  /\ \A c \in Client : Drawn(c) => job[c].id \notin fresh \cup Used
  /\ \A c, d \in Client : c # d /\ Drawn(c) /\ Drawn(d) => job[c].id # job[d].id

\* Memory and disk.
Agreed ==
  /\ process # "refused"
  /\ process = "up" => snapshot = entries
  /\ process = "up" /\ (\A c \in Client : pc[c] # "memory") => entries = history
  /\ process = "down" => thumbs = {} /\ \A c \in Client : pc[c] = "idle"

\* What the holder of s.mu is about to do, and has done.
Planned(c) == pc[c] \in Planning =>
  /\ job[c].next = Becomes(c, history) /\ Total(job[c].next) <= MaxTotal
  /\ job[c].drop = ImageIds(history) \ Ids(job[c].next)
  /\ job[c].op = "delete" => job[c].id \in Ids(history)
Committed(c) == pc[c] \in Committing =>
  /\ job[c].next = history /\ job[c].drop \cap Ids(history) = {}
  /\ Adds(c) => job[c].id \in Ids(history)
  /\ job[c].op = "image" => job[c].id \in ImageIds(history)

\* The images directory, at every step of a change.
Placed(c) == pc[c] = "undo" \/ (pc[c] = "save" /\ job[c].op = "image")
Extra(c) ==
  CASE Placed(c) -> {job[c].id} [] pc[c] \in Committing -> job[c].drop [] OTHER -> {}
Stored ==
  /\ ImageIds(history) \subseteq images
  /\ \A c \in Client : Placed(c) => job[c].id \in images
Accounted == "remove" \notin Faults /\ process = "up" =>
  /\ MuReadable => images = ImageIds(history) /\ scraps = {}
  /\ \A c \in Client : pc[c] \in Writing =>
       /\ images = ImageIds(history) \cup Extra(c)
       /\ scraps = IF pc[c] = "place" THEN {job[c].id} ELSE {}

\* Thumbnails are those of listed images, and of those being dropped.
Pictured ==
  /\ (\A c \in Client : pc[c] \notin Committing) => thumbs \subseteq ImageIds(history)
  /\ \A c \in Client : pc[c] \in Committing => thumbs \subseteq ImageIds(history) \cup job[c].drop

\* An image that is being opened is listed, and is found.
Opened(c) ==
  /\ pc[c] = "opening" => job[c].id \in ImageIds(history)
  /\ job[c].op \in {"open", "thumb"} => answer[c] # "failed"

\* The inductive invariant.
Kept ==
  /\ TypeOK /\ Sound(history) /\ Alone /\ OwnId /\ Agreed /\ Stored /\ Accounted /\ Pictured
  /\ ToldDurable
  /\ \A c \in Client : Role(c) /\ Planned(c) /\ Committed(c) /\ Opened(c)
-----------------------------------------------------------------------------
(* What a change makes of a list.                                          *)

\* The new list: the entry in front, and what still fits of the old one behind it.
LEMMA NewestIs ==
  ASSUME NEW list \in Seq(Entry), Len(list) <= MaxEntries, NEW e \in Entry
  PROVE  /\ Newest(e, list) \in Seq(Entry)
         /\ Len(Newest(e, list)) \in 1 .. MaxEntries
         /\ Len(Newest(e, list)) - 1 <= Len(list)
         /\ Len(list) < MaxEntries => Len(Newest(e, list)) - 1 = Len(list)
         /\ Newest(e, list)[1] = e
         /\ \A k \in 1 .. Len(Newest(e, list)) - 1 : Newest(e, list)[k + 1] = list[k]
<1>0. MaxEntries \in Nat /\ MaxEntries >= 1
  BY ClipboardLimits
<1>1. CASE Len(list) < MaxEntries
  <2>1. Newest(e, list) = <<e>> \o list
    BY <1>1 DEF Newest
  <2> QED
    BY <1>0, <1>1, <2>1
<1>2. CASE ~(Len(list) < MaxEntries)
  <2> DEFINE p == SubSeq(list, 1, MaxEntries - 1)
  <2>1. Newest(e, list) = <<e>> \o p
    BY <1>2 DEF Newest
  <2>2. p \in Seq(Entry) /\ Len(p) = MaxEntries - 1 /\ \A k \in 1 .. MaxEntries - 1 : p[k] = list[k]
    BY <1>0, <1>2
  <2> HIDE DEF p
  <2> QED
    BY <1>0, <1>2, <2>1, <2>2
<1> QED
  BY <1>1, <1>2

\* The list without an entry: what was before it, and what was behind it one place further on.
LEMMA WithoutIs ==
  ASSUME NEW list \in Seq(Entry), NEW id \in Ids(list)
  PROVE  \E at \in 1 .. Len(list) :
           /\ list[at].id = id
           /\ Without(list, id) = SubSeq(list, 1, at - 1) \o SubSeq(list, at + 1, Len(list))
           /\ Without(list, id) \in Seq(Entry) /\ Len(Without(list, id)) = Len(list) - 1
           /\ \A k \in 1 .. Len(list) - 1 :
                Without(list, id)[k] = IF k < at THEN list[k] ELSE list[k + 1]
<1> DEFINE at == CHOOSE i \in 1 .. Len(list) : list[i].id = id
<1>1. at \in 1 .. Len(list) /\ list[at].id = id
  BY DEF Ids
<1>2. Without(list, id) = SubSeq(list, 1, at - 1) \o SubSeq(list, at + 1, Len(list))
  BY DEF Without
<1> HIDE DEF at
<1> DEFINE a == SubSeq(list, 1, at - 1)
           b == SubSeq(list, at + 1, Len(list))
<1>3. a \in Seq(Entry) /\ Len(a) = at - 1 /\ \A k \in 1 .. at - 1 : a[k] = list[k]
  BY <1>1
<1>4. b \in Seq(Entry) /\ Len(b) = Len(list) - at /\ \A k \in 1 .. Len(list) - at : b[k] = list[k + at]
  BY <1>1
<1>5. Without(list, id) = a \o b
  BY <1>2
<1> HIDE DEF a, b
<1>a. /\ a \o b \in Seq(Entry) /\ Len(a \o b) = Len(a) + Len(b)
      /\ \A k \in 1 .. Len(a) + Len(b) : (a \o b)[k] = IF k <= Len(a) THEN a[k] ELSE b[k - Len(a)]
  BY <1>3, <1>4, ConcatProperties
<1>b. Len(list) \in Nat /\ at \in Nat
  BY <1>1
<1>6. Without(list, id) \in Seq(Entry) /\ Len(Without(list, id)) = Len(list) - 1
  BY <1>b, <1>3, <1>4, <1>5, <1>a
<1>7. ASSUME NEW k \in 1 .. Len(list) - 1
      PROVE  Without(list, id)[k] = IF k < at THEN list[k] ELSE list[k + 1]
  <2>1. CASE k < at
    <3>1. k \in 1 .. at - 1 /\ k \in 1 .. Len(a) + Len(b) /\ k <= Len(a)
      BY <1>b, <1>1, <1>3, <1>4, <2>1
    <3> QED
      BY <1>3, <1>5, <1>a, <2>1, <3>1
  <2>2. CASE ~(k < at)
    <3>1. /\ k \in 1 .. Len(a) + Len(b) /\ ~(k <= Len(a)) /\ k - Len(a) \in 1 .. Len(list) - at
          /\ k - Len(a) + at = k + 1
      BY <1>b, <1>1, <1>3, <1>4, <2>2
    <3> QED
      BY <1>4, <1>5, <1>a, <2>2, <3>1
  <2> QED
    BY <2>1, <2>2
<1> QED
  BY <1>1, <1>2, <1>6, <1>7

\* Sums are natural numbers.
LEMMA SumsTyped ==
  ASSUME NEW list \in Seq(Entry), NEW t, Sums(t, list)
  PROVE  /\ Len(list) \in Nat /\ \A n \in 0 .. Len(list) : t[n] \in Nat
         /\ \A n \in 1 .. Len(list) : list[n].size \in Nat /\ t[n] = t[n - 1] + list[n].size
<1>1. Len(list) \in Nat /\ \A n \in 1 .. Len(list) : list[n].size \in Nat
  BY Sizes
<1>2. \A n \in 0 .. Len(list) : t[n] \in Nat
  BY DEF Sums
<1> QED
  BY <1>1, <1>2 DEF Sums

\* So is a total.
LEMMA Totals == \A list \in Seq(Entry) : Total(list) \in Nat
<1> SUFFICES ASSUME NEW list \in Seq(Entry) PROVE Total(list) \in Nat
  OBVIOUS
<1>1. PICK t : Sums(t, list) /\ Total(list) = t[Len(list)]
  BY Summed
<1>2. Len(list) \in Nat /\ \A n \in 0 .. Len(list) : t[n] \in Nat
  BY <1>1, SumsTyped
<1> QED
  BY <1>1, <1>2

\* Sums grow.
LEMMA Rising ==
  ASSUME NEW list \in Seq(Entry), NEW t, Sums(t, list), NEW j \in 0 .. Len(list)
  PROVE  t[j] <= t[Len(list)]
<1> DEFINE m == Len(list)
           S == {n \in 0 .. m : j <= n => t[j] <= t[n]}
<1>0. m \in Nat /\ j \in Nat /\ (\A n \in 1 .. m : list[n].size \in Nat) /\ \A n \in 0 .. m : t[n] \in Nat
  BY SumsTyped
<1>1. 0 \in S
  BY <1>0
<1>2. ASSUME NEW n \in S \cap Nat, n < m PROVE n + 1 \in S
  <2>1. t[n + 1] = t[n] + list[n + 1].size /\ n + 1 \in 1 .. m /\ t[n + 1] >= t[n]
    BY <1>0, <1>2 DEF Sums
  <2> QED
    BY <1>0, <1>2, <2>1
<1>3. m \in S
  <2> HIDE DEF S
  <2>1. 0 .. m \subseteq S
    BY <1>0, <1>1, <1>2, UpTo
  <2> QED
    BY <1>0, <2>1
<1> QED
  BY <1>0, <1>3

\* An entry at the front adds its size, at most.
LEMMA TotalOfNewest ==
  ASSUME NEW list \in Seq(Entry), Len(list) <= MaxEntries, NEW e \in Entry
  PROVE  Total(list) \in Nat /\ Total(Newest(e, list)) <= Total(list) + e.size
<1> DEFINE new == Newest(e, list)
<1>1. /\ new \in Seq(Entry) /\ Len(new) \in Nat \ {0} /\ Len(new) - 1 <= Len(list) /\ new[1] = e
      /\ \A k \in 1 .. Len(new) - 1 : new[k + 1] = list[k]
  <2>1. MaxEntries \in Nat
    BY ClipboardLimits
  <2> HIDE DEF new
  <2>2. /\ new \in Seq(Entry) /\ Len(new) \in 1 .. MaxEntries /\ Len(new) - 1 <= Len(list) /\ new[1] = e
        /\ \A k \in 1 .. Len(new) - 1 : new[k + 1] = list[k]
    BY NewestIs DEF new
  <2> QED
    BY <2>1, <2>2
<1> HIDE DEF new
<1>2. PICK t : Sums(t, list) /\ Total(list) = t[Len(list)]
  BY Summed
<1>3. PICK u : Sums(u, new) /\ Total(new) = u[Len(new)]
  BY <1>1, Summed
<1>4. Len(list) \in Nat /\ e.size \in Nat /\ (\A n \in 0 .. Len(list) : t[n] \in Nat)
      /\ \A n \in 0 .. Len(new) : u[n] \in Nat
  <2>1. e.size \in Nat
    BY Sizes
  <2> QED
    BY <1>1, <1>2, <1>3, <2>1, SumsTyped
<1> DEFINE S == {k \in 0 .. Len(new) - 1 : u[k + 1] = e.size + t[k]}
<1>5. 0 \in S
  <2>1. u[1] = u[0] + new[1].size
    BY <1>1, <1>3 DEF Sums
  <2> QED
    BY <1>1, <1>2, <1>3, <1>4, <2>1 DEF Sums
<1>6. ASSUME NEW k \in S \cap Nat, k < Len(new) - 1 PROVE k + 1 \in S
  <2>1. u[k + 2] = u[k + 1] + new[k + 2].size
    BY <1>1, <1>3, <1>6 DEF Sums
  <2>2. t[k + 1] = t[k] + list[k + 1].size
    BY <1>1, <1>2, <1>4, <1>6 DEF Sums
  <2>0. k \in Nat /\ k + 1 \in 1 .. Len(new) - 1 /\ k + 1 \in 1 .. Len(list) /\ (k + 1) + 1 = k + 2
        /\ k + 1 \in 0 .. Len(new) - 1 /\ k \in 0 .. Len(list)
    BY <1>1, <1>4, <1>6
  <2>3. new[k + 2] = list[k + 1]
    BY <1>1, <2>0
  <2>4. list[k + 1].size \in Nat /\ t[k] \in Nat
    BY <1>2, <2>0, SumsTyped
  <2>5. u[k + 1] = e.size + t[k]
    BY <1>6
  <2>6. u[(k + 1) + 1] = e.size + t[k + 1]
    BY <1>4, <2>0, <2>1, <2>2, <2>3, <2>4, <2>5
  <2> QED
    BY <2>0, <2>6
<1>7. Len(new) - 1 \in S
  <2> HIDE DEF S
  <2>1. Len(new) - 1 \in Nat
    BY <1>1
  <2>2. 0 .. Len(new) - 1 \subseteq S
    BY <2>1, <1>5, <1>6, UpTo
  <2> QED
    BY <2>1, <2>2
<1>8. t[Len(new) - 1] <= t[Len(list)]
  <2>1. Len(new) - 1 \in 0 .. Len(list)
    BY <1>1, <1>4
  <2> QED
    BY <1>2, <2>1, Rising
<1> QED
  BY <1>1, <1>2, <1>3, <1>4, <1>7, <1>8 DEF new

\* Removing an entry adds nothing.
LEMMA TotalOfWithout ==
  ASSUME NEW list \in Seq(Entry), NEW id \in Ids(list)
  PROVE  Total(Without(list, id)) <= Total(list)
<1> DEFINE new == Without(list, id)
<1>1. PICK at \in 1 .. Len(list) :
        /\ new \in Seq(Entry) /\ Len(new) = Len(list) - 1
        /\ \A k \in 1 .. Len(list) - 1 : new[k] = IF k < at THEN list[k] ELSE list[k + 1]
  BY WithoutIs
<1> HIDE DEF new
<1>2. PICK t : Sums(t, list) /\ Total(list) = t[Len(list)]
  BY Summed
<1>3. PICK u : Sums(u, new) /\ Total(new) = u[Len(new)]
  BY <1>1, Summed
<1>4. Len(list) \in Nat \ {0} /\ at \in Nat /\ (\A n \in 0 .. Len(list) : t[n] \in Nat)
      /\ (\A n \in 0 .. Len(new) : u[n] \in Nat) /\ \A n \in 1 .. Len(list) : list[n].size \in Nat
  <2>1. Len(list) \in Nat /\ \A n \in 0 .. Len(list) : t[n] \in Nat
    BY <1>2, SumsTyped
  <2>2. \A n \in 1 .. Len(list) : list[n].size \in Nat
    BY <1>2, SumsTyped
  <2>3. \A n \in 0 .. Len(new) : u[n] \in Nat
    BY <1>1, <1>3, SumsTyped
  <2>4. Len(list) \in Nat \ {0} /\ at \in Nat
    BY <2>1
  <2> QED
    BY <2>1, <2>2, <2>3, <2>4
<1> DEFINE S == {k \in 0 .. Len(new) : IF k < at THEN u[k] <= t[k] ELSE u[k] <= t[k + 1]}
<1>5. 0 \in S
  BY <1>1, <1>2, <1>3, <1>4 DEF Sums
<1>6. ASSUME NEW k \in S \cap Nat, k < Len(new) PROVE k + 1 \in S
  <2>1. u[k + 1] = u[k] + new[k + 1].size /\ k + 1 \in 1 .. Len(list) - 1
    BY <1>1, <1>3, <1>4, <1>6 DEF Sums
  <2>2. t[k + 1] = t[k] + list[k + 1].size /\ t[k + 2] = t[k + 1] + list[k + 2].size
    BY <1>1, <1>2, <1>4, <1>6 DEF Sums
  <2>0. /\ k \in Nat /\ k + 1 \in 1 .. Len(list) - 1 /\ (k + 1) + 1 = k + 2 /\ k + 1 \in 0 .. Len(new)
        /\ k \in 0 .. Len(list) /\ k + 1 \in 0 .. Len(list) /\ k + 2 \in 0 .. Len(list)
        /\ k + 1 \in 1 .. Len(list) /\ k + 2 \in 1 .. Len(list) /\ k \in 0 .. Len(new)
    <3>1. k \in Nat /\ k < Len(new)
      BY <1>6
    <3>2. Len(list) \in Nat /\ Len(new) = Len(list) - 1
      BY <1>1, <1>4
    <3> QED
      BY ONLY <3>1, <3>2
  <2>a. /\ u[k] \in Nat /\ t[k] \in Nat /\ t[k + 1] \in Nat /\ t[k + 2] \in Nat
        /\ list[k + 1].size \in Nat /\ list[k + 2].size \in Nat
    BY <1>4, <2>0
  <2>b. IF k < at THEN u[k] <= t[k] ELSE u[k] <= t[k + 1]
    BY <1>6
  <2>3. CASE k + 1 < at
    <3>1. new[k + 1] = list[k + 1] /\ k < at
      BY <1>1, <1>4, <2>0, <2>3
    <3>2. u[k + 1] <= t[k + 1]
      BY <2>1, <2>2, <2>a, <2>b, <3>1
    <3> QED
      BY <2>0, <2>3, <3>2
  <2>4. CASE ~(k + 1 < at)
    <3>1. new[k + 1] = list[k + 2]
      BY <1>1, <2>0, <2>4
    <3>0. \A x, y, z \in Nat : x = y + z => y <= x
      OBVIOUS
    <3>a. t[k] <= t[k + 1]
      BY <2>2, <2>a, <3>0
    <3>b. u[k] <= t[k] \/ u[k] <= t[k + 1]
      BY <2>b
    <3>2. u[k] <= t[k + 1]
      BY <2>a, <3>a, <3>b
    <3>3. u[k + 1] <= t[(k + 1) + 1]
      BY <2>0, <2>1, <2>2, <2>a, <3>1, <3>2
    <3> QED
      BY <2>0, <2>4, <3>3
  <2> QED
    BY <2>3, <2>4
<1>7. Len(new) \in S
  <2> HIDE DEF S
  <2>1. Len(new) \in Nat
    BY <1>1, <1>4
  <2>2. 0 .. Len(new) \subseteq S
    BY <2>1, <1>5, <1>6, UpTo
  <2> QED
    BY <2>1, <2>2
<1>8. u[Len(new)] <= t[Len(list)]
  <2>1. Len(new) = Len(list) - 1 /\ Len(list) - 1 \in 0 .. Len(list) /\ Len(list) - 1 + 1 = Len(list)
    BY <1>1, <1>4
  <2>2. t[Len(list) - 1] <= t[Len(list)]
    BY <1>2, <2>1, Rising
  <2>3. u[Len(new)] <= t[Len(new)] \/ u[Len(new)] <= t[Len(new) + 1]
    BY <1>7
  <2>4. u[Len(new)] \in Nat /\ t[Len(list) - 1] \in Nat /\ t[Len(list)] \in Nat
    BY <1>1, <1>4, <2>1
  <2> QED
    BY <2>1, <2>2, <2>3, <2>4
<1> QED
  BY <1>2, <1>3, <1>8 DEF new

\* A new entry is listed, nothing else is, and what it pushes out is what is to be dropped.
LEMMA NewestKeeps ==
  ASSUME NEW list \in Seq(Entry), Unique(list), Len(list) <= MaxEntries,
         NEW e \in Entry, e.id \notin Ids(list),
         NEW new, new = Newest(e, list)
  PROVE  /\ new \in Seq(Entry) /\ Unique(new) /\ Len(new) <= MaxEntries
         /\ e.id \in Ids(new) /\ Ids(new) \subseteq Ids(list) \cup {e.id}
         /\ e.kind = "image" => e.id \in ImageIds(new)
         /\ ImageIds(new) \cup (ImageIds(list) \ Ids(new)) =
              ImageIds(list) \cup (IF e.kind = "image" THEN {e.id} ELSE {})
<1>1. /\ new \in Seq(Entry) /\ Len(new) \in Nat \ {0} /\ Len(new) <= MaxEntries
      /\ Len(new) - 1 <= Len(list) /\ new[1] = e
      /\ \A k \in 1 .. Len(new) - 1 : new[k + 1] = list[k]
  <2>1. MaxEntries \in Nat
    BY ClipboardLimits
  <2>2. /\ new \in Seq(Entry) /\ Len(new) \in 1 .. MaxEntries
        /\ Len(new) - 1 <= Len(list) /\ new[1] = e
        /\ \A k \in 1 .. Len(new) - 1 : new[k + 1] = list[k]
    BY NewestIs
  <2> QED
    BY <2>1, <2>2
<1>2. Len(list) \in Nat
  OBVIOUS
<1>3. \A j \in 1 .. Len(new) :
        (j = 1 /\ new[j] = e) \/ (j - 1 \in 1 .. Len(list) /\ new[j] = list[j - 1])
  <2> TAKE j \in 1 .. Len(new)
  <2>1. CASE j = 1
    BY <1>1, <2>1
  <2>2. CASE j # 1
    <3>1. j - 1 \in 1 .. Len(new) - 1 /\ j - 1 \in 1 .. Len(list) /\ (j - 1) + 1 = j
      BY <1>1, <1>2, <2>2
    <3> QED
      BY <1>1, <3>1
  <2> QED
    BY <2>1, <2>2
<1>4. \A i \in 1 .. Len(list) : list[i].id # e.id
  BY DEF Ids
<1>5. Unique(new)
  <2> SUFFICES ASSUME NEW i \in 1 .. Len(new), NEW j \in 1 .. Len(new), new[i].id = new[j].id
               PROVE  i = j
    BY DEF Unique
  <2>1. CASE i = 1 \/ j = 1
    BY <1>3, <1>4, <2>1
  <2>2. CASE i # 1 /\ j # 1
    <3>1. i - 1 \in 1 .. Len(list) /\ j - 1 \in 1 .. Len(list) /\ list[i - 1].id = list[j - 1].id
      BY <1>3, <2>2
    <3>2. i - 1 = j - 1
      BY <3>1 DEF Unique
    <3> QED
      BY <1>1, <3>2
  <2> QED
    BY <2>1, <2>2
<1>6. 1 \in 1 .. Len(new)
  BY <1>1
<1>7. e.id \in Ids(new) /\ (e.kind = "image" => e.id \in ImageIds(new))
  BY <1>1, <1>6 DEF Ids, ImageIds
<1>8. Ids(new) \subseteq Ids(list) \cup {e.id}
  BY <1>3 DEF Ids
<1>9. ImageIds(new) \subseteq ImageIds(list) \cup (IF e.kind = "image" THEN {e.id} ELSE {})
  BY <1>3 DEF ImageIds
<1>10. \A x \in ImageIds(list) \cap Ids(new) : x \in ImageIds(new)
  <2> SUFFICES ASSUME NEW i \in 1 .. Len(list), list[i].kind = "image",
                      NEW j \in 1 .. Len(new), new[j].id = list[i].id
               PROVE  list[i].id \in ImageIds(new)
    BY DEF ImageIds, Ids
  <2>1. j - 1 \in 1 .. Len(list) /\ new[j] = list[j - 1]
    BY <1>3, <1>4
  <2>2. j - 1 = i
    BY <2>1 DEF Unique
  <2> QED
    BY <2>1, <2>2 DEF ImageIds
<1> QED
  BY <1>1, <1>5, <1>7, <1>8, <1>9, <1>10

\* Without an entry the list is as good as it was, and its image is what is to be dropped.
LEMMA WithoutKeeps ==
  ASSUME NEW list \in Seq(Entry), Unique(list), Len(list) <= MaxEntries,
         NEW id \in Ids(list), NEW new, new = Without(list, id)
  PROVE  /\ new \in Seq(Entry) /\ Unique(new) /\ Len(new) <= MaxEntries
         /\ Ids(new) \subseteq Ids(list)
         /\ ImageIds(new) \cup (ImageIds(list) \ Ids(new)) = ImageIds(list)
<1>1. PICK at \in 1 .. Len(list) :
        /\ new \in Seq(Entry) /\ Len(new) = Len(list) - 1
        /\ \A k \in 1 .. Len(list) - 1 : new[k] = IF k < at THEN list[k] ELSE list[k + 1]
  BY WithoutIs
<1>2. Len(list) \in Nat /\ MaxEntries \in Nat /\ at \in Nat
  BY ClipboardLimits
<1> DEFINE old(k) == IF k < at THEN k ELSE k + 1
<1>3. \A k \in 1 .. Len(new) : old(k) \in 1 .. Len(list) /\ new[k] = list[old(k)]
  BY <1>1, <1>2
<1>4. \A i, j \in 1 .. Len(new) : old(i) = old(j) => i = j
  BY <1>1, <1>2
<1> HIDE DEF old
<1>5. Unique(new)
  BY <1>3, <1>4 DEF Unique
<1>6. Ids(new) \subseteq Ids(list) /\ ImageIds(new) \subseteq ImageIds(list)
  BY <1>3 DEF Ids, ImageIds
<1>7. \A x \in ImageIds(list) \cap Ids(new) : x \in ImageIds(new)
  <2> SUFFICES ASSUME NEW i \in 1 .. Len(list), list[i].kind = "image",
                      NEW j \in 1 .. Len(new), new[j].id = list[i].id
               PROVE  list[i].id \in ImageIds(new)
    BY DEF ImageIds, Ids
  <2>1. old(j) = i
    BY <1>3 DEF Unique
  <2> QED
    BY <1>3, <2>1 DEF ImageIds
<1> QED
  BY <1>1, <1>2, <1>5, <1>6, <1>7

\* The empty list.
LEMMA EmptySound ==
  /\ <<>> \in Seq(Entry) /\ Sound(<<>>) /\ Ids(<<>>) = {} /\ ImageIds(<<>>) = {}
<1>1. ASSUME NEW list \in Seq(Entry), list = <<>> PROVE Total(list) = 0
  <2>1. PICK t : Sums(t, list) /\ Total(list) = t[Len(list)]
    BY Summed
  <2>2. Len(list) = 0
    BY <1>1
  <2> QED
    BY <2>1, <2>2 DEF Sums
<1>2. Total(<<>>) = 0
  <2>0. <<>> \in Seq(Entry)
    OBVIOUS
  <2>1. PICK list \in Seq(Entry) : list = <<>>
    BY <2>0, Zenon
  <2>2. Total(list) = 0
    BY <1>1, <2>1
  <2> QED
    BY <2>1, <2>2
<1>3. MaxTotal \in Nat /\ MaxEntries \in Nat
  BY ClipboardLimits
<1> QED
  BY <1>2, <1>3 DEF Sound, Unique, Ids, ImageIds

\* What any change makes of a list that is sound: a sound one, its quota apart.
LEMMA BecomesKeeps ==
  ASSUME NEW c \in Client, NEW list \in Seq(Entry), Sound(list), job \in [Client -> Job],
         job[c].op \in {"text", "image", "delete", "clear"},
         Adds(c) => job[c].id \in Id /\ job[c].id \notin Ids(list),
         job[c].op = "text" => job[c].size = 0,
         job[c].op = "delete" => job[c].id \in Ids(list),
         NEW new, new = Becomes(c, list)
  PROVE  /\ new \in Seq(Entry) /\ Unique(new) /\ Len(new) <= MaxEntries
         /\ job[c].op # "image" => Total(new) <= MaxTotal
         /\ Adds(c) => job[c].id \in Ids(new)
         /\ Ids(new) \subseteq Ids(list) \cup (IF Adds(c) THEN {job[c].id} ELSE {})
         /\ job[c].op = "image" => job[c].id \in ImageIds(new)
         /\ ImageIds(new) \cup (ImageIds(list) \ Ids(new)) =
              ImageIds(list) \cup (IF job[c].op = "image" THEN {job[c].id} ELSE {})
<1>0. Unique(list) /\ Len(list) <= MaxEntries /\ Total(list) <= MaxTotal /\ MaxTotal \in Nat
  BY ClipboardLimits DEF Sound
<1>1. CASE Adds(c)
  <2> DEFINE e == Added(c)
  <2>1. new = Newest(e, list)
    BY <1>1 DEF Becomes
  <2>2. job[c].size \in Size \cup {0}
    BY DEF Job
  <2>3. e \in Entry /\ e.id = job[c].id /\ e.kind = job[c].op /\ e.size = job[c].size
    BY <1>1, <2>2 DEF Added, Adds, Entry
  <2> HIDE DEF e
  <2>4. /\ new \in Seq(Entry) /\ Unique(new) /\ Len(new) <= MaxEntries
        /\ e.id \in Ids(new) /\ Ids(new) \subseteq Ids(list) \cup {e.id}
        /\ e.kind = "image" => e.id \in ImageIds(new)
        /\ ImageIds(new) \cup (ImageIds(list) \ Ids(new)) =
             ImageIds(list) \cup (IF e.kind = "image" THEN {e.id} ELSE {})
    BY <1>0, <1>1, <2>1, <2>3, NewestKeeps
  <2>5. job[c].op # "image" => Total(new) <= MaxTotal
    <3> SUFFICES ASSUME job[c].op # "image" PROVE Total(new) <= MaxTotal
      OBVIOUS
    <3>1. e.size = 0
      BY <1>1, <2>3 DEF Adds
    <3>2. Total(list) \in Nat /\ Total(new) <= Total(list) + e.size
      BY <1>0, <2>1, <2>3, TotalOfNewest
    <3>3. new \in Seq(Entry)
      BY <2>4
    <3>4. Total(new) \in Nat
      BY <3>3, Totals
    <3> QED
      BY <1>0, <3>1, <3>2, <3>4
  <2> QED
    BY <1>1, <2>3, <2>4, <2>5
<1>2. CASE job[c].op = "delete"
  <2>1. new = Without(list, job[c].id) /\ ~Adds(c)
    BY <1>2 DEF Becomes, Adds
  <2>2. /\ new \in Seq(Entry) /\ Unique(new) /\ Len(new) <= MaxEntries
        /\ Ids(new) \subseteq Ids(list)
        /\ ImageIds(new) \cup (ImageIds(list) \ Ids(new)) = ImageIds(list)
    BY <1>0, <1>2, <2>1, WithoutKeeps
  <2>3. Total(new) <= Total(list)
    BY <1>2, <2>1, TotalOfWithout
  <2>4. Total(new) \in Nat /\ Total(list) \in Nat
    BY <2>2, Totals
  <2>5. Total(new) <= MaxTotal
    BY <1>0, <2>3, <2>4
  <2> QED
    BY <1>2, <2>1, <2>2, <2>5
<1>3. CASE job[c].op = "clear"
  <2>1. new = <<>> /\ ~Adds(c)
    BY <1>3 DEF Becomes, Adds
  <2> QED
    BY <1>3, <2>1, EmptySound DEF Sound
<1> QED
  BY <1>1, <1>2, <1>3 DEF Adds
-----------------------------------------------------------------------------
(* Steps without s.mu, or that only read under it.                         *)

\* A clipboard that was never used.
LEMMA KeptInit == Init => Kept
<1> SUFFICES ASSUME Init PROVE Kept
  OBVIOUS
<1>1. /\ \A c \in Client : pc[c] = "idle" /\ job[c] = NoJob /\ answer[c] = "none"
      /\ history = <<>> /\ entries = <<>> /\ snapshot = <<>> /\ process = "up"
      /\ thumbs = {} /\ images = {} /\ scraps = {} /\ told = {} /\ gone = {} /\ fresh = Id
  BY DEF Init
<1>2. Sound(history) /\ Ids(history) = {} /\ ImageIds(history) = {} /\ history \in Seq(Entry)
  BY <1>1, EmptySound
<1>3. NoJob \in Job /\ NoJob.op = "none"
  BY EmptySound DEF NoJob, Job, Op
<1>4. TypeOK
  BY <1>1, <1>2, <1>3 DEF Init, TypeOK, Pc, Kind
<1>5. \A c \in Client : Role(c) /\ Planned(c) /\ Committed(c) /\ Opened(c) /\ ~Drawn(c) /\ ~Placed(c)
  BY <1>1, <1>3 DEF Role, Planned, Committed, Opened, Drawn, Planning, Committing, Writing, Placed, Adds
<1>6. Alone /\ OwnId /\ Agreed /\ Stored /\ Accounted /\ Pictured /\ ToldDurable
  BY <1>1, <1>2, <1>5 DEF Alone, OwnId, Agreed, Stored, Accounted, Pictured, ToldDurable, Used, Writing,
     Committing
<1> QED
  BY <1>2, <1>4, <1>5, <1>6 DEF Kept

\* While nobody writes, memory is what is on disk.
LEMMA Reading ==
  ASSUME Kept, process = "up", MuReadable
  PROVE  entries = history /\ snapshot = history
  BY DEF Kept, Agreed, MuReadable, Writing

\* A goroutine is at work in a process that runs.
LEMMA Running == ASSUME Kept, NEW c \in Client, pc[c] # "idle" PROVE process = "up"
  BY DEF Kept, Agreed, TypeOK

\* The step of one goroutine outside s.mu: the disk and the list stay what they are, and at most
\* the thumbnail of a listed image is added.
LEMMA QuietStep ==
  ASSUME Kept, process = "up", NEW c \in Client, pc[c] \notin Writing,
         NEW p \in Pc \ Writing, pc' = [pc EXCEPT ![c] = p],
         job' \in [Client -> Job], answer' \in [Client -> Kind],
         \A d \in Client \ {c} : job'[d] = job[d] /\ answer'[d] = answer[d],
         UNCHANGED <<entries, snapshot, history, images, scraps, process, gone>>,
         fresh' \subseteq fresh, told' \subseteq told \cup Ids(history), told' \subseteq Id,
         thumbs' \subseteq thumbs \cup ImageIds(history), thumbs' \subseteq Id,
         Role(c)',
         p = "opening" => MuReadable /\ job'[c].id \in ImageIds(history),
         job'[c].op \in {"open", "thumb"} => answer'[c] # "failed",
         Drawn(c)' => (Drawn(c) /\ job'[c].id = job[c].id) \/ (job'[c].id \in fresh \ fresh')
  PROVE  Kept'
<1>1. \A d \in Client : d # c => pc'[d] = pc[d] /\ job'[d] = job[d] /\ answer'[d] = answer[d]
  BY DEF Kept, TypeOK
<1>2. pc'[c] = p /\ pc'[c] \notin Writing /\ pc' \in [Client -> Pc]
  BY DEF Kept, TypeOK
<1>3. TypeOK'
  BY <1>2 DEF Kept, TypeOK
<1>4. Sound(history)'
  BY DEF Kept
<1>5. Alone'
  BY <1>1, <1>2 DEF Kept, Alone, MuReadable, Writing
<1>6. \A d \in Client : d # c => (Drawn(d)' <=> Drawn(d))
  BY <1>1 DEF Drawn, Adds
<1>7. OwnId'
  BY <1>1, <1>6 DEF Kept, OwnId, Used
<1>8. \A d \in Client : pc'[d] \in Writing <=> pc[d] \in Writing
  BY <1>1, <1>2
<1>9. Agreed'
  BY <1>1, <1>2 DEF Kept, Agreed, Writing
<1>10. \A d \in Client : d # c => (Placed(d)' <=> Placed(d)) /\ Extra(d)' = Extra(d)
  BY <1>1 DEF Placed, Extra, Committing
<1>11. ~Placed(c)'
  BY <1>2 DEF Placed, Writing
<1>12. Stored'
  BY <1>1, <1>10, <1>11 DEF Kept, Stored
<1>13. Accounted'
  BY <1>1, <1>2, <1>8, <1>10 DEF Kept, Accounted, MuReadable
<1>14. Pictured'
  BY <1>1, <1>2 DEF Kept, Pictured, Committing, Writing
<1>15. ToldDurable'
  BY DEF Kept, ToldDurable
<1>16. ASSUME NEW d \in Client, d # c PROVE (Role(d) /\ Planned(d) /\ Committed(d) /\ Opened(d))'
  <2>1. Role(d) /\ Planned(d) /\ Committed(d) /\ Opened(d)
    BY DEF Kept
  <2>2. pc'[d] = pc[d] /\ job'[d] = job[d] /\ answer'[d] = answer[d] /\ history' = history
    BY <1>1, <1>16
  <2>3. Role(d)' /\ Opened(d)'
    BY <2>1, <2>2 DEF Role, Opened
  <2>4. Planned(d)' /\ Committed(d)'
    BY <2>1, <2>2 DEF Planned, Committed, Becomes, Added, Adds
  <2> QED
    BY <2>3, <2>4
<1>17. (Planned(c) /\ Committed(c) /\ Opened(c))'
  BY <1>2 DEF Planned, Committed, Opened, Planning, Committing, Writing
<1> QED
  BY <1>3, <1>4, <1>5, <1>7, <1>9, <1>12, <1>13, <1>14, <1>15, <1>16, <1>17 DEF Kept

\* A request arrives, and an id is drawn for a text.
LEMMA RequestKeeps == ASSUME Kept, NEW c \in Client, Request(c) PROVE Kept'
<1>1. /\ process = "up" /\ pc[c] = "idle" /\ answer[c] = "none"
      /\ UNCHANGED <<entries, snapshot, thumbs, history, images, scraps, process, told, gone>>
  BY DEF Request, Memory, Disk, Ghost, Kept, Role
<1>2. job \in [Client -> Job] /\ answer \in [Client -> Kind] /\ pc \in [Client -> Pc] /\ fresh \subseteq Id
      /\ told \subseteq Id /\ thumbs \subseteq Id
  BY DEF Kept, TypeOK
<1>3. NoJob \in Job /\ NoJob.op = "none" /\ NoJob.size = 0
  BY EmptySound DEF NoJob, Job, Op
<1> DEFINE Received(j, p, f) ==
      /\ job' = [job EXCEPT ![c] = j] /\ pc' = [pc EXCEPT ![c] = p] /\ answer' = answer /\ fresh' = f
<1>4. ASSUME NEW j \in Job, NEW p \in Pc \ Writing, NEW f \in SUBSET fresh, Received(j, p, f),
             p \in {"lock", "decode", "open", "look", "list"}, j.size = 0,
             p = "lock" => j.op \in {"text", "delete", "clear"},
             p = "decode" => j.op = "image", p = "open" => j.op = "open", p = "look" => j.op = "thumb",
             p = "list" => j.op = "list",
             j.op \in {"text", "delete", "open", "thumb"} => j.id \in Id,
             j.op = "text" => j.id \in fresh \ f
      PROVE  Kept'
  <2>1. /\ job' \in [Client -> Job] /\ job'[c] = j /\ answer'[c] = "none" /\ pc'[c] = p
        /\ \A d \in Client \ {c} : job'[d] = job[d] /\ answer'[d] = answer[d]
    BY <1>1, <1>2, <1>4
  <2>2. Role(c)'
    BY <1>4, <2>1 DEF Role, Writing, Committing
  <2>3. Drawn(c)' => job'[c].id \in fresh \ fresh'
    BY <1>4, <2>1 DEF Drawn, Planning, Adds
  <2>4. pc[c] \notin Writing
    BY <1>1 DEF Writing
  <2> QED
    BY <1>1, <1>2, <1>4, <2>1, <2>2, <2>3, <2>4, QuietStep
<1>5. ASSUME job' = job, fresh' = fresh, pc' = [pc EXCEPT ![c] = "done"],
             NEW a \in Kind \ {"failed"}, answer' = [answer EXCEPT ![c] = a]
      PROVE  Kept'
  <2>1. job'[c] = job[c] /\ answer'[c] = a /\ pc'[c] = "done" /\ answer' \in [Client -> Kind]
    BY <1>2, <1>5
  <2>2. Role(c)'
    BY <1>1, <2>1 DEF Role, Writing, Committing, Kept
  <2>3. ~Drawn(c)'
    BY <2>1 DEF Drawn, Planning
  <2>4. pc[c] \notin Writing /\ "done" \in Pc \ Writing
    BY <1>1 DEF Writing, Pc
  <2> QED
    BY <1>1, <1>2, <1>5, <2>1, <2>2, <2>3, <2>4, QuietStep
<1>6. CASE \E i \in fresh :
             Received([NoJob EXCEPT !.op = "text", !.id = i], "lock", fresh \ {i})
  <2>1. PICK i \in fresh : Received([NoJob EXCEPT !.op = "text", !.id = i], "lock", fresh \ {i})
    BY <1>6
  <2> DEFINE j == [NoJob EXCEPT !.op = "text", !.id = i]
             f == fresh \ {i}
  <2>2. j \in Job /\ j.op = "text" /\ j.id = i /\ j.size = 0
    BY <1>2, <1>3 DEF Job, Op
  <2>3. f \in SUBSET fresh /\ i \in fresh \ f /\ i \in Id
    BY <1>2
  <2>4. Received(j, "lock", f)
    BY <2>1
  <2> HIDE DEF j, f
  <2>5. "lock" \in Pc \ Writing
    BY DEF Pc, Writing
  <2> QED
    BY <1>4, <2>2, <2>3, <2>4, <2>5
<1>7. CASE Received([NoJob EXCEPT !.op = "image"], "decode", fresh)
  <2> DEFINE j == [NoJob EXCEPT !.op = "image"]
  <2>1. j \in Job /\ j.op = "image" /\ j.size = 0
    BY <1>3 DEF Job, Op
  <2> HIDE DEF j
  <2>2. "decode" \in Pc \ Writing
    BY DEF Pc, Writing
  <2> QED
    BY <1>4, <1>7, <2>1, <2>2 DEF j
<1>8. CASE \E i \in Id \ fresh, op \in {"delete", "open", "thumb"} :
             Received([NoJob EXCEPT !.op = op, !.id = i],
                      CASE op = "delete" -> "lock" [] op = "open" -> "open" [] OTHER -> "look", fresh)
  <2>1. PICK i \in Id \ fresh, op \in {"delete", "open", "thumb"} :
             Received([NoJob EXCEPT !.op = op, !.id = i],
                      CASE op = "delete" -> "lock" [] op = "open" -> "open" [] OTHER -> "look", fresh)
    BY <1>8
  <2> DEFINE j == [NoJob EXCEPT !.op = op, !.id = i]
             p == CASE op = "delete" -> "lock" [] op = "open" -> "open" [] OTHER -> "look"
  <2>2. j \in Job /\ j.op = op /\ j.id = i /\ j.size = 0
    BY <1>3 DEF Job, Op
  <2>3. /\ p \in {"lock", "open", "look"} /\ (p = "lock" => op = "delete")
        /\ (p = "open" => op = "open") /\ (p = "look" => op = "thumb")
    OBVIOUS
  <2>4. Received(j, p, fresh)
    BY <2>1
  <2> HIDE DEF j, p
  <2>5. p \in Pc \ Writing
    BY <2>3 DEF Pc, Writing
  <2> QED
    BY <1>4, <2>2, <2>3, <2>4, <2>5
<1>9. CASE \E op \in {"clear", "list"} :
             Received([NoJob EXCEPT !.op = op], IF op = "clear" THEN "lock" ELSE "list", fresh)
  <2>1. PICK op \in {"clear", "list"} :
             Received([NoJob EXCEPT !.op = op], IF op = "clear" THEN "lock" ELSE "list", fresh)
    BY <1>9
  <2> DEFINE j == [NoJob EXCEPT !.op = op]
             p == IF op = "clear" THEN "lock" ELSE "list"
  <2>2. j \in Job /\ j.op = op /\ j.size = 0
    BY <1>3 DEF Job, Op
  <2>3. p \in {"lock", "list"} /\ (p = "lock" => op = "clear") /\ (p = "list" => op = "list")
    OBVIOUS
  <2>4. Received(j, p, fresh)
    BY <2>1
  <2> HIDE DEF j, p
  <2>5. p \in Pc \ Writing
    BY <2>3 DEF Pc, Writing
  <2> QED
    BY <1>4, <2>2, <2>3, <2>4, <2>5
<1>10. "busy" \in Kind \ {"failed"} /\ "invalid" \in Kind \ {"failed"}
  BY DEF Kind
<1> QED
  <2>1. CASE Answer(c, "invalid") /\ UNCHANGED <<job, fresh>>
    BY <1>5, <1>10, <2>1 DEF Answer, Goto
  <2>2. CASE Answer(c, "busy") /\ UNCHANGED <<job, fresh>>
    BY <1>5, <1>10, <2>2 DEF Answer, Goto
  <2> HIDE DEF Received
  <2>3. \/ <1>6!1 \/ <1>7!1 \/ <1>8!1 \/ <1>9!1
        \/ Answer(c, "invalid") /\ UNCHANGED <<job, fresh>>
        \/ Answer(c, "busy") /\ UNCHANGED <<job, fresh>>
    BY DEF Request, Goto, Received
  <2> QED
    BY <1>6, <1>7, <1>8, <1>9, <2>1, <2>2, <2>3
\* An answer outside s.mu, with nothing else done, is no failure unless the request was a change.
LEMMA AnswerKeeps ==
  ASSUME Kept, NEW c \in Client, pc[c] \notin Writing \cup {"idle"}, NEW a \in Kind, Answer(c, a),
         a # "failed" \/ job[c].op \notin {"open", "thumb"},
         UNCHANGED <<job, fresh, entries, snapshot, history, images, scraps, process, gone>>,
         told' \subseteq told \cup Ids(history), told' \subseteq Id,
         thumbs' \subseteq thumbs \cup ImageIds(history), thumbs' \subseteq Id
  PROVE  Kept'
<1>1. process = "up"
  BY Running
<1>2. job \in [Client -> Job] /\ answer \in [Client -> Kind] /\ Role(c)
  BY DEF Kept, TypeOK
<1>3. /\ pc' = [pc EXCEPT ![c] = "done"] /\ answer' = [answer EXCEPT ![c] = a]
      /\ answer'[c] = a /\ answer' \in [Client -> Kind]
      /\ \A d \in Client \ {c} : job'[d] = job[d] /\ answer'[d] = answer[d]
  BY <1>2 DEF Answer, Goto
<1>4. pc'[c] = "done" /\ "done" \in Pc \ Writing
  BY <1>3 DEF Kept, TypeOK, Pc, Writing
<1>5. Role(c)'
  BY <1>2, <1>4 DEF Role, Writing, Committing
<1>6. ~Drawn(c)'
  BY <1>4 DEF Drawn, Planning
<1> QED
  BY <1>1, <1>2, <1>3, <1>4, <1>5, <1>6, QuietStep

\* A step of a reader to p that leaves everything but its place alone.
LEMMA MoveKeeps ==
  ASSUME Kept, NEW c \in Client, pc[c] \in {"open", "look", "queue", "again", "opening"},
         NEW p \in {"open", "opening", "queue", "again", "render"}, Goto(c, p),
         p \notin {"open", "opening"} => job[c].op = "thumb",
         p = "opening" => MuReadable /\ job[c].id \in ImageIds(history),
         UNCHANGED <<job, answer, fresh, Memory, Disk, process, Ghost>>
  PROVE  Kept'
<1>1. process = "up"
  BY Running
<1>2. /\ job \in [Client -> Job] /\ answer \in [Client -> Kind] /\ Role(c) /\ Opened(c)
      /\ told \subseteq Id /\ thumbs \subseteq Id
  BY DEF Kept, TypeOK
<1>3. /\ pc' = [pc EXCEPT ![c] = p] /\ pc'[c] = p /\ pc[c] \notin Writing /\ p \in Pc \ Writing
  BY DEF Goto, Kept, TypeOK, Pc, Writing
<1>4. job[c].op \in {"open", "thumb"}
  BY <1>2 DEF Role
<1>5. Role(c)'
  BY <1>2, <1>3, <1>4 DEF Role, Writing, Committing
<1>6. ~Drawn(c)'
  BY <1>3 DEF Drawn, Planning
<1>7. UNCHANGED <<job, answer, fresh, entries, snapshot, thumbs, history, images, scraps, process, told, gone>>
  BY DEF Memory, Disk, Ghost
<1>8. job'[c].op \in {"open", "thumb"} => answer'[c] # "failed"
  BY <1>2, <1>7 DEF Opened
<1> QED
  BY <1>1, <1>2, <1>3, <1>5, <1>6, <1>7, <1>8, QuietStep

\* The answer is sent, and the goroutine is free for the next request.
LEMMA RespondKeeps == ASSUME Kept, NEW c \in Client, Respond(c) PROVE Kept'
<1>1. /\ pc[c] = "done" /\ pc' = [pc EXCEPT ![c] = "idle"]
      /\ job' = [job EXCEPT ![c] = NoJob] /\ answer' = [answer EXCEPT ![c] = "none"]
      /\ UNCHANGED <<fresh, entries, snapshot, thumbs, history, images, scraps, process, told, gone>>
  BY DEF Respond, Goto, Memory, Disk, Ghost
<1>2. process = "up"
  BY <1>1, Running
<1>3. NoJob \in Job /\ NoJob.op = "none" /\ "none" \in Kind
  BY EmptySound DEF NoJob, Job, Op, Kind
<1>4. job \in [Client -> Job] /\ answer \in [Client -> Kind] /\ pc \in [Client -> Pc]
      /\ told \subseteq Id /\ thumbs \subseteq Id
  BY DEF Kept, TypeOK
<1>5. /\ job' \in [Client -> Job] /\ job'[c] = NoJob /\ answer' \in [Client -> Kind] /\ answer'[c] = "none"
      /\ \A d \in Client \ {c} : job'[d] = job[d] /\ answer'[d] = answer[d]
  BY <1>1, <1>3, <1>4
<1>6. pc'[c] = "idle" /\ "idle" \in Pc \ Writing /\ pc[c] \notin Writing
  BY <1>1, <1>4 DEF Pc, Writing
<1>7. Role(c)'
  BY <1>3, <1>5, <1>6 DEF Role, Writing, Committing
<1>8. ~Drawn(c)'
  BY <1>6 DEF Drawn, Planning
<1> QED
  BY <1>1, <1>2, <1>3, <1>4, <1>5, <1>6, <1>7, <1>8, QuietStep

\* An image is decoded, and an id is drawn for it.
LEMMA DecodeKeeps == ASSUME Kept, NEW c \in Client, Decode(c) PROVE Kept'
<1>1. /\ pc[c] = "decode" /\ process = "up" /\ job[c].op = "image" /\ answer[c] = "none"
      /\ UNCHANGED <<entries, snapshot, thumbs, history, images, scraps, process, told, gone>>
  <2>1. pc[c] = "decode" /\ Role(c)
    BY DEF Decode, Kept
  <2> QED
    BY <2>1, Running DEF Decode, Memory, Disk, Ghost, Role
<1>2. job \in [Client -> Job] /\ answer \in [Client -> Kind] /\ pc \in [Client -> Pc] /\ fresh \subseteq Id
      /\ told \subseteq Id /\ thumbs \subseteq Id
  BY DEF Kept, TypeOK
<1>3. CASE Answer(c, "invalid") /\ UNCHANGED <<job, fresh>>
  BY <1>1, <1>2, <1>3, AnswerKeeps DEF Writing, Kind
<1>4. ASSUME NEW i \in fresh, NEW z \in Size, job' = [job EXCEPT ![c].id = i, ![c].size = z],
             fresh' = fresh \ {i}, Goto(c, "lock"), UNCHANGED answer
      PROVE  Kept'
  <2>1. pc' = [pc EXCEPT ![c] = "lock"] /\ pc'[c] = "lock" /\ "lock" \in Pc \ Writing /\ pc[c] \notin Writing
    BY <1>1, <1>2, <1>4 DEF Goto, Pc, Writing
  <2>2. /\ job'[c] = [job[c] EXCEPT !.id = i, !.size = z]
        /\ \A d \in Client \ {c} : job'[d] = job[d]
    BY <1>2, <1>4
  <2> DEFINE j == [job[c] EXCEPT !.id = i]
             k == [j EXCEPT !.size = z]
  <2>3. j \in Job /\ j.id = i /\ j.op = "image"
    BY <1>1, <1>2 DEF Job
  <2>4. job'[c] = k
    BY <2>2
  <2> HIDE DEF j
  <2>5. k \in Job /\ k.id = i /\ k.op = "image"
    BY <2>3 DEF Job
  <2> HIDE DEF k
  <2>6. job' \in [Client -> Job]
    <3>1. job' = [d \in Client |-> job'[d]]
      BY <1>2, <1>4
    <3> QED
      BY <1>2, <2>2, <2>4, <2>5, <3>1
  <2>7. Role(c)'
    BY <1>1, <1>2, <1>4, <2>1, <2>4, <2>5 DEF Role, Writing, Committing
  <2>8. job'[c].id \in fresh \ fresh'
    BY <1>4, <2>4, <2>5
  <2> QED
    BY <1>1, <1>2, <1>4, <2>1, <2>2, <2>4, <2>5, <2>6, <2>7, <2>8, QuietStep
<1> QED
  BY <1>3, <1>4 DEF Decode

\* The list a client gets is the one on disk.
LEMMA ListKeeps == ASSUME Kept, NEW c \in Client, List(c) PROVE Kept'
<1>1. /\ pc[c] = "list" /\ MuReadable /\ Answer(c, "listed") /\ told' = told \cup Ids(snapshot)
      /\ UNCHANGED <<job, fresh, entries, snapshot, thumbs, history, images, scraps, process, gone>>
  BY DEF List, Memory, Disk
<1>2. process = "up"
  BY <1>1, Running
<1>3. snapshot = history
  BY <1>1, <1>2, Reading
<1>4. told' \subseteq Id /\ thumbs \subseteq Id
  <2>1. \A e \in Entry : e.id \in Id
    BY DEF Entry
  <2>2. Ids(snapshot) \subseteq Id
    BY <2>1 DEF Kept, TypeOK, Ids
  <2> QED
    BY <1>1, <2>2 DEF Kept, TypeOK
<1> QED
  BY <1>1, <1>3, <1>4, AnswerKeeps DEF Writing, Kind

\* OpenImage finds the entry,
LEMMA OpenFindKeeps == ASSUME Kept, NEW c \in Client, OpenFind(c) PROVE Kept'
<1>1. pc[c] = "open" /\ MuReadable /\ told \subseteq Id /\ thumbs \subseteq Id
  BY DEF OpenFind, Kept, TypeOK
<1>2. UNCHANGED <<job, fresh, Memory, Disk, process, Ghost>>
  BY DEF OpenFind
<1>3. UNCHANGED <<job, fresh, entries, snapshot, thumbs, history, images, scraps, process, told, gone>>
  BY <1>2 DEF Memory, Disk, Ghost
<1>4. entries = history
  BY <1>1, Running, Reading
<1>5. CASE job[c].id \in ImageIds(entries)
  <2>1. Goto(c, "opening") /\ UNCHANGED answer
    BY <1>5 DEF OpenFind, StillListed
  <2> QED
    BY <1>1, <1>2, <1>4, <1>5, <2>1, MoveKeeps
<1>6. CASE job[c].id \notin ImageIds(entries)
  <2>1. Answer(c, "notfound")
    BY <1>6 DEF OpenFind, StillListed
  <2> QED
    BY <1>1, <1>3, <2>1, AnswerKeeps DEF Writing, Kind
<1> QED
  BY <1>5, <1>6

\* ... and its file is there.
LEMMA OpenFileKeeps == ASSUME Kept, NEW c \in Client, OpenFile(c) PROVE Kept'
<1>1. pc[c] = "opening" /\ told \subseteq Id /\ thumbs \subseteq Id
  BY DEF OpenFile, Kept, TypeOK
<1>2. UNCHANGED <<job, fresh, Memory, Disk, process, Ghost>>
  BY DEF OpenFile
<1>3. UNCHANGED <<job, fresh, entries, snapshot, thumbs, history, images, scraps, process, told, gone>>
  BY <1>2 DEF Memory, Disk, Ghost
<1>4. job[c].id \in images
  BY <1>1 DEF Kept, Opened, Stored
<1>5. CASE job[c].op = "thumb"
  <2>1. Goto(c, "render") /\ UNCHANGED answer
    BY <1>4, <1>5 DEF OpenFile
  <2> QED
    BY <1>1, <1>2, <1>5, <2>1, MoveKeeps
<1>6. CASE job[c].op # "thumb"
  <2>1. Answer(c, "picture")
    BY <1>4, <1>6 DEF OpenFile
  <2> QED
    BY <1>1, <1>3, <2>1, AnswerKeeps DEF Writing, Kind
<1> QED
  BY <1>5, <1>6

\* A thumbnail is looked up, waited for and made.
LEMMA ThumbnailKeeps == ASSUME Kept, NEW c \in Client, Thumbnail(c) PROVE Kept'
<1>1. told \subseteq Id /\ thumbs \subseteq Id /\ Role(c)
  BY DEF Kept, TypeOK
<1>2. CASE ThumbnailLook(c)
  <2>1. pc[c] = "look" /\ UNCHANGED <<job, fresh, Memory, Disk, process, Ghost>>
    BY <1>2 DEF ThumbnailLook
  <2>2. CASE Answer(c, "picture")
    BY <1>1, <2>1, <2>2, AnswerKeeps DEF Writing, Kind, Memory, Disk, Ghost
  <2>3. CASE Goto(c, "queue") /\ UNCHANGED answer
    BY <1>1, <2>1, <2>3, MoveKeeps DEF Role
  <2> QED
    BY <1>2, <2>2, <2>3 DEF ThumbnailLook
<1>3. CASE ThumbnailQueue(c)
  BY <1>1, <1>3, MoveKeeps DEF ThumbnailQueue, Role
<1>4. CASE ThumbnailAgain(c)
  <2>1. pc[c] = "again" /\ UNCHANGED <<job, fresh, Memory, Disk, process, Ghost>>
    BY <1>4 DEF ThumbnailAgain
  <2>2. CASE Answer(c, "picture")
    BY <1>1, <2>1, <2>2, AnswerKeeps DEF Writing, Kind, Memory, Disk, Ghost
  <2>3. CASE Answer(c, "busy")
    BY <1>1, <2>1, <2>3, AnswerKeeps DEF Writing, Kind, Memory, Disk, Ghost
  <2>4. CASE Goto(c, "open") /\ UNCHANGED answer
    BY <1>1, <2>1, <2>4, MoveKeeps DEF Role
  <2> QED
    BY <1>4, <2>2, <2>3, <2>4 DEF ThumbnailAgain
<1>5. CASE ThumbnailStore(c)
  <2>1. /\ pc[c] = "render" /\ MuReadable
        /\ UNCHANGED <<job, fresh, entries, snapshot, history, images, scraps, process, told, gone>>
    BY <1>5 DEF ThumbnailStore, Disk, Ghost, MuFree, MuReadable
  <2>2. entries = history
    BY <2>1, Running, Reading
  <2>3. ImageIds(history) \subseteq Id
    BY DEF Kept, Stored, TypeOK
  <2>4. CASE job[c].id \in ImageIds(history)
    <3>1. thumbs' = thumbs \cup {job[c].id} /\ Answer(c, "picture")
      BY <1>5, <2>2, <2>4 DEF ThumbnailStore, StillListed
    <3> QED
      BY <1>1, <2>1, <2>3, <2>4, <3>1, AnswerKeeps DEF Writing, Kind
  <2>5. CASE job[c].id \notin ImageIds(history)
    <3>1. Answer(c, "notfound") /\ thumbs' = thumbs
      BY <1>5, <2>2, <2>5 DEF ThumbnailStore, StillListed
    <3> QED
      BY <1>1, <2>1, <3>1, AnswerKeeps DEF Writing, Kind
  <2> QED
    BY <2>4, <2>5
<1> QED
  BY <1>2, <1>3, <1>4, <1>5 DEF Thumbnail
-----------------------------------------------------------------------------
(* Steps of whoever holds s.mu for writing.                                *)

\* c is alone with s.mu.
Sole(c) == \A d \in Client \ {c} : pc[d] \notin Writing \cup {"opening"}

\* The step of a writer: it brings the disk, the memory and its own plan from one of the states
\* between which the process may die to the next one.
LEMMA WriterStep ==
  ASSUME Kept, process = "up", NEW c \in Client, Sole(c),
         NEW p \in Pc \ {"opening"}, pc' = [pc EXCEPT ![c] = p],
         TypeOK', UNCHANGED <<fresh, process>>,
         \A d \in Client \ {c} : job'[d] = job[d] /\ answer'[d] = answer[d],
         Sound(history)', Role(c)', Planned(c)', Committed(c)',
         job'[c].op \notin {"open", "thumb"},
         Drawn(c)' => Drawn(c) /\ job'[c].id = job[c].id /\ job'[c].id \notin Used',
         Used' \subseteq Used \cup (IF Drawn(c) THEN {job[c].id} ELSE {}),
         snapshot' = entries', p # "memory" => entries' = history',
         ImageIds(history') \subseteq images', Placed(c)' => job'[c].id \in images',
         "remove" \notin Faults => images' = ImageIds(history') \cup Extra(c)'
                                   /\ scraps' = IF p = "place" THEN {job'[c].id} ELSE {},
         thumbs' \subseteq ImageIds(history') \cup (IF p \in Committing THEN job'[c].drop ELSE {}),
         ToldDurable'
  PROVE  Kept'
<1>1. \A d \in Client : d # c => pc'[d] = pc[d] /\ job'[d] = job[d] /\ answer'[d] = answer[d]
  BY DEF Kept, TypeOK
<1>2. pc'[c] = p /\ p # "opening"
  BY DEF Kept, TypeOK
<1>3. \A d \in Client : d # c => pc'[d] \notin Writing \cup {"opening"}
  BY <1>1 DEF Sole
<1>4. Alone'
  BY <1>2, <1>3 DEF Alone
<1>5. \A d \in Client : d # c => (Drawn(d)' <=> Drawn(d))
  BY <1>1 DEF Drawn, Adds
<1>6. OwnId'
  <2>1. fresh' \cap Used' = {}
    BY DEF Kept, OwnId
  <2>2. \A d \in Client : Drawn(d)' => job'[d].id \notin fresh' \cup Used'
    BY <1>1, <1>5 DEF Kept, OwnId
  <2>3. \A d, e \in Client : d # e /\ Drawn(d)' /\ Drawn(e)' => job'[d].id # job'[e].id
    BY <1>1, <1>5 DEF Kept, OwnId
  <2> QED
    BY <2>1, <2>2, <2>3 DEF OwnId
<1>7. Agreed'
  BY <1>2 DEF Agreed
<1>8. \A d \in Client : d # c => ~Placed(d)'
  BY <1>3 DEF Placed, Writing
<1>9. Stored'
  BY <1>8 DEF Stored
<1>10. p \notin Writing => Extra(c)' = {} /\ p # "place"
  BY <1>2 DEF Extra, Placed, Committing, Writing
<1>11. Accounted'
  BY <1>2, <1>3, <1>10 DEF Accounted, MuReadable
<1>12. Pictured'
  BY <1>2, <1>3 DEF Pictured, Committing, Writing
<1>13. ASSUME NEW d \in Client, d # c PROVE (Role(d) /\ Planned(d) /\ Committed(d) /\ Opened(d))'
  <2>1. Role(d) /\ Opened(d)
    BY DEF Kept
  <2>2. pc'[d] = pc[d] /\ job'[d] = job[d] /\ answer'[d] = answer[d] /\ pc'[d] \notin Writing \cup {"opening"}
    BY <1>1, <1>3, <1>13
  <2>3. Role(d)' /\ Opened(d)'
    BY <2>1, <2>2 DEF Role, Opened
  <2> QED
    BY <2>2, <2>3 DEF Planned, Committed, Planning, Committing, Writing
<1>14. Opened(c)'
  BY <1>2 DEF Opened
<1> QED
  BY <1>4, <1>6, <1>7, <1>9, <1>11, <1>12, <1>13, <1>14 DEF Kept

\* Images are those of entries.
LEMMA ImagesAreIds ==
  \A list \in Seq(Entry) : ImageIds(list) \subseteq Ids(list) /\ Ids(list) \subseteq Id
<1>1. \A e \in Entry : e.id \in Id
  BY DEF Entry
<1>2. ASSUME NEW list \in Seq(Entry), NEW i \in 1 .. Len(list) PROVE list[i] \in Entry
  OBVIOUS
<1> QED
  BY <1>1, <1>2 DEF ImageIds, Ids

\* What is true of whoever holds s.mu for writing.
LEMMA Writer ==
  ASSUME Kept, NEW c \in Client, pc[c] \in Writing
  PROVE  /\ process = "up" /\ Sole(c) /\ TypeOK /\ job[c] \in Job
         /\ job[c].op \in {"text", "image", "delete", "clear"}
         /\ Sound(history) /\ Role(c) /\ Planned(c) /\ Committed(c) /\ ToldDurable
         /\ answer[c] = "none"
         /\ Drawn(c) => job[c].id \notin Used
         /\ snapshot = entries /\ (pc[c] # "memory" => entries = history)
         /\ ImageIds(history) \subseteq images /\ (Placed(c) => job[c].id \in images)
         /\ "remove" \notin Faults => images = ImageIds(history) \cup Extra(c)
                                   /\ scraps = IF pc[c] = "place" THEN {job[c].id} ELSE {}
         /\ thumbs \subseteq ImageIds(history) \cup (IF pc[c] \in Committing THEN job[c].drop ELSE {})
<1>1. process = "up"
  BY Running DEF Writing
<1>2. Sole(c)
  BY DEF Kept, Alone, Sole
<1>3. job[c] \in Job
  BY DEF Kept, TypeOK
<1>4. job[c].op \in {"text", "image", "delete", "clear"}
  BY DEF Kept, Role, Writing, Committing
<1>5. answer[c] = "none"
  BY DEF Kept, Role, Writing
<1>6. snapshot = entries /\ (pc[c] # "memory" => entries = history)
  BY <1>1, <1>2 DEF Kept, Agreed, Sole, Writing
<1>7. thumbs \subseteq ImageIds(history) \cup (IF pc[c] \in Committing THEN job[c].drop ELSE {})
  BY <1>2 DEF Kept, Pictured, Sole, Writing, Committing
<1>8. "remove" \notin Faults => images = ImageIds(history) \cup Extra(c)
                                /\ scraps = IF pc[c] = "place" THEN {job[c].id} ELSE {}
  BY <1>1 DEF Kept, Accounted
<1>9. Drawn(c) => job[c].id \notin Used
  BY DEF Kept, OwnId
<1> QED
  BY <1>1, <1>2, <1>3, <1>4, <1>5, <1>6, <1>7, <1>8, <1>9 DEF Kept, Stored

\* A change is planned, under the lock: what it makes of the list on disk.
LEMMA ChangeKeeps ==
  ASSUME Kept, NEW c \in Client, pc[c] = "lock", MuFree,
         NEW next, next = Becomes(c, history), Total(next) <= MaxTotal,
         NEW p, p = IF job[c].op = "image" THEN "draft" ELSE "save", Change(c, next, p),
         job[c].op = "delete" => job[c].id \in Ids(history),
         UNCHANGED <<fresh, Memory, Disk, process, Ghost>>
  PROVE  Kept'
<1>1. process = "up" /\ MuReadable /\ Sole(c)
  BY Running DEF MuFree, MuReadable, Sole
<1>2. entries = history /\ snapshot = history
  BY <1>1, Reading
<1>3. /\ Sound(history) /\ TypeOK /\ Role(c) /\ job \in [Client -> Job] /\ job[c] \in Job
      /\ job[c].op \in {"text", "image", "delete", "clear"}
      /\ answer[c] = "none"
  BY DEF Kept, TypeOK, Role
<1>4. Drawn(c) <=> Adds(c)
  BY DEF Drawn
<1>5. Adds(c) => job[c].id \in Id /\ job[c].id \notin Used
  BY <1>3, <1>4 DEF Kept, OwnId, Role, Adds
<1>6. next \in Seq(Entry)
  BY <1>3, <1>5, BecomesKeeps DEF Role, TypeOK, Used
<1> DEFINE drop == ImageIds(history) \ Ids(next)
           j == [job[c] EXCEPT !.next = next]
           k == [j EXCEPT !.drop = drop]
<1>7. drop \subseteq Id
  BY <1>3, ImagesAreIds DEF TypeOK
<1>8. /\ pc' = [pc EXCEPT ![c] = p] /\ pc'[c] = p /\ p \in Pc \ {"opening"} /\ pc' \in [Client -> Pc]
      /\ p \notin Committing /\ p # "place" /\ p \in {"save", "draft"}
  BY <1>3 DEF Change, Goto, TypeOK, Pc, Committing
<1>9. job' = [job EXCEPT ![c] = k] /\ answer' = answer
  BY <1>2 DEF Change
<1> HIDE DEF drop
<1>10. j \in Job /\ j.next = next /\ j.op = job[c].op /\ j.id = job[c].id /\ j.size = job[c].size
  BY <1>3, <1>6 DEF Job
<1> HIDE DEF j
<1>11. /\ k \in Job /\ k.next = next /\ k.drop = drop
       /\ k.op = job[c].op /\ k.id = job[c].id /\ k.size = job[c].size
  BY <1>7, <1>10 DEF Job
<1> HIDE DEF k
<1>12. job' \in [Client -> Job] /\ job'[c] = k /\ \A d \in Client \ {c} : job'[d] = job[d]
  BY <1>3, <1>9, <1>11
<1>13. UNCHANGED <<fresh, entries, snapshot, thumbs, history, images, scraps, process, told, gone>>
  BY DEF Memory, Disk, Ghost
<1>14. TypeOK'
  BY <1>3, <1>8, <1>9, <1>12, <1>13 DEF TypeOK
<1>15. Role(c)'
  BY <1>3, <1>8, <1>9, <1>11, <1>12 DEF Role, Writing, Committing
<1>16. Planned(c)'
  <2>1. Becomes(c, history)' = next
    BY <1>11, <1>12, <1>13 DEF Becomes, Added, Adds
  <2> QED
    BY <1>11, <1>12, <1>13, <2>1 DEF Planned, drop
<1>17. Committed(c)'
  BY <1>8 DEF Committed
<1>18. Drawn(c)' => Drawn(c) /\ job'[c].id = job[c].id /\ job'[c].id \notin Used'
  BY <1>4, <1>5, <1>11, <1>12, <1>13 DEF Drawn, Adds, Used
<1>19. ~Placed(c)' /\ Extra(c)' = {}
  BY <1>8, <1>11, <1>12 DEF Placed, Extra
<1>20. "remove" \notin Faults => images = ImageIds(history) /\ scraps = {}
  BY <1>1 DEF Kept, Accounted
<1>21. thumbs \subseteq ImageIds(history)
  BY <1>1 DEF Kept, Pictured, MuReadable, Writing, Committing
<1>22. Sound(history)' /\ ToldDurable' /\ ImageIds(history') \subseteq images' /\ Used' = Used
  BY <1>13 DEF Kept, ToldDurable, Stored, Used
<1>23. job'[c].op \notin {"open", "thumb"}
  BY <1>3, <1>11, <1>12
<1> QED
  BY <1>1, <1>2, <1>8, <1>9, <1>12, <1>13, <1>14, <1>15, <1>16, <1>17, <1>18, <1>19, <1>20, <1>21, <1>22,
     <1>23, WriterStep
\* What Create, CreateImage, Delete and Clear plan, or refuse.
LEMMA LockKeeps == ASSUME Kept, NEW c \in Client, Lock(c) PROVE Kept'
<1> DEFINE entry == [id |-> job[c].id, kind |-> job[c].op, size |-> job[c].size]
           added == Newest(entry, entries)
<1>1. pc[c] = "lock" /\ MuFree /\ MuReadable /\ UNCHANGED <<fresh, Memory, Disk, process, Ghost>>
  BY DEF Lock, MuFree, MuReadable
<1>2. entries = history
  BY <1>1, Running, Reading
<1>3. /\ Sound(history) /\ Role(c) /\ job \in [Client -> Job] /\ history \in Seq(Entry)
      /\ Adds(c) => job[c].id \in Id /\ job[c].id \notin Ids(history)
      /\ told \subseteq Id /\ thumbs \subseteq Id
  <2>1. Adds(c) => Drawn(c)
    BY <1>1 DEF Drawn
  <2> QED
    BY <1>1, <2>1 DEF Kept, TypeOK, Role, OwnId, Used, Adds
<1>4. Adds(c) => added = Becomes(c, history)
  BY <1>2 DEF Becomes, Added, Adds
<1>5. ASSUME job[c].op # "image", job[c].op = "delete" => job[c].id \in Ids(history)
      PROVE  Total(Becomes(c, history)) <= MaxTotal
  <2>1. job[c].op \in {"text", "delete", "clear"}
    BY <1>1, <1>3, <1>5 DEF Role
  <2> QED
    BY <1>3, <1>5, <2>1, BecomesKeeps DEF Role
<1>6. ASSUME NEW a \in {"quota", "notfound"}, Answer(c, a), UNCHANGED job PROVE Kept'
  <2>1. UNCHANGED <<job, fresh, entries, snapshot, thumbs, history, images, scraps, process, told, gone>>
    BY <1>1, <1>6 DEF Memory, Disk, Ghost
  <2> QED
    BY <1>1, <1>3, <1>6, <2>1, AnswerKeeps DEF Writing, Kind
<1>7. CASE job[c].op = "text" /\ Change(c, added, "save")
  BY <1>1, <1>3, <1>4, <1>5, <1>7, ChangeKeeps DEF Adds
<1>8. CASE job[c].op = "image" /\ WithinQuota(added) /\ Change(c, added, "draft")
  BY <1>1, <1>4, <1>8, ChangeKeeps DEF Adds, WithinQuota
<1>9. CASE /\ job[c].op = "delete" /\ job[c].id \in Ids(entries)
           /\ Change(c, Without(entries, job[c].id), "save")
  <2>1. Becomes(c, history) = Without(entries, job[c].id)
    BY <1>2, <1>9 DEF Becomes, Adds
  <2> QED
    BY <1>1, <1>2, <1>3, <1>5, <1>9, <2>1, ChangeKeeps
<1>10. CASE job[c].op = "clear" /\ Change(c, <<>>, "save")
  <2>1. Becomes(c, history) = <<>>
    BY <1>10 DEF Becomes, Adds
  <2> QED
    BY <1>1, <1>3, <1>5, <1>10, <2>1, ChangeKeeps
<1>11. CASE job[c].op = "image" /\ Answer(c, "quota") /\ UNCHANGED job
  BY <1>6, <1>11
<1>12. CASE job[c].op = "delete" /\ Answer(c, "notfound") /\ UNCHANGED job
  BY <1>6, <1>12
<1> QED
  BY <1>7, <1>8, <1>9, <1>10, <1>11, <1>12 DEF Lock

\* The image's temporary file.
LEMMA DraftKeeps == ASSUME Kept, NEW c \in Client, DraftImage(c) PROVE Kept'
<1>1. /\ pc[c] = "draft" /\ pc' = [pc EXCEPT ![c] = "place"] /\ scraps' = scraps \cup {job[c].id}
      /\ UNCHANGED <<job, answer, fresh, entries, snapshot, thumbs, history, images, process, told, gone>>
  BY DEF DraftImage, Goto, Memory, Ghost
<1>2. pc[c] \in Writing
  BY <1>1 DEF Writing
<1>3. /\ process = "up" /\ Sole(c) /\ TypeOK /\ Role(c) /\ Planned(c) /\ Sound(history) /\ ToldDurable
      /\ job[c].op = "image" /\ job[c].id \in Id /\ answer[c] = "none"
      /\ Drawn(c) => job[c].id \notin Used
      /\ snapshot = entries /\ entries = history /\ ImageIds(history) \subseteq images
      /\ "remove" \notin Faults => images = ImageIds(history) \cup Extra(c) /\ scraps = {}
      /\ thumbs \subseteq ImageIds(history)
  BY <1>1, <1>2, Writer DEF Role, Committing
<1>4. pc' \in [Client -> Pc] /\ pc'[c] = "place" /\ "place" \in Pc \ {"opening"}
  BY <1>1, <1>3 DEF TypeOK, Pc
<1>5. TypeOK'
  BY <1>1, <1>3, <1>4 DEF TypeOK
<1>6. Role(c)'
  BY <1>1, <1>3, <1>4 DEF Role, Writing, Committing
<1>7. Planned(c)' /\ Committed(c)'
  <2>1. Becomes(c, history)' = Becomes(c, history)
    BY <1>1 DEF Becomes, Added, Adds
  <2> QED
    BY <1>1, <1>3, <1>4, <2>1 DEF Planned, Committed, Planning, Committing
<1>8. Drawn(c) /\ Used' = Used
  BY <1>1, <1>3 DEF Drawn, Adds, Planning, Used
<1>9. ~Placed(c)' /\ Extra(c)' = {} /\ Extra(c) = {}
  BY <1>1, <1>4 DEF Placed, Extra, Committing
<1>10. Sound(history)' /\ ToldDurable'
  BY <1>1, <1>3 DEF ToldDurable
<1> QED
  BY <1>1, <1>3, <1>4, <1>5, <1>6, <1>7, <1>8, <1>9, <1>10, WriterStep DEF Committing

\* The image under its name, or gone again after an error.
LEMMA PlaceKeeps == ASSUME Kept, NEW c \in Client, PlaceImage(c) PROVE Kept'
<1>1. /\ pc[c] = "place" /\ scraps' \subseteq scraps
      /\ "remove" \notin Faults => scraps' = scraps \ {job[c].id}
      /\ UNCHANGED <<job, fresh, entries, snapshot, thumbs, history, process, told, gone>>
  BY DEF PlaceImage, Memory, Ghost
<1>2. pc[c] \in Writing
  BY <1>1 DEF Writing
<1>3. /\ process = "up" /\ Sole(c) /\ TypeOK /\ Role(c) /\ Planned(c) /\ Sound(history) /\ ToldDurable
      /\ job[c].op = "image" /\ job[c].id \in Id /\ answer[c] = "none"
      /\ Drawn(c) => job[c].id \notin Used
      /\ snapshot = entries /\ entries = history /\ ImageIds(history) \subseteq images
      /\ "remove" \notin Faults => images = ImageIds(history) \cup Extra(c) /\ scraps = {job[c].id}
      /\ thumbs \subseteq ImageIds(history)
  BY <1>1, <1>2, Writer DEF Role, Committing
<1>4. Extra(c) = {} /\ Drawn(c) /\ Used' = Used /\ Sound(history)' /\ ToldDurable'
  BY <1>1, <1>3 DEF Placed, Extra, Committing, Drawn, Adds, Planning, Used, ToldDurable
<1>5. CASE images' = images \cup {job[c].id} /\ Goto(c, "save") /\ UNCHANGED answer
  <2>1. /\ pc' = [pc EXCEPT ![c] = "save"] /\ pc' \in [Client -> Pc] /\ pc'[c] = "save"
        /\ "save" \in Pc \ {"opening"}
    BY <1>3, <1>5 DEF TypeOK, Pc, Goto
  <2>2. TypeOK'
    BY <1>1, <1>3, <1>5, <2>1 DEF TypeOK
  <2>3. Role(c)'
    BY <1>1, <1>3, <1>5, <2>1 DEF Role, Writing, Committing
  <2>4. Becomes(c, history)' = Becomes(c, history)
    BY <1>1 DEF Becomes, Added, Adds
  <2>5. Planned(c)' /\ Committed(c)'
    BY <1>1, <1>3, <2>1, <2>4 DEF Planned, Committed, Planning, Committing
  <2>6. Placed(c)' /\ Extra(c)' = {job[c].id}
    BY <1>1, <1>3, <2>1 DEF Placed, Extra, Committing
  <2> QED
    BY <1>1, <1>3, <1>4, <1>5, <2>1, <2>2, <2>3, <2>5, <2>6, WriterStep DEF Committing
<1>6. CASE Answer(c, "failed") /\ UNCHANGED images
  <2>1. /\ pc' = [pc EXCEPT ![c] = "done"] /\ pc' \in [Client -> Pc] /\ pc'[c] = "done"
        /\ "done" \in Pc \ {"opening"}
    BY <1>3, <1>6 DEF TypeOK, Pc, Answer, Goto
  <2>2. TypeOK' /\ \A d \in Client \ {c} : answer'[d] = answer[d]
    BY <1>1, <1>3, <1>6, <2>1 DEF TypeOK, Answer, Kind
  <2>3. Role(c)' /\ Planned(c)' /\ Committed(c)' /\ ~Drawn(c)'
    BY <1>1, <1>3, <2>1 DEF Role, Writing, Committing, Planned, Planning, Committed, Drawn
  <2>4. ~Placed(c)' /\ Extra(c)' = {}
    BY <2>1 DEF Placed, Extra, Committing
  <2> QED
    BY <1>1, <1>3, <1>4, <1>6, <2>1, <2>2, <2>3, <2>4, WriterStep DEF Committing
<1> QED
  BY <1>5, <1>6 DEF PlaceImage, PlaceFailed

\* The image of an entry that could not be saved goes.
LEMMA UndoKeeps == ASSUME Kept, NEW c \in Client, UndoImage(c) PROVE Kept'
<1>1. /\ pc[c] = "undo" /\ pc' = [pc EXCEPT ![c] = "done"] /\ answer' = [answer EXCEPT ![c] = "failed"]
      /\ images' = images \ {job[c].id} \/ ("remove" \in Faults /\ images' = images)
      /\ UNCHANGED <<job, fresh, entries, snapshot, thumbs, history, scraps, process, told, gone>>
  BY DEF UndoImage, Answer, Goto, Memory, Ghost
<1>2. pc[c] \in Writing
  BY <1>1 DEF Writing
<1>3. /\ process = "up" /\ Sole(c) /\ TypeOK /\ Role(c) /\ Sound(history) /\ ToldDurable
      /\ job[c].op = "image" /\ job[c].id \in Id
      /\ Drawn(c) => job[c].id \notin Used
      /\ snapshot = entries /\ entries = history /\ ImageIds(history) \subseteq images
      /\ "remove" \notin Faults => images = ImageIds(history) \cup Extra(c) /\ scraps = {}
      /\ thumbs \subseteq ImageIds(history)
  BY <1>1, <1>2, Writer DEF Role, Committing
<1>4. Extra(c) = {job[c].id} /\ Drawn(c) /\ Used' = Used /\ Sound(history)' /\ ToldDurable'
  BY <1>1, <1>3 DEF Placed, Extra, Committing, Drawn, Adds, Used, ToldDurable
<1>5. job[c].id \notin ImageIds(history)
  BY <1>3, <1>4, ImagesAreIds DEF Used, TypeOK
<1>6. pc' \in [Client -> Pc] /\ pc'[c] = "done" /\ "done" \in Pc \ {"opening"}
  BY <1>1, <1>3 DEF TypeOK, Pc
<1>7. TypeOK' /\ \A d \in Client \ {c} : answer'[d] = answer[d]
  BY <1>1, <1>3, <1>6 DEF TypeOK, Kind
<1>8. Role(c)' /\ Planned(c)' /\ Committed(c)' /\ ~Drawn(c)'
  BY <1>1, <1>3, <1>6 DEF Role, Writing, Committing, Planned, Planning, Committed, Drawn
<1>9. ~Placed(c)' /\ Extra(c)' = {}
  BY <1>6 DEF Placed, Extra, Committing
<1>10. ImageIds(history) \subseteq images' /\ ("remove" \notin Faults => images' = ImageIds(history))
  BY <1>1, <1>3, <1>4, <1>5
<1> QED
  BY <1>1, <1>3, <1>4, <1>6, <1>7, <1>8, <1>9, <1>10, WriterStep DEF Committing
\* What the rename in save makes of the history, and what is known before it.
LEMMA Saving ==
  ASSUME Kept, NEW c \in Client, pc[c] = "save", NEW next, next = job[c].next
  PROVE  /\ next = Becomes(c, history) /\ next \in Seq(Entry) /\ Sound(next)
         /\ Adds(c) => job[c].id \in Id /\ job[c].id \in Ids(next) /\ job[c].id \notin Used
         /\ Ids(next) \subseteq Ids(history) \cup (IF Adds(c) THEN {job[c].id} ELSE {})
         /\ job[c].op = "image" => job[c].id \in ImageIds(next)
         /\ job[c].op = "delete" => job[c].id \in Ids(history)
         /\ job[c].drop = ImageIds(history) \ Ids(next)
         /\ ImageIds(next) \cup job[c].drop =
              ImageIds(history) \cup (IF job[c].op = "image" THEN {job[c].id} ELSE {})
<1>1. /\ Role(c) /\ Planned(c) /\ Sound(history) /\ history \in Seq(Entry) /\ job \in [Client -> Job]
      /\ Drawn(c) => job[c].id \notin Used
      /\ job[c].op \in {"text", "image", "delete", "clear"}
  BY Writer DEF Writing, TypeOK, Kept
<1>2. /\ next = Becomes(c, history) /\ Total(next) <= MaxTotal
      /\ job[c].drop = ImageIds(history) \ Ids(next)
      /\ job[c].op = "delete" => job[c].id \in Ids(history)
  BY <1>1 DEF Planned, Planning
<1>3. Adds(c) => job[c].id \in Id /\ job[c].id \notin Used
  BY <1>1 DEF Drawn, Adds, Planning, Role, Writing
<1>4. /\ next \in Seq(Entry) /\ Unique(next) /\ Len(next) <= MaxEntries
      /\ Adds(c) => job[c].id \in Ids(next)
      /\ Ids(next) \subseteq Ids(history) \cup (IF Adds(c) THEN {job[c].id} ELSE {})
      /\ job[c].op = "image" => job[c].id \in ImageIds(next)
      /\ ImageIds(next) \cup (ImageIds(history) \ Ids(next)) =
           ImageIds(history) \cup (IF job[c].op = "image" THEN {job[c].id} ELSE {})
  BY <1>1, <1>2, <1>3, BecomesKeeps DEF Role, Used
<1> QED
  BY <1>2, <1>3, <1>4 DEF Sound

\* The history is replaced, or stays.
LEMMA SaveKeeps == ASSUME Kept, NEW c \in Client, Save(c) PROVE Kept'
<1>1. pc[c] = "save" /\ UNCHANGED <<job, fresh, entries, snapshot, thumbs, images, scraps, process, told>>
  BY DEF Save, Memory
<1>2. pc[c] \in Writing
  BY <1>1 DEF Writing
<1>3. /\ process = "up" /\ Sole(c) /\ TypeOK /\ Role(c) /\ Sound(history) /\ ToldDurable
      /\ job[c].op \in {"text", "image", "delete", "clear"} /\ answer[c] = "none"
      /\ snapshot = entries /\ entries = history /\ ImageIds(history) \subseteq images
      /\ Placed(c) => job[c].id \in images
      /\ "remove" \notin Faults => images = ImageIds(history) \cup Extra(c) /\ scraps = {}
      /\ thumbs \subseteq ImageIds(history)
  BY <1>1, <1>2, Writer DEF Role, Committing
<1> DEFINE next == job[c].next
<1>4. /\ next \in Seq(Entry) /\ Sound(next)
      /\ Adds(c) => job[c].id \in Id /\ job[c].id \in Ids(next) /\ job[c].id \notin Used
      /\ Ids(next) \subseteq Ids(history) \cup (IF Adds(c) THEN {job[c].id} ELSE {})
      /\ job[c].op = "image" => job[c].id \in ImageIds(next)
      /\ job[c].drop = ImageIds(history) \ Ids(next)
      /\ ImageIds(next) \cup job[c].drop =
           ImageIds(history) \cup (IF job[c].op = "image" THEN {job[c].id} ELSE {})
  BY <1>1, Saving
<1> HIDE DEF next
<1>5. Drawn(c) <=> Adds(c)
  BY <1>1 DEF Drawn, Planning
<1>6. /\ Placed(c) <=> job[c].op = "image"
      /\ Extra(c) = IF job[c].op = "image" THEN {job[c].id} ELSE {}
  BY <1>1 DEF Placed, Extra, Committing
<1>7. Ids(next) \subseteq Id /\ Ids(history) \subseteq Id
  BY <1>3, <1>4, ImagesAreIds DEF TypeOK
<1>8. CASE /\ history' = next /\ gone' = gone \cup (Ids(history) \ Ids(next))
           /\ Goto(c, "memory") /\ UNCHANGED answer
  <2>1. /\ pc' = [pc EXCEPT ![c] = "memory"] /\ pc' \in [Client -> Pc] /\ pc'[c] = "memory"
        /\ "memory" \in Pc \ {"opening"}
    BY <1>3, <1>8 DEF TypeOK, Pc, Goto
  <2>2. TypeOK'
    BY <1>1, <1>3, <1>4, <1>7, <1>8, <2>1 DEF TypeOK
  <2>3. Role(c)'
    BY <1>1, <1>3, <1>8, <2>1 DEF Role, Writing, Committing
  <2>4. Planned(c)' /\ ~Drawn(c)' /\ ~Placed(c)' /\ Extra(c)' = job[c].drop
    BY <1>1, <2>1 DEF Planned, Planning, Drawn, Placed, Extra, Committing
  <2>5. Committed(c)'
    <3>1. job'[c].next = history' /\ job'[c].drop \cap Ids(history') = {}
      BY <1>1, <1>4, <1>8 DEF next
    <3>2. /\ Adds(c)' => job'[c].id \in Ids(history')
          /\ job'[c].op = "image" => job'[c].id \in ImageIds(history')
      BY <1>1, <1>4, <1>8 DEF Adds
    <3> QED
      BY <3>1, <3>2 DEF Committed
  <2>6. Used' \subseteq Used \cup (IF Drawn(c) THEN {job[c].id} ELSE {})
    BY <1>4, <1>5, <1>8 DEF Used
  <2>7. ToldDurable'
    BY <1>1, <1>3, <1>4, <1>8 DEF ToldDurable, Used
  <2>8. ImageIds(next) \subseteq images
    BY <1>3, <1>4, <1>6
  <2>9. Sound(history)' /\ ImageIds(history') \subseteq images'
    BY <1>1, <1>4, <1>8, <2>8 DEF Sound
  <2>10. "remove" \notin Faults => images' = ImageIds(history') \cup Extra(c)' /\ scraps' = {}
    BY <1>1, <1>3, <1>4, <1>6, <1>8, <2>4
  <2>11. thumbs' \subseteq ImageIds(history') \cup job'[c].drop
    BY <1>1, <1>3, <1>4, <1>8
  <2> QED
    BY <1>1, <1>3, <1>8, <2>1, <2>2, <2>3, <2>4, <2>5, <2>6, <2>7, <2>9, <2>10, <2>11, WriterStep
       DEF Committing
<1>9. CASE SaveFailed(c) /\ UNCHANGED <<history, gone>>
  <2>1. Sound(history)' /\ ToldDurable' /\ Used' = Used
    BY <1>1, <1>3, <1>9 DEF ToldDurable, Used
  <2>2. CASE job[c].op = "image"
    <3>1. /\ pc' = [pc EXCEPT ![c] = "undo"] /\ pc' \in [Client -> Pc] /\ pc'[c] = "undo"
          /\ "undo" \in Pc \ {"opening"} /\ answer' = answer
      BY <1>3, <1>9, <2>2 DEF TypeOK, Pc, Goto, SaveFailed
    <3>2. TypeOK'
      BY <1>1, <1>3, <1>9, <3>1 DEF TypeOK
    <3>3. Role(c)' /\ Planned(c)' /\ Committed(c)'
      BY <1>1, <1>3, <2>2, <3>1 DEF Role, Writing, Committing, Planned, Planning, Committed
    <3>4. Placed(c)' /\ Extra(c)' = {job[c].id}
      BY <1>1, <3>1 DEF Placed, Extra, Committing
    <3>5. Drawn(c) /\ job[c].id \notin Used
      BY <1>4, <1>5, <2>2 DEF Adds
    <3> QED
      BY <1>1, <1>3, <1>6, <1>9, <2>1, <2>2, <3>1, <3>2, <3>3, <3>4, <3>5, WriterStep DEF Committing
  <2>3. CASE job[c].op # "image"
    <3>1. /\ pc' = [pc EXCEPT ![c] = "done"] /\ pc' \in [Client -> Pc] /\ pc'[c] = "done"
          /\ "done" \in Pc \ {"opening"} /\ answer' = [answer EXCEPT ![c] = "failed"]
      BY <1>3, <1>9, <2>3 DEF TypeOK, Pc, Goto, SaveFailed, Answer
    <3>2. TypeOK' /\ \A d \in Client \ {c} : answer'[d] = answer[d]
      BY <1>1, <1>3, <1>9, <3>1 DEF TypeOK, Kind
    <3>3. Role(c)' /\ Planned(c)' /\ Committed(c)' /\ ~Drawn(c)'
      BY <1>1, <1>3, <3>1 DEF Role, Writing, Committing, Planned, Planning, Committed, Drawn
    <3>4. ~Placed(c)' /\ Extra(c)' = {}
      BY <3>1 DEF Placed, Extra, Committing
    <3> QED
      BY <1>1, <1>3, <1>6, <1>9, <2>1, <2>3, <3>1, <3>2, <3>3, <3>4, WriterStep DEF Committing
  <2> QED
    BY <2>2, <2>3
<1> QED
  BY <1>8, <1>9 DEF Save, next

\* Memory follows the disk.
LEMMA PublishKeeps == ASSUME Kept, NEW c \in Client, PublishChange(c) PROVE Kept'
<1>1. /\ pc[c] = "memory" /\ pc' = [pc EXCEPT ![c] = "drop"]
      /\ entries' = job[c].next /\ snapshot' = job[c].next
      /\ UNCHANGED <<job, answer, fresh, thumbs, history, images, scraps, process, told, gone>>
  BY DEF PublishChange, Goto, Disk, Ghost
<1>2. pc[c] \in Writing /\ pc[c] \in Committing
  BY <1>1 DEF Writing, Committing
<1>3. /\ process = "up" /\ Sole(c) /\ TypeOK /\ Role(c) /\ Committed(c) /\ Sound(history) /\ ToldDurable
      /\ job[c].op \in {"text", "image", "delete", "clear"}
      /\ ImageIds(history) \subseteq images
      /\ "remove" \notin Faults => images = ImageIds(history) \cup Extra(c) /\ scraps = {}
      /\ thumbs \subseteq ImageIds(history) \cup job[c].drop
  BY <1>1, <1>2, Writer
<1>4. job[c].next = history /\ history \in Seq(Entry)
  BY <1>2, <1>3 DEF Committed, TypeOK
<1>5. pc' \in [Client -> Pc] /\ pc'[c] = "drop" /\ "drop" \in Pc \ {"opening"}
  BY <1>1, <1>3 DEF TypeOK, Pc
<1>6. TypeOK'
  BY <1>1, <1>3, <1>4, <1>5 DEF TypeOK
<1>7. Role(c)' /\ Planned(c)' /\ ~Drawn(c)'
  BY <1>1, <1>3, <1>5 DEF Role, Writing, Committing, Planned, Planning, Drawn
<1>8. Committed(c)'
  BY <1>1, <1>2, <1>3, <1>5 DEF Committed, Adds
<1>9. ~Placed(c)' /\ Extra(c)' = job[c].drop /\ Extra(c) = job[c].drop
  BY <1>1, <1>5 DEF Placed, Extra, Committing
<1>10. Sound(history)' /\ ToldDurable' /\ Used' = Used
  BY <1>1, <1>3 DEF ToldDurable, Used
<1> QED
  BY <1>1, <1>3, <1>4, <1>5, <1>6, <1>7, <1>8, <1>9, <1>10, WriterStep DEF Committing
\* An image nobody refers to goes, or is left behind.
LEMMA DropKeeps == ASSUME Kept, NEW c \in Client, DropImage(c) PROVE Kept'
<1>1. PICK i \in job[c].drop :
        /\ job' = [job EXCEPT ![c].drop = @ \ {i}] /\ thumbs' = thumbs \ {i}
        /\ images' = images \ {i} \/ ("remove" \in Faults /\ images' = images)
  BY DEF DropImage
<1>2. /\ pc[c] = "drop"
      /\ UNCHANGED <<pc, answer, fresh, entries, snapshot, history, scraps, process, told, gone>>
  BY DEF DropImage, Ghost
<1>3. pc[c] \in Writing /\ pc[c] \in Committing
  BY <1>2 DEF Writing, Committing
<1>4. /\ process = "up" /\ Sole(c) /\ TypeOK /\ job[c] \in Job /\ Role(c) /\ Committed(c) /\ Sound(history)
      /\ ToldDurable /\ job[c].op \in {"text", "image", "delete", "clear"}
      /\ snapshot = entries /\ entries = history /\ ImageIds(history) \subseteq images
      /\ "remove" \notin Faults => images = ImageIds(history) \cup Extra(c) /\ scraps = {}
      /\ thumbs \subseteq ImageIds(history) \cup job[c].drop
  BY <1>2, <1>3, Writer
<1>5. job[c].drop \cap Ids(history) = {} /\ ImageIds(history) \subseteq Ids(history)
  BY <1>3, <1>4, ImagesAreIds DEF Committed, TypeOK
<1>6. i \notin ImageIds(history)
  BY <1>5
<1> DEFINE k == [job[c] EXCEPT !.drop = job[c].drop \ {i}]
<1>7. job' = [job EXCEPT ![c] = k] /\ job \in [Client -> Job]
  BY <1>1, <1>4 DEF TypeOK
<1>8. /\ k \in Job /\ k.drop = job[c].drop \ {i} /\ k.op = job[c].op /\ k.id = job[c].id
      /\ k.size = job[c].size /\ k.next = job[c].next
  BY <1>4 DEF Job
<1> HIDE DEF k
<1>9. job' \in [Client -> Job] /\ job'[c] = k /\ \A d \in Client \ {c} : job'[d] = job[d]
  BY <1>7, <1>8
<1>10. /\ pc' = [pc EXCEPT ![c] = "drop"] /\ pc'[c] = "drop" /\ "drop" \in Pc \ {"opening"}
       /\ pc' \in [Client -> Pc]
  BY <1>2, <1>4 DEF TypeOK, Pc
<1>11. TypeOK'
  BY <1>1, <1>2, <1>4, <1>9, <1>10 DEF TypeOK
<1>12. Role(c)' /\ Planned(c)' /\ ~Drawn(c)'
  BY <1>2, <1>4, <1>8, <1>9, <1>10 DEF Role, Writing, Committing, Planned, Planning, Drawn
<1>13. Committed(c)'
  BY <1>2, <1>3, <1>4, <1>8, <1>9 DEF Committed, Adds
<1>14. ~Placed(c)' /\ Extra(c)' = job[c].drop \ {i} /\ Extra(c) = job[c].drop
  BY <1>2, <1>8, <1>9, <1>10 DEF Placed, Extra, Committing
<1>15. Sound(history)' /\ ToldDurable' /\ Used' = Used
  BY <1>2, <1>4 DEF ToldDurable, Used
<1>16. ImageIds(history') \subseteq images'
  BY <1>1, <1>2, <1>4, <1>6
<1>17. "remove" \notin Faults => images' = ImageIds(history') \cup Extra(c)' /\ scraps' = {}
  BY <1>1, <1>2, <1>4, <1>6, <1>14
<1>18. thumbs' \subseteq ImageIds(history') \cup job'[c].drop
  BY <1>1, <1>2, <1>4, <1>8, <1>9
<1> QED
  BY <1>2, <1>4, <1>8, <1>9, <1>10, <1>11, <1>12, <1>13, <1>14, <1>15, <1>16, <1>17, <1>18, WriterStep
     DEF Committing

\* The change is done and acknowledged.
LEMMA FinishKeeps == ASSUME Kept, NEW c \in Client, FinishChange(c) PROVE Kept'
<1> DEFINE new == IF job[c].op \in {"text", "image"} THEN {job[c].id} ELSE {}
<1>1. /\ pc[c] = "drop" /\ job[c].drop = {}
      /\ thumbs' = IF job[c].op = "image" THEN thumbs \cup new ELSE thumbs
      /\ told' = told \cup new
      /\ UNCHANGED <<job, fresh, entries, snapshot, history, images, scraps, process, gone>>
  BY DEF FinishChange, Disk
<1>2. PICK a \in {"created", "deleted"} :
        pc' = [pc EXCEPT ![c] = "done"] /\ answer' = [answer EXCEPT ![c] = a]
  BY DEF FinishChange, Answer, Goto
<1>3. pc[c] \in Writing /\ pc[c] \in Committing
  BY <1>1 DEF Writing, Committing
<1>4. /\ process = "up" /\ Sole(c) /\ TypeOK /\ Role(c) /\ Committed(c) /\ Sound(history) /\ ToldDurable
      /\ job[c].op \in {"text", "image", "delete", "clear"}
      /\ snapshot = entries /\ entries = history /\ ImageIds(history) \subseteq images
      /\ "remove" \notin Faults => images = ImageIds(history) \cup Extra(c) /\ scraps = {}
      /\ thumbs \subseteq ImageIds(history)
  BY <1>1, <1>3, Writer
<1>5. /\ new \subseteq Ids(history) /\ new \subseteq Id
      /\ job[c].op = "image" => new \subseteq ImageIds(history)
  BY <1>3, <1>4, ImagesAreIds DEF Committed, Adds, TypeOK
<1> HIDE DEF new
<1>6. pc' \in [Client -> Pc] /\ pc'[c] = "done" /\ "done" \in Pc \ {"opening"}
  BY <1>2, <1>4 DEF TypeOK, Pc
<1>7. TypeOK' /\ \A d \in Client \ {c} : answer'[d] = answer[d]
  BY <1>1, <1>2, <1>4, <1>5, <1>6 DEF TypeOK, Kind
<1>8. Role(c)' /\ Planned(c)' /\ Committed(c)' /\ ~Drawn(c)'
  BY <1>1, <1>4, <1>6 DEF Role, Writing, Committing, Planned, Planning, Committed, Drawn
<1>9. ~Placed(c)' /\ Extra(c)' = {} /\ Extra(c) = {}
  BY <1>1, <1>6 DEF Placed, Extra, Committing
<1>10. Sound(history)' /\ ToldDurable' /\ Used' = Used
  BY <1>1, <1>4, <1>5 DEF ToldDurable, Used
<1>11. thumbs' \subseteq ImageIds(history')
  BY <1>1, <1>4, <1>5
<1> QED
  BY <1>1, <1>2, <1>4, <1>6, <1>7, <1>8, <1>9, <1>10, <1>11, WriterStep DEF Committing
-----------------------------------------------------------------------------
(* The process dies and starts again.                                      *)

\* Whatever step a change is at, what is on disk is a history with its images.
LEMMA CrashKeeps == ASSUME Kept, Crash PROVE Kept'
<1>1. /\ process' = "down" /\ entries' = <<>> /\ snapshot' = <<>> /\ thumbs' = {}
      /\ pc' = [c \in Client |-> "idle"] /\ job' = [c \in Client |-> NoJob]
      /\ answer' = [c \in Client |-> "none"]
      /\ UNCHANGED <<fresh, history, images, scraps, told, gone>>
  BY DEF Crash, Disk, Ghost
<1>2. NoJob \in Job /\ NoJob.op = "none" /\ <<>> \in Seq(Entry)
  BY EmptySound DEF NoJob, Job, Op
<1>3. TypeOK'
  BY <1>1, <1>2 DEF Kept, TypeOK, Pc, Kind
<1>4. \A c \in Client : pc'[c] = "idle" /\ job'[c] = NoJob /\ answer'[c] = "none"
  BY <1>1
<1>5. \A c \in Client : (Role(c) /\ Planned(c) /\ Committed(c) /\ Opened(c) /\ ~Drawn(c) /\ ~Placed(c))'
  BY <1>2, <1>4 DEF Role, Planned, Committed, Opened, Drawn, Planning, Committing, Writing, Placed
<1>6. Sound(history)' /\ ToldDurable' /\ fresh' \cap Used' = {} /\ ImageIds(history') \subseteq images'
  BY <1>1 DEF Kept, ToldDurable, OwnId, Used, Stored
<1>7. (Alone /\ OwnId /\ Agreed /\ Stored /\ Accounted /\ Pictured)'
  BY <1>1, <1>4, <1>5, <1>6 DEF Alone, OwnId, Agreed, Stored, Accounted, Pictured, Writing, Committing
<1> QED
  BY <1>3, <1>5, <1>6, <1>7 DEF Kept

\* The history is accepted, and what it does not name goes.
LEMMA StartKeeps == ASSUME Kept, Start PROVE Kept'
<1>1. /\ process = "down" /\ Sound(history) /\ ImageIds(history) \subseteq images
      /\ thumbs = {} /\ \A c \in Client : pc[c] = "idle"
  BY DEF Start, Kept, Agreed, Stored
<1>2. Loadable
  BY <1>1 DEF Loadable, Sound
<1>3. /\ process' = "up" /\ entries' = history /\ snapshot' = history
      /\ \/ images' = ImageIds(history) /\ scraps' = {}
         \/ "remove" \in Faults /\ images' = images /\ scraps' = scraps
      /\ UNCHANGED <<pc, job, answer, fresh, thumbs, history, told, gone>>
  BY <1>2 DEF Start, Ghost
<1>4. TypeOK'
  BY <1>1, <1>3 DEF Kept, TypeOK
<1>5. ASSUME NEW c \in Client
      PROVE  (Role(c) /\ Planned(c) /\ Committed(c) /\ Opened(c) /\ ~Drawn(c) /\ ~Placed(c))'
  <2>1. /\ pc[c] = "idle" /\ pc'[c] = "idle" /\ job'[c] = job[c] /\ answer'[c] = answer[c]
        /\ Role(c) /\ Opened(c)
    BY <1>1, <1>3 DEF Kept
  <2>2. Role(c)' /\ Opened(c)'
    BY <2>1 DEF Role, Opened, Writing, Committing
  <2>3. (Planned(c) /\ Committed(c) /\ ~Drawn(c) /\ ~Placed(c))'
    BY <2>1 DEF Planned, Committed, Drawn, Planning, Committing, Writing, Placed
  <2> QED
    BY <2>2, <2>3
<1>6. Sound(history)' /\ ToldDurable' /\ fresh' \cap Used' = {} /\ ImageIds(history') \subseteq images'
  BY <1>1, <1>3 DEF Kept, ToldDurable, OwnId, Used
<1>7. \A c \in Client : pc'[c] = "idle"
  BY <1>1, <1>3
<1>8. (Alone /\ OwnId /\ Agreed /\ Stored /\ Accounted /\ Pictured)'
  BY <1>1, <1>3, <1>5, <1>6, <1>7 DEF Alone, OwnId, Agreed, Stored, Accounted, Pictured, Writing, Committing
<1> QED
  BY <1>4, <1>5, <1>6, <1>8 DEF Kept

\* Nothing happens.
LEMMA StutterKeeps == ASSUME Kept, UNCHANGED vars PROVE Kept'
<1>1. UNCHANGED <<pc, job, answer, fresh, entries, snapshot, thumbs, history, images, scraps, process,
                  told, gone>>
  BY DEF vars
<1>2. \A c \in Client : (Role(c) /\ Planned(c) /\ Committed(c) /\ Opened(c))'
  BY <1>1 DEF Kept, Role, Planned, Committed, Opened, Becomes, Added, Adds
<1>3. (TypeOK /\ Sound(history) /\ Alone /\ OwnId /\ Agreed /\ ToldDurable)'
  BY <1>1 DEF Kept, TypeOK, Alone, OwnId, Agreed, ToldDurable, Used, Drawn, Adds
<1>4. (Stored /\ Accounted /\ Pictured)'
  BY <1>1 DEF Kept, Stored, Accounted, Pictured, Placed, Extra, MuReadable
<1> QED
  BY <1>2, <1>3, <1>4 DEF Kept

\* Every step keeps the invariant.
LEMMA StepKeeps == Kept /\ [Next]_vars => Kept'
<1> SUFFICES ASSUME Kept, [Next]_vars PROVE Kept'
  OBVIOUS
<1>1. ASSUME NEW c \in Client, Mutate(c) PROVE Kept'
  BY <1>1, DecodeKeeps, LockKeeps, DraftKeeps, PlaceKeeps, SaveKeeps, UndoKeeps, PublishKeeps, DropKeeps,
     FinishKeeps DEF Mutate
<1>2. ASSUME NEW c \in Client, Serve(c) PROVE Kept'
  BY <1>1, <1>2, ListKeeps, OpenFindKeeps, OpenFileKeeps, ThumbnailKeeps, RespondKeeps DEF Serve
<1> QED
  BY <1>2, RequestKeeps, CrashKeeps, StartKeeps, StutterKeeps DEF Next

\* The clipboard's inductive invariant holds at every moment, through crashes, failed saves and
\* starts: commit, CreateImage and NewClipboardService keep the disk at a history with its images.
THEOREM AlwaysKept == Spec => []Kept
  BY KeptInit, StepKeeps, PTL DEF Spec

\* Whatever fails and whenever the process dies, the list on disk is one the service may have and can
\* start with: its images are there, and together within the quota, also when several clients publish
\* at a time.
THEOREM StoreIsSound == Spec => []StoreSound
<1>1. Kept => StoreSound
  BY DEF Kept, StoreSound, HistoryBacked, QuotaKept, Sound, Agreed, Stored
<1> QED
  BY <1>1, AlwaysKept, PTL

\* What a client was told stays on disk until a request that was itself saved takes it away: no
\* crash, failed save or rollback loses it, and none brings back what was removed.
THEOREM ToldIsDurable == Spec => []ToldDurable
<1>1. Kept => ToldDurable
  BY DEF Kept
<1> QED
  BY <1>1, AlwaysKept, PTL

\* Images and thumbnails are there exactly as long as the list names them: between two changes the
\* images directory holds those of the list and nothing else, no thumbnail outlives its entry, and
\* what OpenImage finds it can open.
THEOREM ImagesAreTrue == Spec => []ImagesTrue
<1>1. ASSUME Kept PROVE ImagesTrue
  <2>1. ImagesAccounted
    BY <1>1, Reading DEF ImagesAccounted, Kept, Accounted
  <2>2. ThumbnailsListed
    <3> SUFFICES ASSUME MuReadable PROVE thumbs \subseteq ImageIds(entries)
      BY DEF ThumbnailsListed
    <3>1. thumbs \subseteq ImageIds(history)
      BY <1>1 DEF Kept, Pictured, MuReadable, Writing, Committing
    <3>2. CASE process = "up"
      BY <1>1, <3>1, <3>2, Reading
    <3>3. CASE process # "up"
      BY <1>1, <3>3 DEF Kept, TypeOK, Agreed
    <3> QED
      BY <3>2, <3>3
  <2>3. ImagesOpen
    BY <1>1 DEF ImagesOpen, Kept, Opened
  <2> QED
    BY <2>1, <2>2, <2>3 DEF ImagesTrue
<1> QED
  BY <1>1, AlwaysKept, PTL
-----------------------------------------------------------------------------
(* The list on disk is the one ClipboardPromise describes.                 *)

\* Publishing as the promise says it.
LEMMA NewestIsPublished ==
  ASSUME NEW list \in Seq(Entry), Len(list) <= MaxEntries, NEW e \in Entry
  PROVE  Newest(e, list) = <<e>> \o (IF Len(list) <= MaxEntries - 1 THEN list
                                     ELSE SubSeq(list, 1, MaxEntries - 1))
<1>1. MaxEntries \in Nat /\ Len(list) \in Nat
  BY ClipboardLimits
<1>2. Len(list) < MaxEntries <=> Len(list) <= MaxEntries - 1
  BY <1>1
<1> QED
  BY <1>2 DEF Newest

\* The rename in save is one whole operation on the list.
LEMMA SavePublishes ==
  ASSUME Kept, NEW c \in Client, pc[c] = "save", history' = job[c].next
  PROVE  Promise!Next
<1> DEFINE next == job[c].next
<1>1. /\ history' = Becomes(c, history)
      /\ Adds(c) => job[c].id \in Id /\ job[c].id \notin Used
      /\ job[c].op = "delete" => job[c].id \in Ids(history)
  BY Saving
<1>2. /\ history \in Seq(Entry) /\ Len(history) <= MaxEntries /\ job[c] \in Job
      /\ job[c].op \in {"text", "image", "delete", "clear"}
  BY Writer DEF Writing, Sound, TypeOK
<1>3. Promise!Ids = Ids(history)
  BY DEF Promise!Ids, Ids
<1>4. CASE Adds(c)
  <2> DEFINE e == Added(c)
  <2>1. job[c].size \in Size \cup {0}
    BY <1>2 DEF Job
  <2>2. e \in Entry /\ e.id = job[c].id
    BY <1>1, <1>4, <2>1 DEF Added, Adds, Entry
  <2>3. history' = Newest(e, history)
    BY <1>1, <1>4 DEF Becomes, Adds
  <2> HIDE DEF e
  <2>4. e.id \notin Promise!Ids
    BY <1>1, <1>3, <1>4, <2>2 DEF Used
  <2>5. history' = <<e>> \o Promise!Atmost(MaxEntries - 1)
    BY <1>2, <2>2, <2>3, NewestIsPublished DEF Promise!Atmost
  <2> QED
    BY <2>2, <2>4, <2>5 DEF Promise!Next, Promise!Publish
<1>5. CASE job[c].op = "delete"
  <2>1. history' = Without(history, job[c].id)
    BY <1>1, <1>5 DEF Becomes, Adds
  <2>2. PICK at \in 1 .. Len(history) :
          history' = SubSeq(history, 1, at - 1) \o SubSeq(history, at + 1, Len(history))
    <3>1. job[c].id \in Ids(history)
      BY <1>1, <1>5
    <3>2. \E at \in 1 .. Len(history) : Without(history, job[c].id) =
            SubSeq(history, 1, at - 1) \o SubSeq(history, at + 1, Len(history))
      BY <1>2, <3>1, WithoutIs, Zenon
    <3> QED
      BY <2>1, <3>2, Zenon
  <2> QED
    BY <2>2 DEF Promise!Next, Promise!Remove
<1>6. CASE job[c].op = "clear"
  <2>1. history' = <<>>
    BY <1>1, <1>6 DEF Becomes, Adds
  <2> QED
    BY <2>1 DEF Promise!Next, Promise!Clear
<1> QED
  BY <1>2, <1>4, <1>5, <1>6 DEF Adds

\* Nothing but that rename changes the list on disk.
LEMMA OnlySaveChanges ==
  ASSUME [Next]_vars
  PROVE  history' = history \/ \E c \in Client : pc[c] = "save" /\ history' = job[c].next
<1>1. ASSUME NEW c \in Client, Mutate(c)
      PROVE  history' = history \/ (pc[c] = "save" /\ history' = job[c].next)
  BY <1>1 DEF Mutate, Decode, Lock, DraftImage, PlaceImage, Save, UndoImage, PublishChange, DropImage,
     FinishChange, Disk
<1>2. ASSUME NEW c \in Client, Request(c) \/ List(c) \/ OpenFind(c) \/ OpenFile(c) \/ Thumbnail(c)
                               \/ Respond(c)
      PROVE  history' = history
  BY <1>2 DEF Request, List, OpenFind, OpenFile, Thumbnail, ThumbnailLook, ThumbnailQueue,
     ThumbnailAgain, ThumbnailStore, Respond, Disk
<1>3. Crash \/ Start \/ UNCHANGED vars => history' = history
  BY DEF Crash, Start, vars, Disk
<1> QED
  BY <1>1, <1>2, <1>3 DEF Next, Serve

\* The clipboard implements its promise: whatever the requests, faults and crashes, the durable list
\* changes by whole operations only, each at the rename in save or not at all.
THEOREM PromiseIsKept == Spec => PromiseKept
<1>1. Init => Promise!Init
  BY DEF Init, Promise!Init
<1>2. Kept /\ [Next]_vars => [Promise!Next]_history
  BY OnlySaveChanges, SavePublishes
<1> QED
  BY <1>1, <1>2, AlwaysKept, PTL DEF Spec, PromiseKept, Promise!Spec
=============================================================================
