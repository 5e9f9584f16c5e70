---------------------------- MODULE MemoryList_proofs ----------------------------
(***************************************************************************)
(* What the operators on the list of ranges do, for downloads of any size: *)
(* the list stays sorted and merged, every byte is where push(), shift()   *)
(* and punchHole() say, and the sums of _calculateUsage() and the answer   *)
(* of isFullfilled() are those of the set of bytes.                        *)
(***************************************************************************)
EXTENDS MemoryList, SequenceTheorems, FiniteSetTheorems, WellFoundedInduction, TLAPS

Items == [start : Nat, end : Nat, memory : BOOLEAN]

\* Sorted, disjoint and inside the download; said of any two items, so that no
\* induction along the list is needed.
Sorted(l) ==
    /\ l \in Seq(Items)
    /\ \A i \in DOMAIN l : l[i].start < l[i].end /\ l[i].end <= MaxSize
    /\ \A i, j \in DOMAIN l : i < j => l[i].end <= l[j].start

\* Where two neighbours could be one item.
Mergeable(l) ==
    {i \in 1..(Len(l) - 1) : l[i].end = l[i + 1].start /\ l[i].memory = l[i + 1].memory}

\* The byte b is in an item that is in memory (m) or written (~m).
Has(l, b, m) ==
    \E i \in DOMAIN l : l[i].start <= b /\ b < l[i].end /\ l[i].memory = m

-----------------------------------------------------------------------------
(* Positions. *)

\* The position of the last item that begins before `to'.
Begun(l, to) ==
    LET begun == {i \in DOMAIN l : l[i].start < to}
    IN  IF begun = {} THEN 0 ELSE Max(begun)

\* A set of positions that is not empty has a first one ...
LEMMA MinLemma ==
    ASSUME NEW S \in SUBSET Nat, S # {}
    PROVE  Min(S) \in S /\ \A y \in S : Min(S) <= y
<1> DEFINE R == {ss \in Nat \X Nat : ss[1] < ss[2]}
<1>1. IsWellFoundedOn(R, Nat)
  BY NatLessThanWellFounded DEF OpToRel
<1>2. PICK x \in S : \A y \in S : ~(<<y, x>> \in R)
  BY <1>1, WFMin
<1>3. \A y \in S : x <= y
  <2> SUFFICES ASSUME NEW y \in S, y < x PROVE FALSE
    OBVIOUS
  <2>1. <<y, x>> \in Nat \X Nat
    OBVIOUS
  <2>2. <<y, x>> \in R
    BY <2>1
  <2> QED BY <1>2, <2>2
<1>4. Min(S) = CHOOSE z \in S : \A y \in S : z <= y
  BY DEF Min
<1> QED BY <1>3, <1>4

\* ... and a last one, if it is bounded.
LEMMA MaxLemma ==
    ASSUME NEW n \in Nat, NEW S \in SUBSET (0..n), S # {}
    PROVE  Max(S) \in S /\ \A y \in S : y <= Max(S)
<1> DEFINE T == {n - x : x \in S}
<1>1. T \in SUBSET Nat /\ T # {}
  <2>1. \A x \in S : n - x \in Nat
    OBVIOUS
  <2> QED BY <2>1
<1>2. Min(T) \in T /\ \A y \in T : Min(T) <= y
  BY <1>1, MinLemma
<1>3. PICK x \in S : Min(T) = n - x
  BY <1>2
<1>4. \A y \in S : y <= x
  <2> SUFFICES ASSUME NEW y \in S PROVE y <= x
    OBVIOUS
  <2>1. n - y \in T
    OBVIOUS
  <2>2. n - x <= n - y
    BY <1>2, <1>3, <2>1
  <2> QED BY <2>2
<1> QED BY <1>4 DEF Max

\* The last item that ends before `from', and the last one that begins before it.
LEMMA BeforeLemma ==
    ASSUME NEW l \in Seq(Items), NEW from
    PROVE  /\ Before(l, from) \in 0..Len(l)
           /\ Before(l, from) # 0 => l[Before(l, from)].end <= from
           /\ \A i \in DOMAIN l : l[i].end <= from => i <= Before(l, from)
<1> DEFINE S == {i \in DOMAIN l : l[i].end <= from}
<1>1. Len(l) \in Nat /\ S \in SUBSET (0..Len(l))
  OBVIOUS
<1>2. Before(l, from) = IF S = {} THEN 0 ELSE Max(S)
  BY DEF Before
<1>3. S # {} => Max(S) \in S /\ \A i \in S : i <= Max(S)
  BY <1>1, MaxLemma
<1> QED BY <1>1, <1>2, <1>3

LEMMA BegunLemma ==
    ASSUME NEW l \in Seq(Items), NEW to
    PROVE  /\ Begun(l, to) \in 0..Len(l)
           /\ Begun(l, to) # 0 => l[Begun(l, to)].start < to
           /\ \A i \in DOMAIN l : l[i].start < to => i <= Begun(l, to)
<1> DEFINE S == {i \in DOMAIN l : l[i].start < to}
<1>1. Len(l) \in Nat /\ S \in SUBSET (0..Len(l))
  OBVIOUS
<1>2. Begun(l, to) = IF S = {} THEN 0 ELSE Max(S)
  BY DEF Begun
<1>3. S # {} => Max(S) \in S /\ \A i \in S : i <= Max(S)
  BY <1>1, MaxLemma
<1> QED BY <1>1, <1>2, <1>3

\* The first item in memory.
LEMMA FirstLemma ==
    ASSUME NEW l \in Seq(Items)
    PROVE  /\ FirstInMemory(l) \in 0..Len(l)
           /\ FirstInMemory(l) # 0 => l[FirstInMemory(l)].memory
           /\ \A i \in DOMAIN l : l[i].memory => FirstInMemory(l) # 0 /\ FirstInMemory(l) <= i
<1> DEFINE S == {i \in 1..Len(l) : l[i].memory}
<1>1. Len(l) \in Nat /\ S \in SUBSET Nat
  OBVIOUS
<1>2. FirstInMemory(l) = IF S # {} THEN Min(S) ELSE 0
  BY DEF FirstInMemory, SelectInSeq
<1>3. S # {} => Min(S) \in S /\ \A i \in S : Min(S) <= i
  BY <1>1, MinLemma
<1>4. CASE S = {}
  BY <1>1, <1>2, <1>4
<1>5. CASE S # {}
  <2>1. FirstInMemory(l) \in S /\ \A i \in S : FirstInMemory(l) <= i
    BY <1>2, <1>3, <1>5
  <2> HIDE DEF FirstInMemory
  <2> QED BY <1>1, <2>1
<1> QED BY <1>4, <1>5

-----------------------------------------------------------------------------
(* Insertion and merge. *)

\* An item with another end, or another beginning, or written to the file.
LEMMA ItemLemma ==
    ASSUME NEW x \in Items, NEW y \in Nat
    PROVE  /\ [x EXCEPT !.end = y] = [start |-> x.start, end |-> y, memory |-> x.memory]
           /\ [x EXCEPT !.start = y] = [start |-> y, end |-> x.end, memory |-> x.memory]
           /\ LET z == [x EXCEPT !.memory = FALSE]
              IN  z \in Items /\ z.start = x.start /\ z.end = x.end /\ z.memory = FALSE
           /\ x.start \in Nat /\ x.end \in Nat /\ x.memory \in BOOLEAN
<1>1. [x EXCEPT !.end = y] = [start |-> x.start, end |-> y, memory |-> x.memory]
  BY DEF Items
<1>2. [x EXCEPT !.start = y] = [start |-> y, end |-> x.end, memory |-> x.memory]
  BY DEF Items
<1>3. LET z == [x EXCEPT !.memory = FALSE]
      IN  z \in Items /\ z.start = x.start /\ z.end = x.end /\ z.memory = FALSE
  BY DEF Items
<1>4. x.start \in Nat /\ x.end \in Nat /\ x.memory \in BOOLEAN
  BY DEF Items
<1> QED BY <1>1, <1>2, <1>3, <1>4

\* A list that is put together of a beginning, an item and a rest.
LEMMA PartsLemma ==
    ASSUME NEW l \in Seq(Items), NEW e \in Items,
           NEW m \in 0..Len(l), NEW n \in 1..(Len(l) + 1)
    PROVE  LET r == SubSeq(l, 1, m) \o <<e>> \o SubSeq(l, n, Len(l))
           IN  /\ r \in Seq(Items)
               /\ Len(r) = m + 1 + (Len(l) + 1 - n)
               /\ \A k \in 1..(m + 1 + (Len(l) + 1 - n)) : r[k] =
                      IF k <= m THEN l[k] ELSE IF k = m + 1 THEN e ELSE l[k - m - 1 + n - 1]
<1> DEFINE a == SubSeq(l, 1, m)
           b == SubSeq(l, n, Len(l))
           c == a \o <<e>>
           size == Len(l) + 1 - n
<1>1. Len(l) \in Nat /\ m \in Nat /\ size \in Nat /\ \A i \in 1..Len(l) : l[i] \in Items
  OBVIOUS
<1>2. /\ a \in Seq(Items) /\ Len(a) = m
      /\ \A i \in 1..m : a[i] = l[i]
  BY <1>1, SubSeqProperties
<1>3. /\ b \in Seq(Items) /\ Len(b) = size
      /\ \A i \in 1..size : b[i] = l[n + i - 1]
  BY <1>1, SubSeqProperties
<1>4. <<e>> \in Seq(Items) /\ Len(<<e>>) = 1 /\ <<e>>[1] = e
  OBVIOUS
<1> HIDE DEF a, b, size
<1>5. /\ c \in Seq(Items) /\ Len(c) = m + 1
      /\ \A i \in 1..(m + 1) : c[i] = IF i <= m THEN a[i] ELSE e
  <2>1. /\ c \in Seq(Items)
        /\ Len(c) = Len(a) + Len(<<e>>)
        /\ \A i \in 1..(Len(a) + Len(<<e>>)) : c[i] =
               IF i <= Len(a) THEN a[i] ELSE <<e>>[i - Len(a)]
    BY <1>2, <1>4, ConcatProperties
  <2>2. \A i \in 1..(m + 1) : ~(i <= m) => i - Len(a) = 1
    BY <1>1, <1>2
  <2> QED BY <1>1, <1>2, <1>4, <2>1, <2>2
<1> HIDE DEF c
<1>6. /\ c \o b \in Seq(Items) /\ Len(c \o b) = m + 1 + size
      /\ \A i \in 1..(m + 1 + size) : (c \o b)[i] = IF i <= m + 1 THEN c[i] ELSE b[i - (m + 1)]
  <2>1. /\ c \o b \in Seq(Items)
        /\ Len(c \o b) = Len(c) + Len(b)
        /\ \A i \in 1..(Len(c) + Len(b)) : (c \o b)[i] =
               IF i <= Len(c) THEN c[i] ELSE b[i - Len(c)]
    BY <1>3, <1>5, ConcatProperties
  <2> QED BY <1>1, <1>3, <1>5, <2>1
<1>7. ASSUME NEW k \in 1..(m + 1 + size)
      PROVE  (c \o b)[k] = IF k <= m THEN l[k] ELSE IF k = m + 1 THEN e ELSE l[k - m - 1 + n - 1]
  <2>1. CASE k <= m + 1
    <3>1. (c \o b)[k] = c[k] /\ c[k] = IF k <= m THEN a[k] ELSE e
      BY <1>1, <1>5, <1>6, <2>1
    <3> QED BY <1>1, <1>2, <2>1, <3>1
  <2>2. CASE k > m + 1
    <3>1. (c \o b)[k] = b[k - (m + 1)] /\ k - (m + 1) \in 1..size
      BY <1>1, <1>6, <2>2
    <3>2. n + (k - (m + 1)) - 1 = k - m - 1 + n - 1
      BY <1>1
    <3> QED BY <1>1, <1>3, <2>2, <3>1, <3>2
  <2>3. k <= m + 1 \/ k > m + 1
    BY <1>1
  <2> QED BY <2>1, <2>2, <2>3
<1>8. SubSeq(l, 1, m) \o <<e>> \o SubSeq(l, n, Len(l)) = c \o b
  BY DEF a, b, c
<1>9. size = Len(l) + 1 - n
  BY DEF size
<1> QED BY <1>6, <1>7, <1>8, <1>9

\* What is where after an insertion ...
LEMMA InsertLemma ==
    ASSUME NEW l \in Seq(Items), NEW new \in Items, NEW p \in 1..(Len(l) + 1)
    PROVE  /\ InsertAt(l, p, new) \in Seq(Items)
           /\ Len(InsertAt(l, p, new)) = Len(l) + 1
           /\ \A k \in 1..(Len(l) + 1) : InsertAt(l, p, new)[k] =
                  IF k < p THEN l[k] ELSE IF k = p THEN new ELSE l[k - 1]
<1>1. p - 1 \in 0..Len(l) /\ Len(l) \in Nat
  OBVIOUS
<1> DEFINE r == SubSeq(l, 1, p - 1) \o <<new>> \o SubSeq(l, p, Len(l))
<1>2. /\ r \in Seq(Items)
      /\ Len(r) = (p - 1) + 1 + (Len(l) + 1 - p)
      /\ \A k \in 1..((p - 1) + 1 + (Len(l) + 1 - p)) : r[k] =
             IF k <= p - 1 THEN l[k] ELSE IF k = (p - 1) + 1 THEN new
             ELSE l[k - (p - 1) - 1 + p - 1]
  BY <1>1, PartsLemma
<1>3. InsertAt(l, p, new) = r
  BY DEF InsertAt
<1> HIDE DEF r
<1>4. (p - 1) + 1 + (Len(l) + 1 - p) = Len(l) + 1 /\ (p - 1) + 1 = p
  BY <1>1
<1>5. \A k \in 1..(Len(l) + 1) :
          (k <= p - 1 <=> k < p) /\ k - (p - 1) - 1 + p - 1 = k - 1
  BY <1>1
<1> QED BY <1>2, <1>3, <1>4, <1>5

\* ... and after a merge.
LEMMA MergeLemma ==
    ASSUME NEW l \in Seq(Items), NEW i \in Mergeable(l)
    PROVE  /\ Merge(l, i) \in Seq(Items)
           /\ Len(Merge(l, i)) = Len(l) - 1
           /\ \A k \in 1..(Len(l) - 1) :
                  /\ k < i => Merge(l, i)[k] = l[k]
                  /\ k = i => Merge(l, i)[k] =
                         [start |-> l[i].start, end |-> l[i + 1].end, memory |-> l[i].memory]
                  /\ k > i => Merge(l, i)[k] = l[k + 1]
<1>1. /\ i \in 1..(Len(l) - 1) /\ Len(l) \in Nat /\ l[i] \in Items /\ l[i + 1] \in Items
      /\ l[i].end = l[i + 1].start /\ l[i].memory = l[i + 1].memory
  BY DEF Mergeable
<1> DEFINE e == [l[i] EXCEPT !.end = l[i + 1].end]
           r == SubSeq(l, 1, i - 1) \o <<e>> \o SubSeq(l, i + 2, Len(l))
<1>2. e = [start |-> l[i].start, end |-> l[i + 1].end, memory |-> l[i].memory] /\ e \in Items
  BY <1>1, ItemLemma DEF Items
<1>3. Merge(l, i) = r
  <2>1. i >= 1 /\ i < Len(l)
    BY <1>1
  <2> QED BY <1>1, <2>1, Zenon DEF Merge
<1>4. i - 1 \in 0..Len(l) /\ i + 2 \in 1..(Len(l) + 1)
  BY <1>1
<1> HIDE DEF e
<1>5. /\ r \in Seq(Items)
      /\ Len(r) = (i - 1) + 1 + (Len(l) + 1 - (i + 2))
      /\ \A k \in 1..((i - 1) + 1 + (Len(l) + 1 - (i + 2))) : r[k] =
             IF k <= i - 1 THEN l[k] ELSE IF k = (i - 1) + 1 THEN e
             ELSE l[k - (i - 1) - 1 + (i + 2) - 1]
  BY <1>2, <1>4, PartsLemma
<1> HIDE DEF r
<1>6. (i - 1) + 1 + (Len(l) + 1 - (i + 2)) = Len(l) - 1 /\ (i - 1) + 1 = i
  BY <1>1
<1>7. \A k \in 1..(Len(l) - 1) :
          (k <= i - 1 <=> k < i) /\ k - (i - 1) - 1 + (i + 2) - 1 = k + 1
  BY <1>1
<1>8. \A k \in 1..(Len(l) - 1) : r[k] = IF k < i THEN l[k] ELSE IF k = i THEN e ELSE l[k + 1]
  BY <1>5, <1>6, <1>7
<1>9. \A k \in 1..(Len(l) - 1) : (k > i => ~(k < i) /\ k # i) /\ (k = i => ~(k < i))
  BY <1>1
<1> QED BY <1>2, <1>3, <1>5, <1>6, <1>8, <1>9

\* A merge loses and moves nothing, and takes one place to merge away.
LEMMA MergeKeeps ==
    ASSUME NEW l, Sorted(l), NEW i \in Int
    PROVE  /\ Sorted(Merge(l, i))
           /\ \A b \in Int, m \in BOOLEAN : Has(Merge(l, i), b, m) <=> Has(l, b, m)
           /\ Mergeable(l) \subseteq {i - 1, i} => Mergeable(Merge(l, i)) \subseteq {i - 1}
           /\ Mergeable(l) \subseteq {i} => Mergeable(Merge(l, i)) = {}
<1>1. l \in Seq(Items) /\ Len(l) \in Nat
  BY DEF Sorted
<1>2. CASE i \notin Mergeable(l)
  <2>1. Merge(l, i) = l
    <3>1. ~(i >= 1 /\ i < Len(l) /\ l[i].end = l[i + 1].start /\ l[i].memory = l[i + 1].memory)
      BY <1>1, <1>2 DEF Mergeable
    <3> QED BY <3>1, Zenon DEF Merge
  <2> QED BY <1>2, <2>1
<1>3. CASE i \in Mergeable(l)
  <2> DEFINE r == Merge(l, i)
             n == Len(l) - 1
  <2>1. /\ i \in 1..n /\ n \in Nat /\ l[i].end = l[i + 1].start
        /\ l[i].memory = l[i + 1].memory
    BY <1>1, <1>3 DEF Mergeable
  <2>2. /\ r \in Seq(Items) /\ Len(r) = n
        /\ \A k \in 1..n :
               /\ k < i => r[k] = l[k]
               /\ k = i => r[k] =
                      [start |-> l[i].start, end |-> l[i + 1].end, memory |-> l[i].memory]
               /\ k > i => r[k] = l[k + 1]
    BY <1>1, <1>3, MergeLemma
  <2> HIDE DEF r
  <2>3. \A k \in 1..Len(l) : l[k].start \in Nat /\ l[k].end \in Nat /\ l[k].memory \in BOOLEAN
    <3> SUFFICES ASSUME NEW k \in 1..Len(l)
                 PROVE  l[k].start \in Nat /\ l[k].end \in Nat /\ l[k].memory \in BOOLEAN
      OBVIOUS
    <3>1. l[k] \in Items
      BY <1>1
    <3> QED BY <3>1, ItemLemma
  \* The field of the merged item, and where an item of the new list comes from.
  <2>4. \A k \in 1..n :
            /\ r[k].start = IF k <= i THEN l[k].start ELSE l[k + 1].start
            /\ r[k].end = IF k < i THEN l[k].end ELSE l[k + 1].end
            /\ r[k].memory = IF k <= i THEN l[k].memory ELSE l[k + 1].memory
    <3> SUFFICES ASSUME NEW k \in 1..n
                 PROVE  /\ r[k].start = IF k <= i THEN l[k].start ELSE l[k + 1].start
                        /\ r[k].end = IF k < i THEN l[k].end ELSE l[k + 1].end
                        /\ r[k].memory = IF k <= i THEN l[k].memory ELSE l[k + 1].memory
      OBVIOUS
    <3>1. CASE k < i
      <4>1. r[k] = l[k] /\ k <= i
        BY <2>1, <2>2, <3>1
      <4> QED BY <3>1, <4>1
    <3>2. CASE k = i
      <4>1. r[k] = [start |-> l[i].start, end |-> l[i + 1].end, memory |-> l[i].memory]
        BY <2>2, <3>2
      <4>2. k <= i /\ ~(k < i)
        BY <2>1, <3>2
      <4> QED BY <3>2, <4>1, <4>2
    <3>3. CASE k > i
      <4>1. r[k] = l[k + 1] /\ ~(k <= i) /\ ~(k < i)
        BY <2>1, <2>2, <3>3
      <4> QED BY <3>3, <4>1
    <3> QED BY <2>1, <3>1, <3>2, <3>3
  <2>5. Sorted(r)
    <3>1. \A k \in 1..n : r[k].start < r[k].end /\ r[k].end <= MaxSize
      <4> SUFFICES ASSUME NEW k \in 1..n PROVE r[k].start < r[k].end /\ r[k].end <= MaxSize
        OBVIOUS
      <4>1. k \in 1..Len(l) /\ k + 1 \in 1..Len(l)
        BY <2>1
      <4>2. /\ l[k].start < l[k].end /\ l[k].end <= MaxSize
            /\ l[k + 1].start < l[k + 1].end /\ l[k + 1].end <= MaxSize
        BY <1>1, <4>1 DEF Sorted
      <4>3. /\ l[k].start \in Nat /\ l[k].end \in Nat
            /\ l[k + 1].start \in Nat /\ l[k + 1].end \in Nat
        BY <2>3, <4>1
      <4>4. CASE k < i
        <5>1. r[k].start = l[k].start /\ r[k].end = l[k].end
          BY <2>1, <2>4, <4>4
        <5> QED BY <4>2, <5>1
      <4>5. CASE k = i
        <5>1. r[k].start = l[k].start /\ r[k].end = l[k + 1].end /\ l[k].end = l[k + 1].start
          BY <2>1, <2>4, <4>5
        <5> QED BY <4>2, <4>3, <5>1
      <4>6. CASE k > i
        <5>1. r[k].start = l[k + 1].start /\ r[k].end = l[k + 1].end
          BY <2>1, <2>4, <4>6
        <5> QED BY <4>2, <5>1
      <4> QED BY <2>1, <4>4, <4>5, <4>6
    <3>2. \A j, k \in 1..n : j < k => r[j].end <= r[k].start
      <4> SUFFICES ASSUME NEW j \in 1..n, NEW k \in 1..n, j < k PROVE r[j].end <= r[k].start
        OBVIOUS
      <4> DEFINE p == IF j < i THEN j ELSE j + 1
                 q == IF k <= i THEN k ELSE k + 1
      <4>1. p \in DOMAIN l /\ q \in DOMAIN l /\ p < q
        BY <1>1, <2>1
      <4>2. l[p].end <= l[q].start
        BY <4>1 DEF Sorted
      <4>3. r[j].end = l[p].end /\ r[k].start = l[q].start
        BY <2>4
      <4> QED BY <4>2, <4>3
    <3>3. DOMAIN r = 1..n
      BY <2>2
    <3> QED BY <2>2, <3>1, <3>2, <3>3 DEF Sorted
  <2>6. ASSUME NEW b \in Int, NEW m \in BOOLEAN PROVE Has(r, b, m) <=> Has(l, b, m)
    <3>1. DOMAIN r = 1..n /\ DOMAIN l = 1..Len(l)
      BY <1>1, <2>2
    <3>2. ASSUME Has(r, b, m) PROVE Has(l, b, m)
      <4>1. PICK k \in 1..n : r[k].start <= b /\ b < r[k].end /\ r[k].memory = m
        BY <3>1, <3>2 DEF Has
      <4>2. k \in DOMAIN l /\ k + 1 \in DOMAIN l
        BY <2>1, <3>1
      <4>3. CASE k < i \/ (k = i /\ b < l[i].end)
        <5>1. l[k].start <= b /\ b < l[k].end /\ l[k].memory = m
          BY <2>1, <2>4, <4>1, <4>3
        <5> QED BY <4>2, <5>1 DEF Has
      <4>4. CASE ~(k < i \/ (k = i /\ b < l[i].end))
        <5>1. b < l[k + 1].end
          BY <2>1, <2>4, <4>1, <4>4
        <5>2. l[k + 1].memory = m
          BY <2>1, <2>4, <4>1, <4>4
        <5>3. l[k + 1].start <= b
          <6>1. l[k + 1].start \in Nat
            BY <2>3, <3>1, <4>2
          <6>2. CASE k = i
            BY <2>1, <4>4, <6>1, <6>2
          <6>3. CASE k > i
            BY <2>1, <2>4, <4>1, <6>3
          <6> QED BY <2>1, <4>4, <6>2, <6>3
        <5> QED BY <4>2, <5>1, <5>2, <5>3 DEF Has
      <4> QED BY <4>3, <4>4
    <3>3. ASSUME Has(l, b, m) PROVE Has(r, b, m)
      <4>1. PICK k \in 1..Len(l) : l[k].start <= b /\ b < l[k].end /\ l[k].memory = m
        BY <3>1, <3>3 DEF Has
      <4>2. /\ l[i].start < l[i].end /\ l[i + 1].start < l[i + 1].end
            /\ i \in 1..Len(l) /\ i + 1 \in 1..Len(l)
        BY <2>1, <3>1 DEF Sorted
      <4> DEFINE p == IF k <= i THEN k ELSE k - 1
      <4>3. p \in 1..n
        BY <2>1
      <4>4. r[p].start <= b /\ b < r[p].end
        <5>1. CASE k < i
          BY <2>4, <4>1, <4>3, <5>1
        <5>2. CASE k = i
          BY <2>1, <2>3, <2>4, <4>1, <4>2, <4>3, <5>2
        <5>3. CASE k = i + 1
          <6>1. p = i
            BY <2>1, <5>3
          <6> QED BY <2>1, <2>3, <2>4, <4>1, <4>2, <5>3, <6>1
        <5>4. CASE k > i + 1
          <6>1. p = k - 1 /\ ~(p <= i) /\ p + 1 = k
            BY <2>1, <5>4
          <6> QED BY <2>4, <4>1, <4>3, <6>1
        <5> QED BY <2>1, <5>1, <5>2, <5>3, <5>4
      <4>5. r[p].memory = m
        <5>1. CASE k <= i
          BY <2>4, <4>1, <4>3, <5>1
        <5>2. CASE k = i + 1
          <6>1. p = i
            BY <2>1, <5>2
          <6> QED BY <2>1, <2>4, <4>1, <5>2, <6>1
        <5>3. CASE k > i + 1
          <6>1. p = k - 1 /\ ~(p <= i) /\ p + 1 = k
            BY <2>1, <5>3
          <6> QED BY <2>4, <4>1, <4>3, <6>1
        <5> QED BY <2>1, <5>1, <5>2, <5>3
      <4> QED BY <3>1, <4>3, <4>4, <4>5 DEF Has
    <3> QED BY <3>2, <3>3
  <2>7. \A k \in Mergeable(r) : (k < i /\ k \in Mergeable(l)) \/ (k >= i /\ k + 1 \in Mergeable(l))
    <3> SUFFICES ASSUME NEW k \in 1..(n - 1),
                        r[k].end = r[k + 1].start, r[k].memory = r[k + 1].memory
                 PROVE  (k < i /\ k \in Mergeable(l)) \/ (k >= i /\ k + 1 \in Mergeable(l))
      BY <2>2 DEF Mergeable
    <3>1. k \in 1..n /\ k + 1 \in 1..n /\ k \in 1..(Len(l) - 1) /\ k + 1 \in 1..(Len(l) - 1)
      BY <2>1
    <3>2. CASE k < i
      <4>1. r[k].end = l[k].end /\ r[k].memory = l[k].memory
        BY <2>1, <2>4, <3>1, <3>2
      <4>2. r[k + 1].start = l[k + 1].start /\ r[k + 1].memory = l[k + 1].memory
        BY <2>1, <2>4, <3>1, <3>2
      <4> QED BY <3>1, <3>2, <4>1, <4>2 DEF Mergeable
    <3>3. CASE k >= i
      <4>1. r[k].end = l[k + 1].end /\ r[k].memory = l[k + 1].memory
        <5>1. CASE k = i
          BY <2>1, <2>4, <3>1, <5>1
        <5>2. CASE k > i
          BY <2>1, <2>4, <3>1, <5>2
        <5> QED BY <2>1, <3>3, <5>1, <5>2
      <4>2. r[k + 1].start = l[k + 2].start /\ r[k + 1].memory = l[k + 2].memory
        <5>1. ~(k + 1 <= i) /\ (k + 1) + 1 = k + 2
          BY <2>1, <3>3
        <5> QED BY <2>4, <3>1, <5>1
      <4>3. (k + 1) + 1 = k + 2
        BY <2>1
      <4> QED BY <3>1, <3>3, <4>1, <4>2, <4>3 DEF Mergeable
    <3> QED BY <2>1, <3>2, <3>3
  <2>8. Mergeable(r) \subseteq Int
    BY <2>1, <2>2 DEF Mergeable
  <2>9. Mergeable(l) \subseteq {i - 1, i} => Mergeable(r) \subseteq {i - 1}
    BY <2>7, <2>8
  <2>10. Mergeable(l) \subseteq {i} => Mergeable(r) = {}
    BY <2>7, <2>8
  <2> QED BY <2>5, <2>6, <2>9, <2>10 DEF r
<1> QED BY <1>2, <1>3

\* The two ways it is used.
LEMMA MergeTwo ==
    ASSUME NEW l, Sorted(l), NEW i \in Int, Mergeable(l) \subseteq {i - 1, i}
    PROVE  /\ Sorted(Merge(l, i))
           /\ Mergeable(Merge(l, i)) \subseteq {i - 1}
           /\ \A b \in Int, m \in BOOLEAN : Has(Merge(l, i), b, m) <=> Has(l, b, m)
BY MergeKeeps

LEMMA MergeOne ==
    ASSUME NEW l, Sorted(l), NEW i \in Int, Mergeable(l) \subseteq {i}
    PROVE  /\ Sorted(Merge(l, i))
           /\ Mergeable(Merge(l, i)) = {}
           /\ \A b \in Int, m \in BOOLEAN : Has(Merge(l, i), b, m) <=> Has(l, b, m)
BY MergeKeeps

\* A range that fits between two items is added and nothing else; it can only
\* be merged with its neighbours.
LEMMA InsertKeeps ==
    ASSUME NEW l, Sorted(l), Mergeable(l) = {},
           NEW from \in Nat, NEW to \in Nat, from < to, to <= MaxSize, NEW memory \in BOOLEAN,
           NEW p \in 1..(Len(l) + 1),
           p > 1 => l[p - 1].end <= from, p <= Len(l) => to <= l[p].start
    PROVE  LET r == InsertAt(l, p, Item(from, to, memory))
           IN  /\ Sorted(r)
               /\ Mergeable(r) \subseteq {p - 1, p}
               /\ \A b \in Int, m \in BOOLEAN :
                      Has(r, b, m) <=> Has(l, b, m) \/ (from <= b /\ b < to /\ m = memory)
<1> DEFINE new == Item(from, to, memory)
           r == InsertAt(l, p, new)
           n == Len(l) + 1
<1>1. l \in Seq(Items) /\ Len(l) \in Nat /\ DOMAIN l = 1..Len(l)
  BY DEF Sorted
<1>2. /\ new \in Items /\ new.start = from /\ new.end = to /\ new.memory = memory
  BY DEF Items, Item
<1> HIDE DEF new
<1>3. /\ r \in Seq(Items) /\ Len(r) = n /\ DOMAIN r = 1..n
      /\ \A k \in 1..n : r[k] = IF k < p THEN l[k] ELSE IF k = p THEN new ELSE l[k - 1]
  BY <1>1, <1>2, InsertLemma
<1> HIDE DEF r
<1>4. /\ n \in Nat /\ p \in 1..n
      /\ \A k \in 1..n : (k < p => k \in DOMAIN l) /\ (k > p => k - 1 \in DOMAIN l)
  BY <1>1
<1>5. \A k \in DOMAIN l : l[k].start \in Nat /\ l[k].end \in Nat /\ l[k].start < l[k].end
  <2> SUFFICES ASSUME NEW k \in DOMAIN l
               PROVE  l[k].start \in Nat /\ l[k].end \in Nat /\ l[k].start < l[k].end
    OBVIOUS
  <2>1. l[k] \in Items
    BY <1>1
  <2> QED BY <2>1, ItemLemma DEF Sorted
\* All items before p end before the new one, and all others begin after it.
<1>6. \A k \in DOMAIN l : (k < p => l[k].end <= from) /\ (k >= p => to <= l[k].start)
  <2> SUFFICES ASSUME NEW k \in DOMAIN l
               PROVE  (k < p => l[k].end <= from) /\ (k >= p => to <= l[k].start)
    OBVIOUS
  <2>1. k \in 1..Len(l)
    BY <1>1
  <2>2. CASE k < p
    <3>1. p - 1 \in DOMAIN l /\ l[p - 1].end <= from
      BY <1>1, <2>1, <2>2
    <3>2. k = p - 1 \/ l[k].end <= l[p - 1].start
      BY <1>1, <2>1, <2>2, <3>1 DEF Sorted
    <3>3. k = p - 1 \/ l[k].end <= from
      BY <1>5, <3>1, <3>2
    <3> QED BY <1>1, <2>1, <2>2, <3>1, <3>3
  <2>3. CASE k >= p
    <3>1. p \in DOMAIN l /\ to <= l[p].start
      BY <1>1, <2>1, <2>3
    <3>2. k = p \/ l[p].end <= l[k].start
      BY <1>1, <2>1, <2>3, <3>1 DEF Sorted
    <3>3. k = p \/ to <= l[k].start
      BY <1>5, <3>1, <3>2
    <3> QED BY <1>1, <2>1, <2>3, <3>1, <3>3
  <2> QED BY <1>1, <2>1, <2>2, <2>3
<1>7. Sorted(r)
  <2>1. \A k \in 1..n : r[k].start < r[k].end /\ r[k].end <= MaxSize
    <3> SUFFICES ASSUME NEW k \in 1..n PROVE r[k].start < r[k].end /\ r[k].end <= MaxSize
      OBVIOUS
    <3>1. CASE k = p
      BY <1>2, <1>3, <1>4, <3>1
    <3>2. CASE k # p
      <4>1. \E j \in DOMAIN l : r[k] = l[j]
        BY <1>3, <1>4, <3>2
      <4> QED BY <4>1 DEF Sorted
    <3> QED BY <3>1, <3>2
  <2>2. \A j, k \in 1..n : j < k => r[j].end <= r[k].start
    <3> SUFFICES ASSUME NEW j \in 1..n, NEW k \in 1..n, j < k PROVE r[j].end <= r[k].start
      OBVIOUS
    <3>1. CASE j = p
      <4>1. r[j] = new /\ r[k] = l[k - 1] /\ k - 1 \in DOMAIN l /\ k - 1 >= p
        BY <1>3, <1>4, <3>1
      <4> QED BY <1>2, <1>6, <4>1
    <3>2. CASE k = p
      <4>1. r[k] = new /\ r[j] = l[j] /\ j \in DOMAIN l /\ j < p
        BY <1>3, <1>4, <3>2
      <4> QED BY <1>2, <1>6, <4>1
    <3>3. CASE j # p /\ k # p
      <4> DEFINE x == IF j < p THEN j ELSE j - 1
                 y == IF k < p THEN k ELSE k - 1
      <4>1. x \in DOMAIN l /\ y \in DOMAIN l /\ x < y
        BY <1>4, <3>3
      <4>2. r[j] = l[x] /\ r[k] = l[y]
        BY <1>3, <3>3
      <4> QED BY <4>1, <4>2 DEF Sorted
    <3> QED BY <3>1, <3>2, <3>3
  <2> QED BY <1>3, <2>1, <2>2 DEF Sorted
<1>8. Mergeable(r) \subseteq {p - 1, p}
  <2> SUFFICES ASSUME NEW k \in 1..(n - 1), k # p - 1, k # p,
                      r[k].end = r[k + 1].start, r[k].memory = r[k + 1].memory
               PROVE  FALSE
    BY <1>3 DEF Mergeable
  <2> DEFINE x == IF k < p THEN k ELSE k - 1
  <2>1. k \in 1..n /\ k + 1 \in 1..n
    BY <1>4
  <2>2. x \in 1..(Len(l) - 1) /\ x + 1 = (IF k < p THEN k + 1 ELSE k)
    BY <1>4
  <2>3. r[k] = l[x] /\ r[k + 1] = l[x + 1]
    <3>1. CASE k < p
      <4>1. k + 1 < p
        BY <1>4, <3>1
      <4> QED BY <1>3, <2>1, <3>1, <4>1
    <3>2. CASE k > p
      <4>1. ~(k + 1 < p) /\ k + 1 # p /\ (k + 1) - 1 = k /\ ~(k < p)
        BY <1>4, <3>2
      <4>2. r[k + 1] = l[(k + 1) - 1]
        BY <1>3, <2>1, <4>1
      <4>3. x = k - 1 /\ x + 1 = k
        BY <1>4, <4>1
      <4> QED BY <1>3, <2>1, <3>2, <4>1, <4>2, <4>3
    <3> QED BY <1>4, <3>1, <3>2
  <2> QED BY <2>2, <2>3 DEF Mergeable
<1>9. ASSUME NEW b \in Int, NEW m \in BOOLEAN
      PROVE  Has(r, b, m) <=> Has(l, b, m) \/ (from <= b /\ b < to /\ m = memory)
  <2>1. ASSUME Has(r, b, m) PROVE Has(l, b, m) \/ (from <= b /\ b < to /\ m = memory)
    <3>1. PICK k \in 1..n : r[k].start <= b /\ b < r[k].end /\ r[k].memory = m
      BY <1>3, <2>1 DEF Has
    <3>2. CASE k = p
      BY <1>2, <1>3, <3>1, <3>2
    <3>3. CASE k # p
      <4>1. \E j \in DOMAIN l : r[k] = l[j]
        BY <1>3, <1>4, <3>3
      <4> QED BY <3>1, <4>1 DEF Has
    <3> QED BY <3>2, <3>3
  <2>2. ASSUME Has(l, b, m) PROVE Has(r, b, m)
    <3>1. PICK k \in DOMAIN l : l[k].start <= b /\ b < l[k].end /\ l[k].memory = m
      BY <2>2 DEF Has
    <3> DEFINE x == IF k < p THEN k ELSE k + 1
    <3>2. x \in 1..n /\ (x < p => x = k) /\ (~(x < p) => x # p /\ x - 1 = k)
      BY <1>1, <1>4
    <3>3. r[x] = l[k]
      BY <1>3, <3>2
    <3> QED BY <1>3, <3>1, <3>2, <3>3 DEF Has
  <2>3. ASSUME from <= b, b < to, m = memory PROVE Has(r, b, m)
    <3>1. r[p] = new /\ p \in DOMAIN r
      BY <1>3, <1>4
    <3> QED BY <1>2, <2>3, <3>1 DEF Has
  <2> QED BY <2>1, <2>2, <2>3
<1> QED BY <1>7, <1>8, <1>9 DEF r, new
\* What is received is received as a range of its own, and then merged.
LEMMA PushKeeps ==
    ASSUME NEW l, Sorted(l), Mergeable(l) = {},
           NEW from \in Nat, NEW to \in Nat, NEW memory \in BOOLEAN,
           Accepts(l, from, to)
    PROVE  LET r == PushList(l, from, to, memory)
           IN  /\ Sorted(r)
               /\ Mergeable(r) = {}
               /\ \A b \in Int, m \in BOOLEAN :
                      Has(r, b, m) <=> Has(l, b, m) \/ (from <= b /\ b < to /\ m = memory)
<1> DEFINE new == Item(from, to, memory)
           i == Before(l, from)
<1>1. l \in Seq(Items) /\ Len(l) \in Nat /\ from < to /\ to <= MaxSize
  BY DEF Sorted, Accepts
<1>2. new \in Items
  BY DEF Items, Item
<1>3. CASE IsFirst(l, to)
  <2> DEFINE r == InsertAt(l, 1, new)
  <2>1. 1 <= Len(l) => to <= l[1].start
    BY <1>1, <1>3 DEF IsFirst
  <2>2. /\ Sorted(r) /\ Mergeable(r) \subseteq {1 - 1, 1}
        /\ \A b \in Int, m \in BOOLEAN :
               Has(r, b, m) <=> Has(l, b, m) \/ (from <= b /\ b < to /\ m = memory)
    BY <1>1, <2>1, InsertKeeps
  <2>3. r = <<new>> \o l
    <3>1. r = SubSeq(l, 1, 0) \o <<new>> \o SubSeq(l, 1, Len(l))
      BY DEF InsertAt
    <3>2. SubSeq(l, 1, 0) = <<>>
      BY SubSeqEmpty
    <3>3. SubSeq(l, 1, Len(l)) = l
      BY <1>1, SubSeqFull
    <3>4. <<>> \o <<new>> = <<new>>
      BY <1>2, ConcatEmptySeq
    <3> QED BY <3>1, <3>2, <3>3, <3>4
  <2> HIDE DEF r
  <2>4. Mergeable(r) \subseteq {1}
    BY <2>2 DEF Mergeable
  <2>5. PushList(l, from, to, memory) = Merge(r, 1)
    BY <1>3, <2>3 DEF PushList
  <2>6. /\ Sorted(Merge(r, 1)) /\ Mergeable(Merge(r, 1)) = {}
        /\ \A b \in Int, m \in BOOLEAN : Has(Merge(r, 1), b, m) <=> Has(r, b, m)
    BY <2>2, <2>4, MergeOne
  <2> QED BY <2>2, <2>5, <2>6
<1>4. CASE ~IsFirst(l, to)
  <2> DEFINE r == InsertAt(l, i + 1, new)
             r1 == Merge(r, i + 1)
  <2>1. /\ i \in 1..Len(l)
        /\ l[i].end <= from
        /\ i < Len(l) => to <= l[i + 1].start
    BY <1>1, <1>4, BeforeLemma DEF Accepts
  <2> HIDE DEF i
  <2>2. /\ i + 1 \in 1..(Len(l) + 1) /\ (i + 1) - 1 = i
        /\ i + 1 <= Len(l) => to <= l[i + 1].start
    BY <1>1, <2>1
  <2>3. /\ Sorted(r) /\ Mergeable(r) \subseteq {(i + 1) - 1, i + 1}
        /\ \A b \in Int, m \in BOOLEAN :
               Has(r, b, m) <=> Has(l, b, m) \/ (from <= b /\ b < to /\ m = memory)
    BY <1>1, <2>1, <2>2, InsertKeeps
  <2> HIDE DEF r
  <2>4. /\ Sorted(r1) /\ Mergeable(r1) \subseteq {(i + 1) - 1}
        /\ \A b \in Int, m \in BOOLEAN : Has(r1, b, m) <=> Has(r, b, m)
    <3>1. i + 1 \in Int
      BY <1>1, <2>1
    <3> QED BY <2>3, <3>1, MergeTwo
  <2> HIDE DEF r1
  <2>5. /\ Sorted(Merge(r1, i)) /\ Mergeable(Merge(r1, i)) = {}
        /\ \A b \in Int, m \in BOOLEAN : Has(Merge(r1, i), b, m) <=> Has(r1, b, m)
    <3>1. Mergeable(r1) \subseteq {i} /\ i \in Int
      BY <1>1, <2>1, <2>2, <2>4
    <3> QED BY <2>4, <3>1, MergeOne
  <2>6. PushList(l, from, to, memory) = Merge(r1, i)
    BY <1>4 DEF PushList, r, r1, i
  <2> QED BY <2>3, <2>4, <2>5, <2>6
<1> QED BY <1>3, <1>4

\* What push() takes is what is missing.
LEMMA AcceptsMissing ==
    ASSUME NEW l, Sorted(l), NEW from \in Nat, NEW to \in Nat, from < to, to <= MaxSize
    PROVE  Accepts(l, from, to)
               <=> \A b \in from..(to - 1), m \in BOOLEAN : ~Has(l, b, m)
<1> DEFINE i == Before(l, from)
<1>1. l \in Seq(Items) /\ Len(l) \in Nat /\ DOMAIN l = 1..Len(l)
  BY DEF Sorted
<1>2. /\ i \in 0..Len(l)
      /\ i # 0 => l[i].end <= from
      /\ \A k \in DOMAIN l : l[k].end <= from => k <= i
  BY <1>1, BeforeLemma
<1>3. Accepts(l, from, to)
          <=> IsFirst(l, to) \/ (i > 0 /\ (i < Len(l) => to <= l[i + 1].start))
  BY DEF Accepts
<1> HIDE DEF i
<1>4. \A k \in DOMAIN l : /\ l[k].start \in Nat /\ l[k].end \in Nat /\ l[k].memory \in BOOLEAN
                          /\ l[k].start < l[k].end
  <2> SUFFICES ASSUME NEW k \in DOMAIN l
               PROVE  /\ l[k].start \in Nat /\ l[k].end \in Nat /\ l[k].memory \in BOOLEAN
                      /\ l[k].start < l[k].end
    OBVIOUS
  <2>1. l[k] \in Items
    BY <1>1
  <2> QED BY <2>1, ItemLemma DEF Sorted
<1>5. \A j, k \in DOMAIN l : j < k => l[j].end <= l[k].start
  BY DEF Sorted
<1>6. ASSUME Accepts(l, from, to), NEW b \in from..(to - 1), NEW m \in BOOLEAN,
             Has(l, b, m)
      PROVE  FALSE
  <2>1. PICK k \in DOMAIN l : l[k].start <= b /\ b < l[k].end
    BY <1>6 DEF Has
  <2>2. l[k].start < to /\ from < l[k].end /\ b \in Int
    BY <1>4, <2>1
  <2>3. CASE IsFirst(l, to)
    <3>1. l # <<>> /\ 1 \in DOMAIN l
      BY <1>1, <2>1
    <3>2. l[1].start >= to
      BY <2>3, <3>1 DEF IsFirst
    <3>3. k = 1 \/ l[1].end <= l[k].start
      BY <1>1, <1>5, <2>1, <3>1
    <3> QED BY <1>4, <2>1, <2>2, <3>1, <3>2, <3>3
  <2>4. CASE i > 0 /\ (i < Len(l) => to <= l[i + 1].start)
    <3>1. i \in DOMAIN l /\ l[i].end <= from
      BY <1>1, <1>2, <2>4
    <3>2. CASE k <= i
      <4>1. k = i \/ l[k].end <= l[i].start
        BY <1>1, <1>5, <2>1, <3>1, <3>2
      <4> QED BY <1>4, <2>1, <2>2, <3>1, <4>1
    <3>3. CASE k > i
      <4>1. i < Len(l) /\ i + 1 \in DOMAIN l /\ (k = i + 1 \/ i + 1 < k)
        BY <1>1, <1>2, <2>1, <3>3
      <4>2. k = i + 1 \/ l[i + 1].end <= l[k].start
        BY <1>5, <2>1, <4>1
      <4> QED BY <1>4, <2>1, <2>2, <2>4, <4>1, <4>2
    <3> QED BY <1>1, <1>2, <2>1, <3>2, <3>3
  <2> QED BY <1>3, <1>6, <2>3, <2>4
\* The item after the last one that ends before `from' would hold a byte of the range.
<1>7. ASSUME \A b \in from..(to - 1), m \in BOOLEAN : ~Has(l, b, m)
      PROVE  Accepts(l, from, to)
  <2>1. ASSUME NEW k \in DOMAIN l, ~(l[k].end <= from) PROVE to <= l[k].start
    <3> SUFFICES ASSUME l[k].start < to PROVE FALSE
      BY <1>4
    <3> DEFINE b == IF l[k].start <= from THEN from ELSE l[k].start
    <3>1. b \in from..(to - 1) /\ l[k].start <= b /\ b < l[k].end
      BY <1>4, <2>1
    <3>2. Has(l, b, l[k].memory)
      BY <3>1 DEF Has
    <3>3. l[k].memory \in BOOLEAN
      BY <1>4
    <3> QED BY <1>7, <3>1, <3>2, <3>3
  <2>2. CASE i = 0
    <3>1. l # <<>> => 1 \in DOMAIN l
      BY <1>1
    <3>2. l # <<>> => ~(l[1].end <= from)
      BY <1>2, <2>2, <3>1
    <3>3. l # <<>> => to <= l[1].start
      BY <2>1, <3>1, <3>2
    <3>4. IsFirst(l, to)
      BY <1>4, <3>1, <3>3 DEF IsFirst
    <3> QED BY <1>3, <3>4
  <2>3. CASE i > 0
    <3>1. i < Len(l) => i + 1 \in DOMAIN l /\ ~(i + 1 <= i)
      BY <1>1, <1>2
    <3>2. i < Len(l) => ~(l[i + 1].end <= from)
      BY <1>2, <3>1
    <3>3. i < Len(l) => to <= l[i + 1].start
      BY <2>1, <3>1, <3>2
    <3> QED BY <1>3, <2>3, <3>3
  <2> QED BY <1>1, <1>2, <2>2, <2>3
<1> QED BY <1>6, <1>7
\* Only the first item in memory changes its place, as a whole.
LEMMA ShiftKeeps ==
    ASSUME NEW l, Sorted(l), Mergeable(l) = {}, FirstInMemory(l) # 0
    PROVE  LET r == ShiftList(l)
               item == l[FirstInMemory(l)]
           IN  /\ Sorted(r)
               /\ Mergeable(r) = {}
               /\ \A b \in Int, m \in BOOLEAN :
                      Has(r, b, m) <=> IF item.start <= b /\ b < item.end
                                       THEN m = FALSE ELSE Has(l, b, m)
<1> DEFINE i == FirstInMemory(l)
           r == [l EXCEPT ![i].memory = FALSE]
           r1 == Merge(r, i)
<1>1. l \in Seq(Items) /\ Len(l) \in Nat /\ DOMAIN l = 1..Len(l)
  BY DEF Sorted
<1>2. i \in DOMAIN l /\ l[i].memory /\ i \in Int
  BY <1>1, FirstLemma
<1>3. ShiftList(l) = Merge(r1, i - 1)
  BY DEF ShiftList
<1> HIDE DEF i
<1>4. /\ r \in Seq(Items) /\ Len(r) = Len(l) /\ DOMAIN r = DOMAIN l
      /\ \A k \in DOMAIN l : /\ r[k].start = l[k].start /\ r[k].end = l[k].end
                             /\ r[k].memory = IF k = i THEN FALSE ELSE l[k].memory
  <2> DEFINE z == [l[i] EXCEPT !.memory = FALSE]
  <2>1. z \in Items /\ z.start = l[i].start /\ z.end = l[i].end /\ z.memory = FALSE
    <3>1. l[i] \in Items
      BY <1>1, <1>2
    <3> QED BY <3>1, ItemLemma
  <2>2. r = [l EXCEPT ![i] = z]
    OBVIOUS
  <2> HIDE DEF z
  <2>3. /\ r \in Seq(Items) /\ Len(r) = Len(l)
        /\ \A k \in 1..Len(l) : r[k] = IF k = i THEN z ELSE l[k]
    <3>1. i \in 1..Len(l) /\ z \in Items
      BY <1>1, <1>2, <2>1
    <3>2. /\ [l EXCEPT ![i] = z] \in Seq(Items) /\ Len([l EXCEPT ![i] = z]) = Len(l)
          /\ \A k \in 1..Len(l) : [l EXCEPT ![i] = z][k] = IF k = i THEN z ELSE l[k]
      BY <1>1, <3>1, ExceptSeq
    <3> HIDE DEF r
    <3> QED BY <2>2, <3>2
  <2>4. DOMAIN r = DOMAIN l /\ \A k \in DOMAIN l : r[k] = IF k = i THEN z ELSE l[k]
    BY <1>1, <1>2, <2>2, <2>3
  <2> HIDE DEF r
  <2>5. ASSUME NEW k \in DOMAIN l
        PROVE  /\ r[k].start = l[k].start /\ r[k].end = l[k].end
               /\ r[k].memory = IF k = i THEN FALSE ELSE l[k].memory
    <3>1. CASE k = i
      BY <2>1, <2>4, <3>1
    <3>2. CASE k # i
      BY <2>4, <3>2
    <3> QED BY <3>1, <3>2
  <2> QED BY <2>3, <2>4, <2>5
<1> HIDE DEF r
<1>5. Sorted(r)
  <2>1. \A k \in DOMAIN r : r[k].start < r[k].end /\ r[k].end <= MaxSize
    BY <1>4 DEF Sorted
  <2>2. \A j, k \in DOMAIN r : j < k => r[j].end <= r[k].start
    BY <1>4 DEF Sorted
  <2> QED BY <1>4, <2>1, <2>2 DEF Sorted
<1>6. Mergeable(r) \subseteq {i - 1, i}
  <2> SUFFICES ASSUME NEW k \in 1..(Len(l) - 1), k # i - 1, k # i,
                      r[k].end = r[k + 1].start, r[k].memory = r[k + 1].memory
               PROVE  FALSE
    BY <1>4 DEF Mergeable
  <2>1. k \in DOMAIN l /\ k + 1 \in DOMAIN l /\ k + 1 # i
    BY <1>1, <1>2
  <2>2. l[k].end = l[k + 1].start /\ l[k].memory = l[k + 1].memory
    BY <1>4, <2>1
  <2> QED BY <2>2 DEF Mergeable
<1>7. /\ Sorted(r1) /\ Mergeable(r1) \subseteq {i - 1}
      /\ \A b \in Int, m \in BOOLEAN : Has(r1, b, m) <=> Has(r, b, m)
  BY <1>2, <1>5, <1>6, MergeTwo
<1> HIDE DEF r1
<1>8. /\ Sorted(Merge(r1, i - 1)) /\ Mergeable(Merge(r1, i - 1)) = {}
      /\ \A b \in Int, m \in BOOLEAN : Has(Merge(r1, i - 1), b, m) <=> Has(r1, b, m)
  <2>1. i - 1 \in Int
    BY <1>2
  <2> QED BY <1>7, <2>1, MergeOne
<1>9. ASSUME NEW b \in Int, NEW m \in BOOLEAN
      PROVE  Has(r, b, m) <=> IF l[i].start <= b /\ b < l[i].end
                              THEN m = FALSE ELSE Has(l, b, m)
  <2>1. CASE l[i].start <= b /\ b < l[i].end
    \* No other item holds b.
    <3>1. ASSUME NEW k \in DOMAIN l, k # i, l[k].start <= b, b < l[k].end PROVE FALSE
      <4>1. l[k].start \in Nat /\ l[k].end \in Nat /\ l[i].start \in Nat /\ l[i].end \in Nat
        <5>1. l[k] \in Items /\ l[i] \in Items
          BY <1>1, <1>2
        <5> QED BY <5>1, ItemLemma
      <4>2. CASE k < i
        <5>1. l[k].end <= l[i].start
          BY <1>2, <4>2 DEF Sorted
        <5> QED BY <2>1, <3>1, <4>1, <5>1
      <4>3. CASE i < k
        <5>1. l[i].end <= l[k].start
          BY <1>2, <4>3 DEF Sorted
        <5> QED BY <2>1, <3>1, <4>1, <5>1
      <4> QED BY <1>1, <1>2, <3>1, <4>2, <4>3
    <3>2. Has(r, b, m) => m = FALSE
      <4> SUFFICES ASSUME Has(r, b, m) PROVE m = FALSE
        OBVIOUS
      <4>1. PICK k \in DOMAIN l : l[k].start <= b /\ b < l[k].end /\ r[k].memory = m
        BY <1>4 DEF Has
      <4>2. k = i
        BY <3>1, <4>1
      <4> QED BY <1>4, <4>1, <4>2
    <3>3. m = FALSE => Has(r, b, m)
      BY <1>2, <1>4, <2>1 DEF Has
    <3> QED BY <2>1, <3>2, <3>3
  <2>2. CASE ~(l[i].start <= b /\ b < l[i].end)
    <3>1. \A k \in DOMAIN l : l[k].start <= b /\ b < l[k].end => k # i
      BY <2>2
    <3>2. Has(r, b, m) <=> Has(l, b, m)
      BY <1>4, <3>1 DEF Has
    <3> QED BY <2>2, <3>2
  <2> QED BY <2>1, <2>2
<1> QED BY <1>3, <1>7, <1>8, <1>9 DEF i

\* The first item in memory is a whole run of bytes in memory, and the first one.
LEMMA FirstIsRun ==
    ASSUME NEW l, Sorted(l), Mergeable(l) = {}, FirstInMemory(l) # 0
    PROVE  LET item == l[FirstInMemory(l)]
           IN  /\ item.start \in Nat /\ item.end \in Nat
               /\ item.start < item.end /\ item.end <= MaxSize
               /\ \A b \in Int : item.start <= b /\ b < item.end => Has(l, b, TRUE)
               /\ \A b \in Int : Has(l, b, TRUE) => item.start <= b
               /\ ~Has(l, item.end, TRUE)
<1> DEFINE i == FirstInMemory(l)
<1>1. l \in Seq(Items) /\ Len(l) \in Nat /\ DOMAIN l = 1..Len(l)
  BY DEF Sorted
<1>2. /\ i \in DOMAIN l /\ l[i].memory = TRUE /\ i \in Int
      /\ \A k \in DOMAIN l : l[k].memory => i <= k
  <2>1. i \in DOMAIN l /\ l[i].memory /\ \A k \in DOMAIN l : l[k].memory => i <= k
    BY <1>1, FirstLemma
  <2>2. l[i].memory \in BOOLEAN
    <3>1. l[i] \in Items
      BY <1>1, <2>1
    <3> QED BY <3>1, ItemLemma
  <2> QED BY <1>1, <2>1, <2>2
<1> HIDE DEF i
<1>3. \A k \in DOMAIN l : /\ l[k].start \in Nat /\ l[k].end \in Nat
                          /\ l[k].start < l[k].end /\ l[k].end <= MaxSize
  <2> SUFFICES ASSUME NEW k \in DOMAIN l
               PROVE  /\ l[k].start \in Nat /\ l[k].end \in Nat
                      /\ l[k].start < l[k].end /\ l[k].end <= MaxSize
    OBVIOUS
  <2>1. l[k] \in Items
    BY <1>1
  <2> QED BY <2>1, ItemLemma DEF Sorted
<1>4. \A j, k \in DOMAIN l : j < k => l[j].end <= l[k].start
  BY DEF Sorted
<1>5. \A b \in Int : l[i].start <= b /\ b < l[i].end => Has(l, b, TRUE)
  BY <1>2 DEF Has
<1>6. ASSUME NEW b \in Int, Has(l, b, TRUE) PROVE l[i].start <= b
  <2>1. PICK k \in DOMAIN l : l[k].start <= b /\ b < l[k].end /\ l[k].memory = TRUE
    BY <1>6 DEF Has
  <2>2. k = i \/ l[i].end <= l[k].start
    BY <1>1, <1>2, <1>4, <2>1
  <2> QED BY <1>2, <1>3, <2>1, <2>2
\* An item in memory that began where it ends would have been merged with it.
<1>7. ASSUME Has(l, l[i].end, TRUE) PROVE FALSE
  <2>1. PICK k \in DOMAIN l :
            l[k].start <= l[i].end /\ l[i].end < l[k].end /\ l[k].memory = TRUE
    BY <1>7 DEF Has
  <2>2. k > i
    <3>1. k # i
      BY <1>2, <1>3, <2>1
    <3> QED BY <1>1, <1>2, <2>1, <3>1
  <2>3. i + 1 \in DOMAIN l /\ i \in 1..(Len(l) - 1) /\ (k = i + 1 \/ i + 1 < k)
    BY <1>1, <1>2, <2>1, <2>2
  <2>4. l[i].end <= l[i + 1].start
    BY <1>2, <1>4, <2>3
  <2>5. k = i + 1
    <3> SUFFICES ASSUME i + 1 < k PROVE FALSE
      BY <2>3
    <3>1. l[i + 1].end <= l[k].start
      BY <1>4, <2>1, <2>3
    <3> QED BY <1>2, <1>3, <2>1, <2>3, <2>4, <3>1
  <2>6. l[i].end = l[i + 1].start
    BY <1>2, <1>3, <2>1, <2>3, <2>4, <2>5
  <2>7. i \in Mergeable(l)
    BY <1>2, <2>1, <2>3, <2>5, <2>6 DEF Mergeable
  <2> QED BY <2>7
<1> QED BY <1>2, <1>3, <1>5, <1>6, <1>7 DEF i
-----------------------------------------------------------------------------
(* Holes. *)

\* What a hole leaves in front of it: the items that begin there, up to it.
InFront(l, from) ==
    [i \in 1..Begun(l, from) |-> [l[i] EXCEPT !.end = Min({l[i].end, from})]]

\* What it leaves behind it: the items that do not end before that, from there on.
Behind(l, to) ==
    LET n == Before(l, to)
    IN  [i \in 1..(Len(l) - n) |-> [l[n + i] EXCEPT !.start = Max({l[n + i].start, to})]]

LEMMA MinMaxTwo ==
    ASSUME NEW x \in Nat, NEW y \in Nat
    PROVE  /\ Min({x, y}) = IF x <= y THEN x ELSE y
           /\ Max({x, y}) = IF x <= y THEN y ELSE x
<1>1. Min({x, y}) \in {x, y} /\ \A z \in {x, y} : Min({x, y}) <= z
  BY MinLemma
<1>2. Max({x, y}) \in {x, y} /\ \A z \in {x, y} : z <= Max({x, y})
  <2> DEFINE n == IF x <= y THEN y ELSE x
  <2>1. n \in Nat /\ {x, y} \in SUBSET (0..n)
    OBVIOUS
  <2> QED BY <2>1, MaxLemma
<1> QED BY <1>1, <1>2

LEMMA FunctionIsList ==
    ASSUME NEW n \in Nat, NEW s \in [1..n -> Items]
    PROVE  s \in Seq(Items) /\ Len(s) = n /\ DOMAIN s = 1..n
OBVIOUS

\* The part of the list in front of the hole.
LEMMA InFrontLemma ==
    ASSUME NEW l \in Seq(Items), NEW from \in Nat
    PROVE  LET f == InFront(l, from)
               n == Begun(l, from)
           IN  /\ f \in Seq(Items) /\ Len(f) = n
               /\ \A k \in 1..n :
                      /\ f[k].start = l[k].start /\ f[k].memory = l[k].memory
                      /\ f[k].end = IF l[k].end <= from THEN l[k].end ELSE from
<1> DEFINE f == InFront(l, from)
           n == Begun(l, from)
           e(k) == [l[k] EXCEPT !.end = Min({l[k].end, from})]
<1>1. n \in 0..Len(l) /\ n \in Nat /\ Len(l) \in Nat
  BY BegunLemma
<1>2. f = [k \in 1..n |-> e(k)]
  BY DEF InFront
<1> HIDE DEF n, f
<1>3. \A k \in 1..n :
          /\ e(k) \in Items
          /\ e(k).start = l[k].start /\ e(k).memory = l[k].memory
          /\ e(k).end = IF l[k].end <= from THEN l[k].end ELSE from
  <2> SUFFICES ASSUME NEW k \in 1..n
               PROVE  /\ e(k) \in Items
                      /\ e(k).start = l[k].start /\ e(k).memory = l[k].memory
                      /\ e(k).end = IF l[k].end <= from THEN l[k].end ELSE from
    OBVIOUS
  <2> DEFINE m == Min({l[k].end, from})
  <2>1. l[k] \in Items
    BY <1>1
  <2>2. l[k].start \in Nat /\ l[k].end \in Nat /\ l[k].memory \in BOOLEAN
    BY <2>1, ItemLemma
  <2>3. m = (IF l[k].end <= from THEN l[k].end ELSE from) /\ m \in Nat
    BY <2>2, MinMaxTwo
  <2> HIDE DEF m
  <2>4. [l[k] EXCEPT !.end = m] = [start |-> l[k].start, end |-> m, memory |-> l[k].memory]
    BY <2>1, <2>3, ItemLemma
  <2>5. e(k) = [l[k] EXCEPT !.end = m]
    BY DEF m
  <2> HIDE DEF e
  <2> QED BY <2>2, <2>3, <2>4, <2>5 DEF Items
<1> HIDE DEF e
<1>4. f \in [1..n -> Items] /\ \A k \in 1..n : f[k] = e(k)
  BY <1>2, <1>3
<1>5. f \in Seq(Items) /\ Len(f) = n
  BY <1>1, <1>4, FunctionIsList
<1>6. \A k \in 1..n :
          /\ f[k].start = l[k].start /\ f[k].memory = l[k].memory
          /\ f[k].end = IF l[k].end <= from THEN l[k].end ELSE from
  BY <1>3, <1>4
<1> QED BY <1>5, <1>6 DEF n, f

\* The part of the list behind it.
LEMMA BehindLemma ==
    ASSUME NEW l \in Seq(Items), NEW to \in Nat
    PROVE  LET g == Behind(l, to)
               n == Before(l, to)
           IN  /\ g \in Seq(Items) /\ Len(g) = Len(l) - n
               /\ \A k \in 1..(Len(l) - n) :
                      /\ g[k].end = l[n + k].end /\ g[k].memory = l[n + k].memory
                      /\ g[k].start = IF l[n + k].start <= to THEN to ELSE l[n + k].start
<1> DEFINE g == Behind(l, to)
           n == Before(l, to)
           size == Len(l) - n
           e(k) == [l[n + k] EXCEPT !.start = Max({l[n + k].start, to})]
<1>1. n \in 0..Len(l) /\ n \in Nat /\ Len(l) \in Nat /\ size \in Nat
  BY BeforeLemma
<1>2. g = [k \in 1..size |-> e(k)]
  BY DEF Behind
<1>3. \A k \in 1..size : n + k \in 1..Len(l)
  BY <1>1
<1> HIDE DEF n, g, size
<1>4. \A k \in 1..size :
          /\ e(k) \in Items
          /\ e(k).end = l[n + k].end /\ e(k).memory = l[n + k].memory
          /\ e(k).start = IF l[n + k].start <= to THEN to ELSE l[n + k].start
  <2> SUFFICES ASSUME NEW k \in 1..size
               PROVE  /\ e(k) \in Items
                      /\ e(k).end = l[n + k].end /\ e(k).memory = l[n + k].memory
                      /\ e(k).start = IF l[n + k].start <= to THEN to ELSE l[n + k].start
    OBVIOUS
  <2> DEFINE x == l[n + k]
             m == Max({x.start, to})
  <2>1. x \in Items
    BY <1>3
  <2>2. e(k) = [x EXCEPT !.start = m]
    OBVIOUS
  <2> HIDE DEF e, x
  <2>3. x.start \in Nat /\ x.end \in Nat /\ x.memory \in BOOLEAN
    BY <2>1, ItemLemma
  <2>4. m = (IF x.start <= to THEN to ELSE x.start) /\ m \in Nat
    BY <2>3, MinMaxTwo
  <2> HIDE DEF m
  <2>5. [x EXCEPT !.start = m] = [start |-> m, end |-> x.end, memory |-> x.memory]
    BY <2>1, <2>4, ItemLemma
  <2>6. /\ e(k) \in Items /\ e(k).end = x.end /\ e(k).memory = x.memory
        /\ e(k).start = IF x.start <= to THEN to ELSE x.start
    BY <2>2, <2>3, <2>4, <2>5 DEF Items
  <2> QED BY <2>6 DEF x
<1> HIDE DEF e
<1>5. g \in [1..size -> Items] /\ \A k \in 1..size : g[k] = e(k)
  BY <1>2, <1>4
<1>6. g \in Seq(Items) /\ Len(g) = size
  BY <1>1, <1>5, FunctionIsList
<1>7. \A k \in 1..size :
          /\ g[k].end = l[n + k].end /\ g[k].memory = l[n + k].memory
          /\ g[k].start = IF l[n + k].start <= to THEN to ELSE l[n + k].start
  BY <1>4, <1>5
<1> QED BY <1>6, <1>7 DEF n, g, size

\* What is where after a splice.
LEMMA SplicedLemma ==
    ASSUME NEW a \in Seq(Items), NEW i \in 1..Len(a), NEW q \in Seq(Items)
    PROVE  LET r == Spliced(a, i, q)
           IN  /\ r \in Seq(Items)
               /\ Len(r) = Len(a) - 1 + Len(q)
               /\ \A k \in 1..(Len(a) - 1 + Len(q)) : r[k] =
                      IF k < i THEN a[k]
                      ELSE IF k < i + Len(q) THEN q[k - i + 1] ELSE a[k - Len(q) + 1]
<1> DEFINE x == SubSeq(a, 1, i - 1)
           z == SubSeq(a, i + 1, Len(a))
           y == x \o q
           size == Len(a) - i
           c == Len(q)
<1>1. /\ Len(a) \in Nat /\ c \in Nat /\ size \in Nat /\ i \in Nat /\ i - 1 \in Nat
      /\ \A k \in 1..Len(a) : a[k] \in Items
  OBVIOUS
<1>2. /\ x \in Seq(Items) /\ Len(x) = i - 1
      /\ \A k \in 1..(i - 1) : x[k] = a[k]
  BY <1>1, SubSeqProperties
<1>3. /\ z \in Seq(Items) /\ Len(z) = size
      /\ \A k \in 1..size : z[k] = a[i + k]
  <2>1. /\ z \in Seq(Items) /\ Len(z) = size
        /\ \A k \in 1..size : z[k] = a[i + 1 + k - 1]
    BY <1>1, SubSeqProperties
  <2>2. \A k \in 1..size : i + 1 + k - 1 = i + k
    BY <1>1
  <2> QED BY <2>1, <2>2
<1> HIDE DEF x, z
<1>4. /\ y \in Seq(Items) /\ Len(y) = i - 1 + c
      /\ \A k \in 1..(i - 1 + c) : y[k] = IF k <= i - 1 THEN x[k] ELSE q[k - (i - 1)]
  <2>1. /\ y \in Seq(Items)
        /\ Len(y) = Len(x) + Len(q)
        /\ \A k \in 1..(Len(x) + Len(q)) : y[k] =
               IF k <= Len(x) THEN x[k] ELSE q[k - Len(x)]
    BY <1>2, ConcatProperties
  <2> HIDE DEF y
  <2> QED BY <1>2, <2>1
<1> HIDE DEF y, c
<1>5. /\ y \o z \in Seq(Items) /\ Len(y \o z) = i - 1 + c + size
      /\ \A k \in 1..(i - 1 + c + size) : (y \o z)[k] =
             IF k <= i - 1 + c THEN y[k] ELSE z[k - (i - 1 + c)]
  <2>1. /\ y \o z \in Seq(Items)
        /\ Len(y \o z) = Len(y) + Len(z)
        /\ \A k \in 1..(Len(y) + Len(z)) : (y \o z)[k] =
               IF k <= Len(y) THEN y[k] ELSE z[k - Len(y)]
    BY <1>3, <1>4, ConcatProperties
  <2> QED BY <1>3, <1>4, <2>1
<1>6. i - 1 + c + size = Len(a) - 1 + c
  BY <1>1
<1>7. ASSUME NEW k \in 1..(Len(a) - 1 + c)
      PROVE  (y \o z)[k] =
                 IF k < i THEN a[k] ELSE IF k < i + c THEN q[k - i + 1] ELSE a[k - c + 1]
  <2>1. CASE k < i
    <3>1. k \in 1..(i - 1) /\ k <= i - 1 + c /\ k \in 1..(i - 1 + c + size)
      BY <1>1, <2>1
    <3>2. (y \o z)[k] = y[k] /\ y[k] = x[k]
      BY <1>1, <1>4, <1>5, <3>1
    <3> QED BY <1>2, <2>1, <3>1, <3>2
  <2>2. CASE ~(k < i) /\ k < i + c
    <3>1. /\ k \in 1..(i - 1 + c) /\ ~(k <= i - 1) /\ k - (i - 1) = k - i + 1
          /\ k \in 1..(i - 1 + c + size) /\ k <= i - 1 + c
      BY <1>1, <2>2
    <3> QED BY <1>4, <1>5, <2>2, <3>1
  <2>3. CASE ~(k < i) /\ ~(k < i + c)
    <3>1. /\ ~(k <= i - 1 + c) /\ k - (i - 1 + c) \in 1..size
          /\ i + (k - (i - 1 + c)) = k - c + 1 /\ k \in 1..(i - 1 + c + size)
      BY <1>1, <2>3
    <3> QED BY <1>3, <1>5, <2>3, <3>1
  <2> QED BY <2>1, <2>2, <2>3
<1>8. Spliced(a, i, q) = y \o z
  BY DEF Spliced, x, y, z
<1>9. c = Len(q)
  BY DEF c
<1> QED BY <1>5, <1>6, <1>7, <1>8, <1>9

\* Two lists of the same length with the same items.
LEMMA SameList ==
    ASSUME NEW a \in Seq(Items), NEW b \in Seq(Items), Len(a) = Len(b),
           \A k \in 1..Len(a) : a[k] = b[k]
    PROVE  a = b
<1>1. /\ a \in [1..Len(a) -> Items] /\ b \in [1..Len(b) -> Items]
      /\ a = [k \in 1..Len(a) |-> a[k]] /\ b = [k \in 1..Len(b) |-> b[k]]
  OBVIOUS
<1> QED BY <1>1

\* An item that is cut at the beginning of the hole, and one that is cut at its end.
FrontOf(item, from) == [item EXCEPT !.end = Min({item.end, from})]
BackOf(item, to) == [item EXCEPT !.start = Max({item.start, to})]

\* When the first n items are left to look at: the last item whose front is in the
\* list, and the last one whose back is not.
LastFront(l, from, n) == IF n < Begun(l, from) THEN Begun(l, from) ELSE n
LastGone(l, to, n) == IF n < Before(l, to) THEN Before(l, to) ELSE n

\* The list when the first n items are left to look at: they are as they were, the
\* rest is what the hole leaves of it.
Half(l, from, to, n) ==
    LET m == LastFront(l, from, n)
        p == LastGone(l, to, n)
    IN  [k \in 1..(m + Len(l) - p) |->
            IF k <= n THEN l[k]
            ELSE IF k <= m THEN FrontOf(l[k], from) ELSE BackOf(l[k - m + p], to)]

LEMMA EndsLemma ==
    ASSUME NEW x \in Items, NEW from \in Nat, NEW to \in Nat
    PROVE  /\ FrontOf(x, from) \in Items /\ BackOf(x, to) \in Items
           /\ FrontOf(x, from) = IF x.end <= from THEN x ELSE [x EXCEPT !.end = from]
           /\ BackOf(x, to) = IF x.start <= to THEN [x EXCEPT !.start = to] ELSE x
<1>1. x.start \in Nat /\ x.end \in Nat /\ x.memory \in BOOLEAN
  BY ItemLemma
<1>2. /\ Min({x.end, from}) = IF x.end <= from THEN x.end ELSE from
      /\ Max({x.start, to}) = IF x.start <= to THEN to ELSE x.start
  BY <1>1, MinMaxTwo
<1>3. /\ [x EXCEPT !.end = x.end] = x /\ [x EXCEPT !.start = x.start] = x
  BY DEF Items
<1>4. /\ FrontOf(x, from) = IF x.end <= from THEN x ELSE [x EXCEPT !.end = from]
      /\ BackOf(x, to) = IF x.start <= to THEN [x EXCEPT !.start = to] ELSE x
  BY <1>2, <1>3 DEF FrontOf, BackOf
<1>5. [x EXCEPT !.end = from] \in Items /\ [x EXCEPT !.start = to] \in Items
  BY <1>1 DEF Items
<1> QED BY <1>4, <1>5

\* What the loop body leaves of an item that lies in order.
LEMMA CutLemma ==
    ASSUME NEW x \in Items, x.start < x.end, NEW from \in Nat, NEW to \in Nat, from < to
    PROVE  /\ Cut(x, from, to) \in Seq(Items)
           /\ Cut(x, from, to) =
                  IF x.start < from
                  THEN IF x.end <= to THEN <<FrontOf(x, from)>>
                       ELSE <<FrontOf(x, from), BackOf(x, to)>>
                  ELSE IF x.end <= to THEN <<>> ELSE <<BackOf(x, to)>>
<1>1. x.start \in Nat /\ x.end \in Nat
  BY ItemLemma
<1> DEFINE f == FrontOf(x, from)
           b == BackOf(x, to)
           ff == [x EXCEPT !.end = from]
           bb == [x EXCEPT !.start = to]
<1>2. /\ f \in Items /\ b \in Items
      /\ f = IF x.end <= from THEN x ELSE ff
      /\ b = IF x.start <= to THEN bb ELSE x
  BY EndsLemma
<1>3. Cut(x, from, to) =
          IF x.start >= to \/ x.end <= from THEN <<x>>
          ELSE IF from <= x.start /\ to >= x.end THEN <<>>
          ELSE IF from <= x.start THEN <<bb>>
          ELSE IF to >= x.end THEN <<ff>>
          ELSE <<ff, bb>>
  BY DEF Cut
<1>4. x.start = to => bb = x
  BY DEF Items
<1> HIDE DEF f, b, ff, bb
<1>5. Cut(x, from, to) =
          IF x.start < from
          THEN IF x.end <= to THEN <<f>> ELSE <<f, b>>
          ELSE IF x.end <= to THEN <<>> ELSE <<b>>
  BY <1>1, <1>2, <1>3, <1>4
<1>6. <<f>> \in Seq(Items) /\ <<b>> \in Seq(Items) /\ <<f, b>> \in Seq(Items) /\ <<>> \in Seq(Items)
  BY <1>2
<1> QED BY <1>5, <1>6 DEF f, b

\* The halves are lists of items.
LEMMA HalfLemma ==
    ASSUME NEW l \in Seq(Items), NEW from \in Nat, NEW to \in Nat, NEW n \in 0..Len(l)
    PROVE  LET m == LastFront(l, from, n)
               p == LastGone(l, to, n)
               h == Half(l, from, to, n)
           IN  /\ h \in Seq(Items) /\ Len(h) = m + Len(l) - p
               /\ \A k \in 1..(m + Len(l) - p) : h[k] =
                      IF k <= n THEN l[k]
                      ELSE IF k <= m THEN FrontOf(l[k], from) ELSE BackOf(l[k - m + p], to)
<1> DEFINE m == LastFront(l, from, n)
           p == LastGone(l, to, n)
           h == Half(l, from, to, n)
           e(k) == IF k <= n THEN l[k]
                   ELSE IF k <= m THEN FrontOf(l[k], from) ELSE BackOf(l[k - m + p], to)
<1>1. m \in n..Len(l) /\ p \in n..Len(l) /\ Len(l) \in Nat /\ n \in Nat
  BY BegunLemma, BeforeLemma DEF LastFront, LastGone
<1>2. h = [k \in 1..(m + Len(l) - p) |-> e(k)]
  BY DEF Half
<1> HIDE DEF m, p, h
<1>3. m + Len(l) - p \in Nat
  BY <1>1
<1>4. ASSUME NEW k \in 1..(m + Len(l) - p) PROVE e(k) \in Items
  <2>1. k <= m => k \in 1..Len(l)
    BY <1>1
  <2>2. ~(k <= m) => k - m + p \in 1..Len(l)
    BY <1>1
  <2>3. \A j \in 1..Len(l) : l[j] \in Items
    OBVIOUS
  <2>4. k <= n => k <= m
    BY <1>1
  <2>5. \A x \in Items : FrontOf(x, from) \in Items /\ BackOf(x, to) \in Items
    BY EndsLemma
  <2> QED BY <2>1, <2>2, <2>3, <2>4, <2>5
<1> HIDE DEF e
<1>5. h \in Seq(Items) /\ Len(h) = m + Len(l) - p /\ \A k \in 1..(m + Len(l) - p) : h[k] = e(k)
  BY <1>2, <1>3, <1>4, FunctionIsList
<1> QED BY <1>5 DEF m, p, h, e

\* One round of the loop.
LEMMA HalfStep ==
    ASSUME NEW l, Sorted(l), NEW from \in Nat, NEW to \in Nat, from < to, NEW i \in 1..Len(l)
    PROVE  LET h == Half(l, from, to, i)
           IN  Half(l, from, to, i - 1) = Spliced(h, i, Cut(h[i], from, to))
<1> DEFINE size == Len(l)
           n == Begun(l, from)
           o == Before(l, to)
           m == LastFront(l, from, i)
           p == LastGone(l, to, i)
           mm == LastFront(l, from, i - 1)
           pp == LastGone(l, to, i - 1)
           h == Half(l, from, to, i)
           hh == Half(l, from, to, i - 1)
           q == Cut(l[i], from, to)
           r == Spliced(h, i, q)
<1>1. /\ l \in Seq(Items) /\ size \in Nat /\ DOMAIN l = 1..size /\ i \in 1..size
      /\ \A k \in 1..size : l[k] \in Items /\ l[k].start \in Nat /\ l[k].end \in Nat
                            /\ l[k].start < l[k].end
      /\ \A j, k \in 1..size : j < k => l[j].end <= l[k].start
  <2>1. l \in Seq(Items) /\ size \in Nat /\ DOMAIN l = 1..size
    BY DEF Sorted
  <2>2. \A k \in 1..size : l[k] \in Items
    BY <2>1
  <2>3. \A k \in 1..size : l[k].start \in Nat /\ l[k].end \in Nat
    BY <2>2, ItemLemma
  <2> QED BY <2>1, <2>2, <2>3 DEF Sorted
<1>2. /\ n \in 0..size
      /\ n # 0 => l[n].start < from
      /\ \A k \in 1..size : l[k].start < from => k <= n
  BY <1>1, BegunLemma
<1>3. /\ o \in 0..size
      /\ o # 0 => l[o].end <= to
      /\ \A k \in 1..size : l[k].end <= to => k <= o
  BY <1>1, BeforeLemma
<1>4. /\ h \in Seq(Items) /\ Len(h) = m + size - p
      /\ \A k \in 1..(m + size - p) : h[k] =
             IF k <= i THEN l[k]
             ELSE IF k <= m THEN FrontOf(l[k], from) ELSE BackOf(l[k - m + p], to)
  <2>1. i \in 0..size /\ l \in Seq(Items)
    BY <1>1
  <2> QED BY <2>1, HalfLemma
<1>5. /\ hh \in Seq(Items) /\ Len(hh) = mm + size - pp
      /\ \A k \in 1..(mm + size - pp) : hh[k] =
             IF k <= i - 1 THEN l[k]
             ELSE IF k <= mm THEN FrontOf(l[k], from) ELSE BackOf(l[k - mm + pp], to)
  <2>1. i - 1 \in 0..size /\ l \in Seq(Items)
    BY <1>1
  <2> QED BY <2>1, HalfLemma
<1>6. /\ q \in Seq(Items)
      /\ q = IF l[i].start < from
             THEN IF l[i].end <= to THEN <<FrontOf(l[i], from)>>
                  ELSE <<FrontOf(l[i], from), BackOf(l[i], to)>>
             ELSE IF l[i].end <= to THEN <<>> ELSE <<BackOf(l[i], to)>>
  BY <1>1, CutLemma
<1>0. /\ m = (IF i < n THEN n ELSE i) /\ mm = (IF i - 1 < n THEN n ELSE i - 1)
      /\ p = (IF i < o THEN o ELSE i) /\ pp = (IF i - 1 < o THEN o ELSE i - 1)
  BY DEF LastFront, LastGone
<1> HIDE DEF size, n, o, h, hh, q, r, m, p, mm, pp
<1>7. (l[i].start < from <=> i <= n) /\ (l[i].end <= to <=> i <= o)
  <2>1. i <= n => l[i].start < from
    <3>1. CASE i = n
      BY <1>1, <1>2, <3>1
    <3>2. CASE i < n
      <4>1. n \in 1..size /\ n # 0
        BY <1>1, <1>2, <3>2
      <4>2. l[i].end <= l[n].start /\ l[n].start < from /\ l[n].start \in Nat
        BY <1>1, <1>2, <3>2, <4>1
      <4> QED BY <1>1, <4>2
    <3> QED BY <1>1, <1>2, <3>1, <3>2
  <2>2. i <= o => l[i].end <= to
    <3>1. CASE i = o
      BY <1>1, <1>3, <3>1
    <3>2. CASE i < o
      <4>1. o \in 1..size /\ o # 0
        BY <1>1, <1>3, <3>2
      <4>2. l[i].end <= l[o].start /\ l[o].end <= to /\ l[o].start \in Nat
            /\ l[o].end \in Nat /\ l[o].start < l[o].end
        BY <1>1, <1>3, <3>2, <4>1
      <4> QED BY <1>1, <4>2
    <3> QED BY <1>1, <1>3, <3>1, <3>2
  <2> QED BY <1>1, <1>2, <1>3, <2>1, <2>2
<1>8. i <= n /\ ~(i <= o) => n = i /\ o = i - 1
  <2> SUFFICES ASSUME i <= n, ~(i <= o) PROVE n = i /\ o = i - 1
    OBVIOUS
  <2>1. ~(i < n)
    <3> SUFFICES ASSUME i < n PROVE FALSE
      OBVIOUS
    <3>1. n \in 1..size /\ n # 0
      BY <1>1, <1>2
    <3>2. l[i].end <= l[n].start /\ l[n].start < from /\ l[n].start \in Nat
      BY <1>1, <1>2, <3>1
    <3> QED BY <1>1, <1>7, <3>2
  <2>2. ~(o < i - 1)
    <3> SUFFICES ASSUME o < i - 1 PROVE FALSE
      OBVIOUS
    <3>1. i - 1 \in 1..size /\ i - 1 < i /\ ~(i - 1 <= o)
      BY <1>1, <1>3
    <3>2. l[i - 1].end <= l[i].start /\ l[i].start < from
      BY <1>1, <1>7, <3>1
    <3>3. l[i - 1].end <= to /\ l[i - 1].end \in Nat
      BY <1>1, <3>1, <3>2
    <3> QED BY <1>3, <3>1, <3>3
  <2> QED BY <1>1, <1>2, <1>3, <2>1, <2>2
<1>9. i \in 1..Len(h) /\ h[i] = l[i]
  BY <1>0, <1>1, <1>2, <1>3, <1>4
<1>10. /\ r \in Seq(Items)
       /\ Len(r) = Len(h) - 1 + Len(q)
       /\ \A k \in 1..(Len(h) - 1 + Len(q)) : r[k] =
              IF k < i THEN h[k]
              ELSE IF k < i + Len(q) THEN q[k - i + 1] ELSE h[k - Len(q) + 1]
  <2>1. h \in Seq(Items) /\ q \in Seq(Items)
    BY <1>4, <1>6
  <2> QED BY <1>9, <2>1, SplicedLemma DEF r
<1>11. hh = r
  <2>1. CASE ~(i <= n) /\ ~(i <= o)
    <3>1. q = <<BackOf(l[i], to)>> /\ Len(q) = 1 /\ q[1] = BackOf(l[i], to)
      BY <1>6, <1>7, <2>1
    <3>2. m = i /\ p = i /\ mm = i - 1 /\ pp = i - 1
      BY <1>0, <1>1, <1>2, <1>3, <2>1
    <3>3. Len(h) = size /\ Len(hh) = size /\ Len(r) = size
      BY <1>1, <1>4, <1>5, <1>10, <3>1, <3>2
    <3>4. ASSUME NEW k \in 1..size PROVE hh[k] = r[k]
      <4>1. hh[k] = IF k <= i - 1 THEN l[k] ELSE BackOf(l[k], to)
        <5>1. k - (i - 1) + (i - 1) = k /\ (i - 1) + size - (i - 1) = size
          BY <1>1
        <5> QED BY <1>5, <3>2, <5>1
      <4>2. r[k] = IF k < i THEN h[k] ELSE IF k < i + 1 THEN BackOf(l[i], to) ELSE h[k]
        <5>1. /\ size - 1 + 1 = size /\ k - 1 + 1 = k
              /\ ~(k < i) /\ k < i + 1 => k - i + 1 = 1
          BY <1>1
        <5> QED BY <1>10, <3>1, <3>3, <5>1
      <4>3. h[k] = IF k <= i THEN l[k] ELSE BackOf(l[k], to)
        <5>1. k - i + i = k /\ i + size - i = size
          BY <1>1
        <5> QED BY <1>4, <3>2, <5>1
      <4> QED BY <1>1, <4>1, <4>2, <4>3
    <3> QED BY <1>5, <1>10, <3>3, <3>4, SameList
  <2>2. CASE ~(i <= n) /\ i <= o
    <3>1. q = <<>> /\ Len(q) = 0
      BY <1>6, <1>7, <2>2
    <3>2. m = i /\ p = o /\ mm = i - 1 /\ pp = o
      BY <1>0, <1>1, <1>2, <1>3, <2>2
    <3>3. Len(h) = i + size - o /\ Len(hh) = i - 1 + size - o /\ Len(r) = i - 1 + size - o
      BY <1>1, <1>3, <1>4, <1>5, <1>10, <3>1, <3>2
    <3>4. ASSUME NEW k \in 1..(i - 1 + size - o) PROVE hh[k] = r[k]
      <4>1. hh[k] = IF k <= i - 1 THEN l[k] ELSE BackOf(l[k - (i - 1) + o], to)
        BY <1>1, <1>3, <1>5, <3>2
      <4>2. r[k] = IF k < i THEN h[k] ELSE h[k + 1]
        <5>1. i + size - o - 1 + 0 = i - 1 + size - o /\ i + 0 = i /\ k - 0 + 1 = k + 1
          BY <1>1, <1>3
        <5> QED BY <1>10, <3>1, <3>3, <5>1
      <4>3. k < i => h[k] = l[k]
        BY <1>1, <1>3, <1>4, <3>2
      <4>4. ~(k < i) => h[k + 1] = BackOf(l[k + 1 - i + o], to)
        <5>1. ~(k < i) => ~(k + 1 <= i) /\ k + 1 \in 1..(i + size - o)
          BY <1>1, <1>3
        <5> QED BY <1>4, <3>2, <5>1
      <4>5. k - (i - 1) + o = k + 1 - i + o
        BY <1>1, <1>3
      <4> QED BY <1>1, <4>1, <4>2, <4>3, <4>4, <4>5
    <3> QED BY <1>5, <1>10, <3>3, <3>4, SameList
  <2>3. CASE i <= n /\ i <= o
    <3>1. q = <<FrontOf(l[i], from)>> /\ Len(q) = 1 /\ q[1] = FrontOf(l[i], from)
      BY <1>6, <1>7, <2>3
    <3>2. m = n /\ p = o /\ mm = n /\ pp = o
      BY <1>0, <1>1, <1>2, <1>3, <2>3
    <3>3. /\ Len(h) = n + size - o /\ Len(hh) = n + size - o /\ Len(r) = n + size - o
      BY <1>1, <1>2, <1>3, <1>4, <1>5, <1>10, <3>1, <3>2
    <3>4. ASSUME NEW k \in 1..(n + size - o) PROVE hh[k] = r[k]
      <4>1. hh[k] = IF k <= i - 1 THEN l[k]
                    ELSE IF k <= n THEN FrontOf(l[k], from) ELSE BackOf(l[k - n + o], to)
        BY <1>1, <1>2, <1>3, <1>5, <3>2
      <4>2. r[k] = IF k < i THEN h[k] ELSE IF k < i + 1 THEN FrontOf(l[i], from) ELSE h[k]
        <5>1. /\ n + size - o - 1 + 1 = n + size - o /\ k - 1 + 1 = k
              /\ ~(k < i) /\ k < i + 1 => k - i + 1 = 1
          BY <1>1, <1>2, <1>3
        <5> QED BY <1>10, <3>1, <3>3, <5>1
      <4>3. h[k] = IF k <= i THEN l[k]
                   ELSE IF k <= n THEN FrontOf(l[k], from) ELSE BackOf(l[k - n + o], to)
        BY <1>1, <1>2, <1>3, <1>4, <3>2
      <4> QED BY <1>1, <1>2, <1>3, <2>3, <4>1, <4>2, <4>3
    <3> QED BY <1>5, <1>10, <3>3, <3>4, SameList
  <2>4. CASE i <= n /\ ~(i <= o)
    <3>1. /\ q = <<FrontOf(l[i], from), BackOf(l[i], to)>> /\ Len(q) = 2
          /\ q[1] = FrontOf(l[i], from) /\ q[2] = BackOf(l[i], to)
      BY <1>6, <1>7, <2>4
    <3>2. n = i /\ o = i - 1 /\ m = i /\ p = i /\ mm = i /\ pp = i - 1
      BY <1>0, <1>1, <1>2, <1>3, <1>8, <2>4
    <3>3. Len(h) = size /\ Len(hh) = size + 1 /\ Len(r) = size + 1
      BY <1>1, <1>4, <1>5, <1>10, <3>1, <3>2
    <3>4. ASSUME NEW k \in 1..(size + 1) PROVE hh[k] = r[k]
      <4>1. hh[k] = IF k <= i - 1 THEN l[k]
                    ELSE IF k <= i THEN FrontOf(l[k], from) ELSE BackOf(l[k - 1], to)
        <5>1. k - i + (i - 1) = k - 1 /\ i + size - (i - 1) = size + 1
          BY <1>1
        <5> QED BY <1>5, <3>2, <5>1
      <4>2. r[k] = IF k < i THEN h[k] ELSE IF k < i + 2 THEN q[k - i + 1] ELSE h[k - 1]
        <5>1. k - 2 + 1 = k - 1 /\ Len(h) - 1 + Len(q) = size + 1
          BY <1>1, <3>1, <3>3
        <5> QED BY <1>10, <3>1, <5>1
      <4>3. CASE k < i
        <5>1. k \in 1..size /\ k <= i /\ k <= i - 1
          BY <1>1, <4>3
        <5>2. h[k] = l[k]
          BY <1>1, <1>4, <3>2, <5>1
        <5> QED BY <4>1, <4>2, <4>3, <5>1, <5>2
      <4>4. CASE k = i
        <5>1. k - i + 1 = 1 /\ k <= i /\ ~(k <= i - 1) /\ ~(k < i) /\ k < i + 2
          BY <1>1, <4>4
        <5> QED BY <3>1, <4>1, <4>2, <4>4, <5>1
      <4>5. CASE k = i + 1
        <5>1. /\ k - i + 1 = 2 /\ ~(k <= i) /\ ~(k <= i - 1) /\ ~(k < i) /\ k < i + 2
              /\ k - 1 = i
          BY <1>1, <4>5
        <5> QED BY <3>1, <4>1, <4>2, <5>1
      <4>6. CASE k > i + 1
        <5>1. /\ ~(k <= i) /\ ~(k <= i - 1) /\ ~(k < i) /\ ~(k < i + 2)
              /\ k - 1 \in 1..size /\ ~(k - 1 <= i) /\ k - 1 - i + i = k - 1
              /\ i + size - i = size
          BY <1>1, <4>6
        <5>2. h[k - 1] = BackOf(l[k - 1], to)
          BY <1>4, <3>2, <5>1
        <5> QED BY <4>1, <4>2, <5>1, <5>2
      <4> QED BY <1>1, <4>3, <4>4, <4>5, <4>6
    <3> QED BY <1>1, <1>5, <1>10, <3>3, <3>4, SameList
  <2> QED BY <2>1, <2>2, <2>3, <2>4
<1> QED BY <1>9, <1>11 DEF h, hh, q, r

\* The walk of punchHole(), from the last item to the first, leaves what is in front
\* of the hole and what is behind it: the recursion has a solution, Half, and no
\* other one.
LEMMA WalkLemma ==
    ASSUME NEW l, Sorted(l), NEW from \in Nat, NEW to \in Nat, from < to
    PROVE  PunchList(l, from, to) = InFront(l, from) \o Behind(l, to)
<1> DEFINE D == 0..Len(l)
           W(n) == Half(l, from, to, n)
           Round(f, n) == Spliced(f[n + 1], n + 1, Cut(f[n + 1][n + 1], from, to))
           Solves(f) == f = [n \in D |-> IF n = Len(l) THEN l ELSE Round(f, n)]
           g == [n \in D |-> W(n)]
           h == CHOOSE f : Solves(f)
<1>1. l \in Seq(Items) /\ Len(l) \in Nat
  BY DEF Sorted
<1>2. Begun(l, from) \in 0..Len(l) /\ Before(l, to) \in 0..Len(l)
  BY <1>1, BegunLemma, BeforeLemma
<1>3. \A n \in D : n # Len(l) => n + 1 \in D /\ n + 1 \in 1..Len(l) /\ n + 1 - 1 = n
  BY <1>1
<1>4. W(Len(l)) = l
  <2> DEFINE n == Len(l)
  <2>1. /\ W(n) \in Seq(Items) /\ Len(W(n)) = n
        /\ \A k \in 1..n : W(n)[k] = l[k]
    <3> DEFINE m == LastFront(l, from, n)
               p == LastGone(l, to, n)
    <3>1. /\ W(n) \in Seq(Items) /\ Len(W(n)) = m + n - p
          /\ \A k \in 1..(m + n - p) : W(n)[k] =
                 IF k <= n THEN l[k]
                 ELSE IF k <= m THEN FrontOf(l[k], from) ELSE BackOf(l[k - m + p], to)
      <4>1. n \in 0..Len(l)
        BY <1>1
      <4> QED BY <1>1, <4>1, HalfLemma
    <3>2. m = n /\ p = n
      BY <1>1, <1>2 DEF LastFront, LastGone
    <3> HIDE DEF W, m, p
    <3>3. m + n - p = n /\ \A k \in 1..n : k <= n
      BY <1>1, <3>2
    <3> QED BY <3>1, <3>3
  <2> HIDE DEF W
  <2> QED BY <1>1, <2>1, SameList
<1>5. \A n \in D : n # Len(l) => W(n) = Spliced(W(n + 1), n + 1, Cut(W(n + 1)[n + 1], from, to))
  <2> SUFFICES ASSUME NEW n \in D, n # Len(l)
               PROVE  W(n) = Spliced(W(n + 1), n + 1, Cut(W(n + 1)[n + 1], from, to))
    OBVIOUS
  <2>1. n + 1 \in 1..Len(l) /\ n + 1 - 1 = n
    BY <1>3
  <2>2. LET i == n + 1 IN W(i - 1) = Spliced(W(i), i, Cut(W(i)[i], from, to))
    BY <2>1, HalfStep
  <2> QED BY <2>1, <2>2
<1>6. PunchList(l, from, to) = h[0]
  BY DEF PunchList
<1> HIDE DEF W
<1>7. Solves(g)
  <2>1. ASSUME NEW n \in D
        PROVE  W(n) = IF n = Len(l) THEN l ELSE Round(g, n)
    <3>1. CASE n = Len(l)
      BY <1>4, <3>1
    <3>2. CASE n # Len(l)
      <4>1. g[n + 1] = W(n + 1)
        BY <1>3, <3>2
      <4> QED BY <1>5, <3>2, <4>1
    <3> QED BY <3>1, <3>2
  <2> QED BY <2>1
<1>8. Solves(h)
  BY <1>7
<1>9. h = [n \in D |-> IF n = Len(l) THEN l ELSE Round(h, n)]
  BY <1>8
<1> HIDE DEF h
<1> DEFINE wrong == {n \in D : h[n] # W(n)}
<1>10. wrong = {}
  <2> SUFFICES ASSUME wrong # {} PROVE FALSE
    OBVIOUS
  <2>1. wrong \in SUBSET (0..Len(l))
    OBVIOUS
  <2> DEFINE n == Max(wrong)
  <2>2. n \in wrong /\ \A k \in wrong : k <= n
    BY <1>1, <2>1, MaxLemma
  <2> HIDE DEF n
  <2>3. n \in D /\ h[n] # W(n)
    BY <2>2
  <2>4. n # Len(l)
    BY <1>4, <1>9, <2>3
  <2>5. n + 1 \in D /\ n + 1 \notin wrong
    <3>1. n + 1 \in D /\ ~(n + 1 <= n)
      BY <1>1, <1>3, <2>3, <2>4
    <3> QED BY <2>2, <3>1
  <2>6. h[n + 1] = W(n + 1)
    BY <2>5
  <2>7. h[n] = Round(h, n)
    BY <1>9, <2>3, <2>4
  <2> QED BY <1>5, <2>3, <2>4, <2>6, <2>7
<1>11. h[0] = W(0)
  BY <1>1, <1>10
<1>12. W(0) = InFront(l, from) \o Behind(l, to)
  <2> DEFINE n == Begun(l, from)
             o == Before(l, to)
             size == Len(l) - o
             a == InFront(l, from)
             b == Behind(l, to)
  <2>1. n \in 0..Len(l) /\ o \in 0..Len(l) /\ n \in Nat /\ o \in Nat /\ size \in Nat
    BY <1>1, <1>2
  <2>2. /\ a \in Seq(Items) /\ Len(a) = n
        /\ \A k \in 1..n : a[k] = FrontOf(l[k], from)
    BY <1>1, InFrontLemma DEF InFront, FrontOf
  <2>3. /\ b \in Seq(Items) /\ Len(b) = size
        /\ \A k \in 1..size : b[k] = BackOf(l[o + k], to)
    BY <1>1, BehindLemma DEF Behind, BackOf
  <2>4. /\ W(0) \in Seq(Items) /\ Len(W(0)) = n + size
        /\ \A k \in 1..(n + size) : W(0)[k] =
               IF k <= n THEN FrontOf(l[k], from) ELSE BackOf(l[k - n + o], to)
    <3> DEFINE m == LastFront(l, from, 0)
               p == LastGone(l, to, 0)
    <3>1. /\ W(0) \in Seq(Items) /\ Len(W(0)) = m + Len(l) - p
          /\ \A k \in 1..(m + Len(l) - p) : W(0)[k] =
                 IF k <= 0 THEN l[k]
                 ELSE IF k <= m THEN FrontOf(l[k], from) ELSE BackOf(l[k - m + p], to)
      <4>1. 0 \in 0..Len(l)
        BY <1>1
      <4> QED BY <1>1, <4>1, HalfLemma DEF W
    <3>2. m = n /\ p = o
      BY <1>1, <2>1 DEF LastFront, LastGone
    <3> HIDE DEF n, o, m, p
    <3>4. m + Len(l) - p = n + size
      BY <1>1, <2>1, <3>2
    <3>3. \A k \in 1..(n + size) : ~(k <= 0)
      OBVIOUS
    <3> HIDE DEF size
    <3> QED BY <3>1, <3>2, <3>3, <3>4
  <2> HIDE DEF n, o, size, a, b
  <2>5. /\ a \o b \in Seq(Items) /\ Len(a \o b) = n + size
        /\ \A k \in 1..(n + size) : (a \o b)[k] = IF k <= n THEN a[k] ELSE b[k - n]
    <3>1. /\ a \o b \in Seq(Items)
          /\ Len(a \o b) = Len(a) + Len(b)
          /\ \A k \in 1..(Len(a) + Len(b)) : (a \o b)[k] =
                 IF k <= Len(a) THEN a[k] ELSE b[k - Len(a)]
      BY <2>2, <2>3, ConcatProperties
    <3> QED BY <2>2, <2>3, <3>1
  <2>6. ASSUME NEW k \in 1..(n + size) PROVE W(0)[k] = (a \o b)[k]
    <3>1. CASE k <= n
      BY <2>1, <2>2, <2>4, <2>5, <3>1
    <3>2. CASE ~(k <= n)
      <4>1. k - n \in 1..size /\ o + (k - n) = k - n + o
        BY <2>1, <3>2
      <4> QED BY <2>3, <2>4, <2>5, <3>2, <4>1
    <3> QED BY <3>1, <3>2
  <2>7. W(0) = a \o b
    BY <2>4, <2>5, <2>6, SameList
  <2> QED BY <2>7 DEF a, b
<1> QED BY <1>6, <1>11, <1>12

\* A hole takes away its bytes, and leaves no two neighbours to merge.
LEMMA PunchKeeps ==
    ASSUME NEW l, Sorted(l), Mergeable(l) = {},
           NEW from \in Nat, NEW to \in Nat, from < to
    PROVE  LET r == PunchList(l, from, to)
           IN  /\ Sorted(r)
               /\ Mergeable(r) = {}
               /\ \A b \in Int, m \in BOOLEAN :
                      Has(r, b, m) <=> Has(l, b, m) /\ ~(from <= b /\ b < to)
<1> DEFINE f == InFront(l, from)
           g == Behind(l, to)
           n == Begun(l, from)
           o == Before(l, to)
           size == Len(l) - o
           r == PunchList(l, from, to)
<1>1. l \in Seq(Items) /\ Len(l) \in Nat /\ DOMAIN l = 1..Len(l)
  BY DEF Sorted
<1>2. /\ n \in 0..Len(l)
      /\ n # 0 => l[n].start < from
      /\ \A k \in DOMAIN l : l[k].start < from => k <= n
  BY <1>1, BegunLemma
<1>3. /\ o \in 0..Len(l)
      /\ o # 0 => l[o].end <= to
      /\ \A k \in DOMAIN l : l[k].end <= to => k <= o
  BY <1>1, BeforeLemma
<1>4. /\ f \in Seq(Items) /\ Len(f) = n
      /\ \A k \in 1..n :
             /\ f[k].start = l[k].start /\ f[k].memory = l[k].memory
             /\ f[k].end = IF l[k].end <= from THEN l[k].end ELSE from
  BY <1>1, InFrontLemma
<1>5. /\ g \in Seq(Items) /\ Len(g) = size
      /\ \A k \in 1..size :
             /\ g[k].end = l[o + k].end /\ g[k].memory = l[o + k].memory
             /\ g[k].start = IF l[o + k].start <= to THEN to ELSE l[o + k].start
  BY <1>1, BehindLemma
<1>6. r = f \o g
  BY WalkLemma
<1> HIDE DEF f, g, n, o, r
<1>7. /\ n \in Nat /\ o \in Nat /\ size \in Nat
      /\ \A k \in 1..n : k \in DOMAIN l
      /\ \A k \in 1..size : o + k \in DOMAIN l
      /\ \A k \in DOMAIN l : k > o => k - o \in 1..size /\ o + (k - o) = k
  BY <1>1, <1>2, <1>3
<1> HIDE DEF size
<1>8. /\ r \in Seq(Items) /\ Len(r) = n + size /\ DOMAIN r = 1..(n + size)
      /\ \A k \in 1..(n + size) : r[k] = IF k <= n THEN f[k] ELSE g[k - n]
  <2>1. /\ f \o g \in Seq(Items)
        /\ Len(f \o g) = Len(f) + Len(g)
        /\ \A k \in 1..(Len(f) + Len(g)) : (f \o g)[k] =
               IF k <= Len(f) THEN f[k] ELSE g[k - Len(f)]
    BY <1>4, <1>5, ConcatProperties
  <2>2. DOMAIN r = 1..Len(r)
    BY <1>6, <2>1
  <2> QED BY <1>4, <1>5, <1>6, <2>1, <2>2
<1>9. \A k \in DOMAIN l : /\ l[k].start \in Nat /\ l[k].end \in Nat
                          /\ l[k].start < l[k].end /\ l[k].end <= MaxSize
  <2> SUFFICES ASSUME NEW k \in DOMAIN l
               PROVE  /\ l[k].start \in Nat /\ l[k].end \in Nat
                      /\ l[k].start < l[k].end /\ l[k].end <= MaxSize
    OBVIOUS
  <2>1. l[k] \in Items
    BY <1>1
  <2> QED BY <2>1, ItemLemma DEF Sorted
<1>10. \A j, k \in DOMAIN l : j < k => l[j].end <= l[k].start
  BY DEF Sorted
\* Which items are in front of the hole and which are behind it.
<1>11. ASSUME NEW k \in 1..n PROVE l[k].start < from /\ (k < n => l[k].end < from)
  <2>1. n \in DOMAIN l /\ l[n].start < from /\ k \in DOMAIN l
    BY <1>2, <1>7
  <2>2. CASE k = n
    BY <2>1, <2>2
  <2>3. CASE k < n
    <3>1. l[k].end <= l[n].start
      BY <1>10, <2>1, <2>3
    <3> QED BY <1>9, <2>1, <3>1
  <2> QED BY <1>7, <2>2, <2>3
<1>12. ASSUME NEW k \in 1..size PROVE to < l[o + k].end /\ (k > 1 => to < l[o + k].start)
  <2>1. o + k \in DOMAIN l
    BY <1>7
  <2>2. ~(l[o + k].end <= to)
    BY <1>3, <1>7, <2>1
  <2>3. ASSUME k > 1 PROVE to < l[o + k].start
    <3>1. o + 1 \in DOMAIN l /\ o + 1 < o + k /\ ~(o + 1 <= o)
      BY <1>1, <1>7, <2>1, <2>3
    <3>2. l[o + 1].end <= l[o + k].start
      BY <1>10, <2>1, <3>1
    <3>3. ~(l[o + 1].end <= to)
      BY <1>3, <3>1
    <3> QED BY <1>9, <2>1, <3>1, <3>2, <3>3
  <2> QED BY <1>9, <2>1, <2>2, <2>3
\* Where the items of the new list begin and end.
<1>13. ASSUME NEW k \in 1..n
       PROVE  /\ k \in DOMAIN r /\ k \in DOMAIN l
              /\ r[k].start = l[k].start /\ r[k].memory = l[k].memory
              /\ r[k].end = IF l[k].end <= from THEN l[k].end ELSE from
  <2>1. k \in 1..(n + size) /\ k <= n
    BY <1>7
  <2> QED BY <1>4, <1>7, <1>8, <2>1
<1>14. ASSUME NEW k \in 1..size
       PROVE  /\ n + k \in DOMAIN r /\ o + k \in DOMAIN l
              /\ r[n + k].end = l[o + k].end /\ r[n + k].memory = l[o + k].memory
              /\ r[n + k].start = IF l[o + k].start <= to THEN to ELSE l[o + k].start
  <2>1. n + k \in 1..(n + size) /\ ~(n + k <= n) /\ (n + k) - n = k
    BY <1>7
  <2>2. r[n + k] = g[k]
    BY <1>8, <2>1
  <2> QED BY <1>5, <1>7, <1>8, <2>1, <2>2
<1>15. \A k \in DOMAIN r : k \in 1..n \/ (\E j \in 1..size : k = n + j)
  <2> SUFFICES ASSUME NEW k \in 1..(n + size), ~(k \in 1..n)
               PROVE  \E j \in 1..size : k = n + j
    BY <1>8
  <2>1. k - n \in 1..size /\ k = n + (k - n)
    BY <1>7
  <2> QED BY <2>1
<1>16. ASSUME NEW k \in 1..n
       PROVE  r[k].start < r[k].end /\ r[k].end <= from /\ r[k].end <= MaxSize
  <2>1. /\ l[k].start \in Nat /\ l[k].end \in Nat
        /\ l[k].start < l[k].end /\ l[k].end <= MaxSize
    BY <1>9, <1>13
  <2>2. l[k].start < from
    BY <1>11
  <2>3. r[k].start = l[k].start /\ r[k].end = IF l[k].end <= from THEN l[k].end ELSE from
    BY <1>13
  <2> QED BY <2>1, <2>2, <2>3, MaxSizeAssumption
<1>17. ASSUME NEW k \in 1..size
       PROVE  /\ r[n + k].start < r[n + k].end /\ to <= r[n + k].start
              /\ r[n + k].end <= MaxSize
  BY <1>9, <1>12, <1>14
<1>18. Sorted(r)
  <2>1. \A k \in DOMAIN r : r[k].start < r[k].end /\ r[k].end <= MaxSize
    BY <1>15, <1>16, <1>17
  <2>2. ASSUME NEW j \in DOMAIN r, NEW k \in DOMAIN r, j < k PROVE r[j].end <= r[k].start
    <3>1. CASE j \in 1..n /\ k \in 1..n
      <4>1. l[j].end <= l[k].start
        BY <1>10, <1>13, <2>2, <3>1
      <4>2. l[k].start < from
        BY <1>11, <3>1
      <4> QED BY <1>9, <1>13, <3>1, <4>1, <4>2
    <3>2. CASE j \in 1..n /\ \E x \in 1..size : k = n + x
      <4>1. r[j].end <= from /\ to <= r[k].start
        BY <1>16, <1>17, <3>2
      <4>2. r[j].end \in Nat /\ r[k].start \in Nat
        <5>1. r[j] \in Items /\ r[k] \in Items
          BY <1>8
        <5> QED BY <5>1, ItemLemma
      <4> QED BY <4>1, <4>2
    <3>3. CASE (\E x \in 1..size : j = n + x) /\ \E x \in 1..size : k = n + x
      <4>1. PICK x \in 1..size, y \in 1..size : j = n + x /\ k = n + y
        BY <3>3
      <4>2. x < y /\ o + x < o + y /\ y > 1
        BY <1>7, <2>2, <4>1
      <4>3. l[o + x].end <= l[o + y].start
        BY <1>10, <1>14, <4>2
      <4>4. to < l[o + y].start
        BY <1>12, <4>2
      <4>5. l[o + y].start \in Nat
        BY <1>9, <1>14
      <4> QED BY <1>14, <4>1, <4>3, <4>4, <4>5
    <3>4. CASE (\E x \in 1..size : j = n + x) /\ k \in 1..n
      BY <1>7, <2>2, <3>4
    <3> QED BY <1>15, <3>1, <3>2, <3>3, <3>4
  <2> QED BY <1>8, <2>1, <2>2 DEF Sorted
<1>19. Mergeable(r) = {}
  <2> SUFFICES ASSUME NEW k \in Mergeable(r) PROVE FALSE
    OBVIOUS
  <2>0. k \in 1..(n + size - 1) /\ r[k].end = r[k + 1].start /\ r[k].memory = r[k + 1].memory
    <3>1. k \in 1..(Len(r) - 1) /\ r[k].end = r[k + 1].start /\ r[k].memory = r[k + 1].memory
      BY Zenon DEF Mergeable
    <3>2. Len(r) - 1 = n + size - 1
      BY <1>7, <1>8
    <3> QED BY <3>1, <3>2, Zenon
  <2> USE <2>0
  <2>1. k \in DOMAIN r /\ k + 1 \in DOMAIN r
    BY <1>7, <1>8
  <2>2. CASE k < n
    <3>1. k \in 1..n /\ k + 1 \in 1..n /\ k \in 1..(Len(l) - 1)
      BY <1>1, <1>2, <1>7, <2>2
    <3>2. l[k].end < from
      BY <1>11, <2>2, <3>1
    <3>3. r[k].end = l[k].end
      BY <1>9, <1>13, <3>1, <3>2
    <3>4. l[k].end = l[k + 1].start /\ l[k].memory = l[k + 1].memory
      BY <1>13, <3>1, <3>3
    <3> QED BY <3>1, <3>4 DEF Mergeable
  <2>3. CASE k = n
    <3>1. k \in 1..n /\ 1 \in 1..size /\ k + 1 = n + 1
      BY <1>7, <2>3
    <3>2. r[k].end <= from /\ to <= r[k + 1].start
      BY <1>16, <1>17, <3>1
    <3>3. r[k].end \in Nat
      <4>1. r[k] \in Items
        BY <1>8, <2>1
      <4> QED BY <4>1, ItemLemma
    <3> QED BY <3>2, <3>3
  <2>4. CASE k > n
    <3> DEFINE x == k - n
    <3>1. /\ x \in 1..size /\ x + 1 \in 1..size /\ k = n + x /\ k + 1 = n + (x + 1)
          /\ x + 1 > 1 /\ (o + x) + 1 = o + (x + 1) /\ o + x \in 1..(Len(l) - 1)
      <4>1. x \in 1..size /\ x + 1 \in 1..size /\ k = n + x /\ k + 1 = n + (x + 1)
        BY <1>7, <2>4
      <4>2. o + (x + 1) \in 1..Len(l)
        BY <1>1, <1>7, <4>1
      <4> QED BY <1>1, <1>7, <4>1, <4>2
    <3> HIDE DEF x
    <3>2. to < l[o + (x + 1)].start
      BY <1>12, <3>1
    <3>3. r[k + 1].start = l[o + (x + 1)].start
      BY <1>9, <1>14, <3>1, <3>2
    <3>4. /\ l[o + x].end = l[(o + x) + 1].start
          /\ l[o + x].memory = l[(o + x) + 1].memory
      BY <1>14, <3>1, <3>3
    <3> QED BY <3>1, <3>4 DEF Mergeable
  <2> QED BY <1>7, <2>2, <2>3, <2>4
<1>20. ASSUME NEW b \in Int, NEW m \in BOOLEAN
       PROVE  Has(r, b, m) <=> Has(l, b, m) /\ ~(from <= b /\ b < to)
  <2>1. ASSUME Has(r, b, m) PROVE Has(l, b, m) /\ ~(from <= b /\ b < to)
    <3>1. PICK k \in DOMAIN r : r[k].start <= b /\ b < r[k].end /\ r[k].memory = m
      BY <2>1 DEF Has
    <3>2. CASE k \in 1..n
      <4>1. l[k].start <= b /\ b < l[k].end /\ l[k].memory = m /\ b < from
        BY <1>9, <1>13, <3>1, <3>2
      <4> QED BY <1>13, <3>2, <4>1 DEF Has
    <3>3. CASE \E x \in 1..size : k = n + x
      <4>1. PICK x \in 1..size : k = n + x
        BY <3>3
      <4>2. /\ l[o + x].start <= b /\ b < l[o + x].end /\ l[o + x].memory = m
            /\ to <= b
        BY <1>9, <1>14, <3>1, <4>1
      <4> QED BY <1>14, <4>2 DEF Has
    <3> QED BY <1>15, <3>2, <3>3
  <2>2. ASSUME Has(l, b, m), ~(from <= b /\ b < to) PROVE Has(r, b, m)
    <3>1. PICK k \in DOMAIN l : l[k].start <= b /\ b < l[k].end /\ l[k].memory = m
      BY <2>2 DEF Has
    <3>2. CASE b < from
      <4>1. l[k].start < from
        BY <1>9, <3>1, <3>2
      <4>2. k \in 1..n
        BY <1>1, <1>2, <4>1
      <4>3. r[k].start <= b /\ b < r[k].end /\ r[k].memory = m
        BY <1>13, <3>1, <3>2, <4>2
      <4> QED BY <1>13, <4>2, <4>3 DEF Has
    <3>3. CASE to <= b
      <4>1. ~(l[k].end <= to)
        BY <1>9, <3>1, <3>3
      <4>2. k > o
        <5> SUFFICES ASSUME k <= o PROVE FALSE
          BY <1>1, <1>7
        <5>1. o \in DOMAIN l /\ l[o].end <= to
          BY <1>1, <1>3, <1>7
        <5>2. k = o \/ l[k].end <= l[o].start
          <6>1. k = o \/ k < o
            BY <1>1, <1>7
          <6> QED BY <1>10, <5>1, <6>1
        <5>3. /\ l[o].start \in Nat /\ l[o].end \in Nat /\ l[o].start < l[o].end
              /\ l[k].end \in Nat
          BY <1>9, <5>1
        <5> QED BY <4>1, <5>1, <5>2, <5>3
      <4>3. k - o \in 1..size /\ o + (k - o) = k
        BY <1>7, <4>2
      <4>4. /\ n + (k - o) \in DOMAIN r
            /\ r[n + (k - o)].start <= b /\ b < r[n + (k - o)].end
            /\ r[n + (k - o)].memory = m
        BY <1>14, <3>1, <3>3, <4>3
      <4> QED BY <4>4 DEF Has
    <3> QED BY <2>2, <3>2, <3>3
  <2> QED BY <2>1, <2>2
<1> QED BY <1>18, <1>19, <1>20 DEF r

LEMMA InItem ==
    ASSUME NEW l, Sorted(l), NEW b \in Int
    PROVE  /\ (\E i \in DOMAIN l : b \in Range2(l[i].start, l[i].end))
                  <=> Has(l, b, TRUE) \/ Has(l, b, FALSE)
           /\ (\E i \in DOMAIN l : b \in Range2(l[i].start, l[i].end) /\ l[i].memory)
                  <=> Has(l, b, TRUE)
<1>1. ASSUME NEW i \in DOMAIN l
      PROVE  /\ b \in Range2(l[i].start, l[i].end) <=> l[i].start <= b /\ b < l[i].end
             /\ l[i].memory \in BOOLEAN
  <2>1. l[i] \in Items
    BY DEF Sorted
  <2>2. l[i].start \in Nat /\ l[i].end \in Nat /\ l[i].memory \in BOOLEAN
    BY <2>1, ItemLemma
  <2> QED BY <2>2 DEF Range2
<1> QED BY <1>1 DEF Has

\* One item holds a byte.
LEMMA OnePlace ==
    ASSUME NEW l, Sorted(l), NEW b \in Int
    PROVE  ~(Has(l, b, TRUE) /\ Has(l, b, FALSE))
<1> SUFFICES ASSUME Has(l, b, TRUE), Has(l, b, FALSE) PROVE FALSE
  OBVIOUS
<1>1. PICK j \in DOMAIN l : l[j].start <= b /\ b < l[j].end /\ l[j].memory = TRUE
  BY DEF Has
<1>2. PICK k \in DOMAIN l : l[k].start <= b /\ b < l[k].end /\ l[k].memory = FALSE
  BY DEF Has
<1>3. j # k
  BY <1>1, <1>2
<1>4. l[j] \in Items /\ l[k] \in Items /\ j \in Int /\ k \in Int
  BY DEF Sorted
<1>5. /\ l[j].start \in Nat /\ l[j].end \in Nat
      /\ l[k].start \in Nat /\ l[k].end \in Nat
  BY <1>4, ItemLemma
<1>6. l[j].end <= l[k].start \/ l[k].end <= l[j].start
  BY <1>3, <1>4 DEF Sorted
<1> QED BY <1>1, <1>2, <1>5, <1>6

-----------------------------------------------------------------------------
(* The figures. *)

\* The bytes of the first n items, and those of them that are in memory.
Got(l, n) == {b \in 0..(MaxSize - 1) : \E i \in 1..n : l[i].start <= b /\ b < l[i].end}

GotInMemory(l, n) ==
    {b \in 0..(MaxSize - 1) :
        \E i \in 1..n : l[i].start <= b /\ b < l[i].end /\ l[i].memory}

\* Figures that are right for the first n items.
Right(l, n) == [size   |-> Cardinality(Got(l, n)),
                memory |-> Cardinality(GotInMemory(l, n))]

\* One more item adds its size, as nothing of it is counted yet.
LEMMA RightStep ==
    ASSUME NEW l, Sorted(l), NEW n \in 1..Len(l)
    PROVE  Right(l, n) =
               [size   |-> Right(l, n - 1).size + ItemSize(l[n]),
                memory |-> Right(l, n - 1).memory
                               + (IF l[n].memory THEN ItemSize(l[n]) ELSE 0)]
<1> DEFINE item == l[n]
           A == Got(l, n - 1)
           M == GotInMemory(l, n - 1)
           I == item.start .. (item.end - 1)
<1>1. /\ l \in Seq(Items) /\ Len(l) \in Nat /\ DOMAIN l = 1..Len(l) /\ n \in Nat
      /\ item \in Items /\ item.start \in Nat /\ item.end \in Nat /\ item.memory \in BOOLEAN
      /\ item.start < item.end /\ item.end <= MaxSize
  <2>1. l \in Seq(Items) /\ Len(l) \in Nat /\ DOMAIN l = 1..Len(l) /\ n \in Nat /\ item \in Items
    BY DEF Sorted
  <2>2. item.start < item.end /\ item.end <= MaxSize
    BY <2>1 DEF Sorted
  <2> QED BY <2>1, <2>2, ItemLemma
<1>2. \A i \in 1..(n - 1) : l[i].start \in Nat /\ l[i].end \in Nat /\ l[i].end <= item.start
  <2> SUFFICES ASSUME NEW i \in 1..(n - 1)
               PROVE  l[i].start \in Nat /\ l[i].end \in Nat /\ l[i].end <= item.start
    OBVIOUS
  <2>1. i \in 1..Len(l) /\ i < n /\ l[i] \in Items
    BY <1>1
  <2>2. l[i].end <= l[n].start
    BY <1>1, <2>1 DEF Sorted
  <2> QED BY <2>1, <2>2, ItemLemma
<1>3. IsFiniteSet(A) /\ IsFiniteSet(M)
  <2>1. IsFiniteSet(0..(MaxSize - 1))
    BY MaxSizeAssumption, FS_Interval
  <2>2. A \in SUBSET (0..(MaxSize - 1)) /\ M \in SUBSET (0..(MaxSize - 1))
    BY DEF Got, GotInMemory
  <2> QED BY <2>1, <2>2, FS_Subset
<1>4. IsFiniteSet(I) /\ Cardinality(I) = ItemSize(item)
  <2>1. item.start \in Int /\ item.end - 1 \in Int /\ ~(item.start > item.end - 1)
    BY <1>1
  <2>2. IsFiniteSet(I) /\ Cardinality(I) = (item.end - 1) - item.start + 1
    BY <2>1, FS_Interval
  <2>3. (item.end - 1) - item.start + 1 = item.end - item.start
    BY <1>1
  <2> QED BY <2>2, <2>3 DEF ItemSize
<1>5. A \cap I = {} /\ M \cap I = {}
  BY <1>1, <1>2 DEF Got, GotInMemory
<1> HIDE DEF item, A, M, I
<1>6. ASSUME NEW S, IsFiniteSet(S), S \cap I = {}
      PROVE  Cardinality(S \cup I) = Cardinality(S) + ItemSize(item)
  <2>1. Cardinality(S \cup I) = Cardinality(S) + Cardinality(I) - Cardinality(S \cap I)
    BY <1>4, <1>6, FS_Union
  <2>2. Cardinality(S \cap I) = 0 /\ Cardinality(S) \in Nat /\ Cardinality(I) \in Nat
    BY <1>4, <1>6, FS_EmptySet, FS_CardinalityType
  <2> QED BY <1>4, <2>1, <2>2
<1>7. /\ Cardinality(A \cup I) = Cardinality(A) + ItemSize(item)
      /\ Cardinality(M \cup I) = Cardinality(M) + ItemSize(item)
  BY <1>3, <1>5, <1>6
<1> USE DEF item, A, M, I
<1>8. 1..n = (1..(n - 1)) \cup {n} /\ \A b \in I : b \in 0..(MaxSize - 1)
  BY <1>1, MaxSizeAssumption
<1>9. Got(l, n) = A \cup I
  <2>1. ASSUME NEW b \in 0..(MaxSize - 1)
        PROVE  b \in I <=> item.start <= b /\ b < item.end
    BY <1>1
  <2> QED BY <1>8, <2>1 DEF Got
<1>10. GotInMemory(l, n) = IF item.memory THEN M \cup I ELSE M
  <2>1. ASSUME NEW b \in 0..(MaxSize - 1)
        PROVE  b \in I <=> item.start <= b /\ b < item.end
    BY <1>1
  <2>2. CASE item.memory
    BY <1>8, <2>1, <2>2 DEF GotInMemory
  <2>3. CASE ~item.memory
    BY <1>8, <2>1, <2>3 DEF GotInMemory
  <2> QED BY <2>2, <2>3
<1>11. Cardinality(M) \in Nat /\ Cardinality(M) + 0 = Cardinality(M)
  BY <1>3, FS_CardinalityType
<1>12. Cardinality(GotInMemory(l, n))
           = Cardinality(M) + (IF item.memory THEN ItemSize(item) ELSE 0)
  BY <1>7, <1>10, <1>11
<1> QED BY <1>7, <1>9, <1>12 DEF Right

\* The sums are the numbers of bytes.  The recursion has a solution, Right, and
\* no other one.
LEMMA UsageLemma ==
    ASSUME NEW l, Sorted(l)
    PROVE  Usage(l) = Right(l, Len(l))
<1> DEFINE D == 0..Len(l)
           Next(f, n) == [size   |-> f[n - 1].size + ItemSize(l[n]),
                          memory |-> f[n - 1].memory
                                         + (IF l[n].memory THEN ItemSize(l[n]) ELSE 0)]
           Solves(f) == f = [n \in D |-> IF n = 0 THEN [size |-> 0, memory |-> 0]
                                         ELSE Next(f, n)]
           g == [n \in D |-> Right(l, n)]
           h == CHOOSE f : Solves(f)
<1>1. Len(l) \in Nat
  BY DEF Sorted
<1>2. Right(l, 0) = [size |-> 0, memory |-> 0]
  <2>1. Got(l, 0) = {} /\ GotInMemory(l, 0) = {}
    BY DEF Got, GotInMemory
  <2> QED BY <2>1, FS_EmptySet DEF Right
<1>3. \A n \in D : n # 0 => n \in 1..Len(l) /\ n - 1 \in D
  BY <1>1
<1>4. Solves(g)
  <2>1. ASSUME NEW n \in D
        PROVE  Right(l, n) = IF n = 0 THEN [size |-> 0, memory |-> 0] ELSE Next(g, n)
    <3>1. CASE n = 0
      BY <1>2, <3>1
    <3>2. CASE n # 0
      <4>1. n \in 1..Len(l) /\ g[n - 1] = Right(l, n - 1)
        BY <1>3, <3>2
      <4> QED BY <3>2, <4>1, RightStep
    <3> QED BY <3>1, <3>2
  <2> QED BY <2>1
<1>5. Solves(h)
  BY <1>4
<1> DEFINE wrong == {n \in D : h[n] # Right(l, n)}
<1>6. h = [n \in D |-> IF n = 0 THEN [size |-> 0, memory |-> 0] ELSE Next(h, n)]
  BY <1>5
<1> HIDE DEF h
<1>7. wrong = {}
  <2> SUFFICES ASSUME wrong # {} PROVE FALSE
    OBVIOUS
  <2>1. wrong \in SUBSET Nat
    BY <1>1
  <2> DEFINE n == Min(wrong)
  <2>2. n \in wrong /\ \A k \in wrong : n <= k
    BY <2>1, MinLemma
  <2> HIDE DEF n
  <2>3. n \in D /\ h[n] # Right(l, n) /\ n \in Nat
    BY <2>1, <2>2
  <2>4. n # 0
    BY <1>2, <1>6, <2>3
  <2>5. n \in 1..Len(l) /\ n - 1 \in D /\ n - 1 \notin wrong
    BY <1>3, <2>1, <2>2, <2>3, <2>4
  <2>6. h[n - 1] = Right(l, n - 1)
    BY <2>5
  <2>7. h[n] = Next(h, n)
    BY <1>6, <2>3, <2>4
  <2> QED BY <2>3, <2>5, <2>6, <2>7, RightStep
<1>8. Usage(l) = h[Len(l)]
  BY DEF Usage, h
<1> QED BY <1>1, <1>7, <1>8

\* The items follow each other from 0 to the end exactly if every byte is there:
\* isFullfilled() looks at the ends of the items only.
LEMMA FullLemma ==
    ASSUME NEW l, Sorted(l)
    PROVE  IsFullfilled(l) <=> Got(l, Len(l)) = 0..(MaxSize - 1)
<1>1. l \in Seq(Items) /\ Len(l) \in Nat /\ DOMAIN l = 1..Len(l) /\ MaxSize \in Nat
  BY MaxSizeAssumption DEF Sorted
<1>2. ASSUME NEW i \in 1..Len(l)
      PROVE  /\ l[i].start \in Nat /\ l[i].end \in Nat
             /\ l[i].start < l[i].end /\ l[i].end <= MaxSize
  <2>1. l[i] \in Items
    BY <1>1
  <2>2. l[i].start < l[i].end /\ l[i].end <= MaxSize
    BY <1>1 DEF Sorted
  <2> QED BY <2>1, <2>2, ItemLemma
<1>3. ASSUME NEW i \in 1..Len(l), NEW j \in 1..Len(l), i < j
      PROVE  l[i].end <= l[j].start
  BY <1>1, <1>3 DEF Sorted
<1>4. ASSUME IsFullfilled(l), NEW b \in 0..(MaxSize - 1)
      PROVE  b \in Got(l, Len(l))
  <2> DEFINE i == Begun(l, b + 1)
  <2>1. b \in Nat /\ b < MaxSize
    BY <1>1
  <2>2. l # <<>> /\ Len(l) > 0
    BY <1>1, <1>4, <2>1 DEF IsFullfilled
  <2>3. /\ l[1].start = 0 /\ l[Len(l)].end = MaxSize
        /\ \A k \in 1..(Len(l) - 1) : l[k].end = l[k + 1].start
    BY <1>4, <2>2 DEF IsFullfilled
  <2>4. /\ i \in 0..Len(l)
        /\ i # 0 => l[i].start < b + 1
        /\ \A k \in DOMAIN l : l[k].start < b + 1 => k <= i
    BY <1>1, BegunLemma
  <2> HIDE DEF i
  <2>5. 1 \in DOMAIN l /\ l[1].start < b + 1
    BY <1>1, <2>1, <2>2, <2>3
  <2>6. i \in 1..Len(l) /\ l[i].start < b + 1
    BY <1>1, <2>4, <2>5
  <2>7. b < l[i].end
    <3>1. CASE i = Len(l)
      BY <2>1, <2>3, <3>1
    <3>2. CASE i # Len(l)
      <4>1. i \in 1..(Len(l) - 1) /\ i + 1 \in 1..Len(l) /\ ~(i + 1 <= i)
        <5>1. Len(l) \in Nat /\ i \in 1..Len(l)
          BY <1>1, <2>6
        <5> QED BY <3>2, <5>1
      <4>2. l[i].end = l[i + 1].start /\ ~(l[i + 1].start < b + 1) /\ l[i + 1].start \in Nat
        BY <1>1, <1>2, <2>3, <2>4, <4>1
      <4> QED BY <2>1, <4>2
    <3> QED BY <3>1, <3>2
  <2>8. l[i].start <= b
    BY <1>2, <2>1, <2>6
  <2> QED BY <2>6, <2>7, <2>8 DEF Got
<1>5. ASSUME Got(l, Len(l)) = 0..(MaxSize - 1)
      PROVE  IsFullfilled(l)
  <2>1. ASSUME NEW b \in 0..(MaxSize - 1)
        PROVE  \E i \in 1..Len(l) : l[i].start <= b /\ b < l[i].end
    BY <1>5 DEF Got
  <2>2. CASE l = <<>>
    <3>1. Len(l) = 0
      BY <2>2
    <3>2. MaxSize = 0
      <4> SUFFICES ASSUME MaxSize # 0 PROVE FALSE
        OBVIOUS
      <4>1. 0 \in 0..(MaxSize - 1)
        BY <1>1
      <4> QED BY <2>1, <3>1, <4>1
    <3> QED BY <2>2, <3>1, <3>2 DEF IsFullfilled
  <2>3. CASE l # <<>>
    <3>1. 1 \in 1..Len(l) /\ Len(l) \in 1..Len(l)
      BY <1>1, <2>3
    <3>2. 0 \in 0..(MaxSize - 1) /\ MaxSize - 1 \in 0..(MaxSize - 1)
      BY <1>1, <1>2, <3>1
    <3>3. l[1].start = 0
      <4>1. PICK i \in 1..Len(l) : l[i].start <= 0 /\ 0 < l[i].end
        BY <2>1, <3>2
      <4>2. CASE i = 1
        BY <1>2, <4>1, <4>2
      <4>3. CASE i # 1
        <5>1. 1 < i
          BY <4>3
        <5>2. l[1].end <= l[i].start
          BY <1>3, <3>1, <5>1
        <5> QED BY <1>2, <3>1, <4>1, <5>2
      <4> QED BY <4>2, <4>3
    <3>4. l[Len(l)].end = MaxSize
      <4>1. PICK i \in 1..Len(l) : l[i].start <= MaxSize - 1 /\ MaxSize - 1 < l[i].end
        BY <2>1, <3>2
      <4>2. CASE i = Len(l)
        BY <1>1, <1>2, <4>1, <4>2
      <4>3. CASE i # Len(l)
        <5>1. i < Len(l)
          <6>1. Len(l) \in Nat
            BY <1>1
          <6> QED BY <4>3, <6>1
        <5>2. l[i].end <= l[Len(l)].start
          BY <1>3, <3>1, <5>1
        <5> QED BY <1>1, <1>2, <3>1, <4>1, <5>2
      <4> QED BY <4>2, <4>3
    <3>5. ASSUME NEW i \in 1..(Len(l) - 1)
          PROVE  l[i].end = l[i + 1].start
      <4>1. i \in 1..Len(l) /\ i + 1 \in 1..Len(l) /\ i < i + 1
        BY <1>1
      <4>2. l[i].end <= l[i + 1].start
        BY <1>3, <4>1
      <4>3. l[i].end \in 0..(MaxSize - 1)
        BY <1>1, <1>2, <4>1, <4>2
      <4>4. PICK j \in 1..Len(l) : l[j].start <= l[i].end /\ l[i].end < l[j].end
        BY <2>1, <4>3
      <4>5. i < j
        <5> SUFFICES ASSUME ~(i < j) PROVE FALSE
          OBVIOUS
        <5>1. j = i \/ j < i
          BY <1>1
        <5>2. j < i => l[j].end <= l[i].start
          BY <1>3, <4>1
        <5> QED BY <1>2, <4>1, <4>4, <5>1, <5>2
      <4>6. CASE j = i + 1
        BY <1>2, <4>1, <4>2, <4>4, <4>6
      <4>7. CASE j # i + 1
        <5>1. i + 1 < j
          BY <1>1, <4>5, <4>7
        <5>2. l[i + 1].end <= l[j].start
          BY <1>3, <4>1, <5>1
        <5> QED BY <1>2, <4>1, <4>2, <4>4, <5>2
      <4> QED BY <4>6, <4>7
    <3> QED BY <2>3, <3>3, <3>4, <3>5 DEF IsFullfilled
  <2> QED BY <2>2, <2>3
<1>6. Got(l, Len(l)) \subseteq 0..(MaxSize - 1)
  BY DEF Got
<1> QED BY <1>4, <1>5, <1>6

\* The items as sets of bytes.
LEMMA GotLemma ==
    ASSUME NEW l, Sorted(l), NEW b \in Int
    PROVE  /\ b \in Got(l, Len(l)) <=> Has(l, b, TRUE) \/ Has(l, b, FALSE)
           /\ b \in GotInMemory(l, Len(l)) <=> Has(l, b, TRUE)
<1>1. DOMAIN l = 1..Len(l) /\ Len(l) \in Nat
  BY DEF Sorted
<1>2. ASSUME NEW i \in 1..Len(l), l[i].start <= b, b < l[i].end
      PROVE  b \in 0..(MaxSize - 1) /\ l[i].memory \in BOOLEAN
  <2>1. l[i] \in Items /\ l[i].end <= MaxSize
    BY <1>1 DEF Sorted
  <2>2. l[i].start \in Nat /\ l[i].end \in Nat /\ l[i].memory \in BOOLEAN
    BY <2>1, ItemLemma
  <2> QED BY <1>2, <2>1, <2>2, MaxSizeAssumption
<1>3. ASSUME NEW i \in 1..Len(l)
      PROVE  l[i].memory \in BOOLEAN
  <2>1. l[i] \in Items
    BY <1>1 DEF Sorted
  <2> QED BY <2>1, ItemLemma
<1> QED BY <1>1, <1>2, <1>3 DEF Got, GotInMemory, Has
=============================================================================
