-------------------------- MODULE SectionBuffer_proofs --------------------------
(***************************************************************************)
(* What SectionBuffer promises, for downloads of any size, any number of   *)
(* sections, damaged sections and processes that end anywhere: no byte is  *)
(* forgotten between memory, the cache file and the final file; a byte of  *)
(* the final file is wrong only if its write was refused; and sync() does  *)
(* not resolve before what it was called for has left the memory.          *)
(***************************************************************************)
EXTENDS SectionBuffer, MemoryList_proofs

-----------------------------------------------------------------------------
(* The list of ranges as two sets of bytes. *)

Ranges == {r \in Items : r.start < r.end /\ r.end <= MaxSize}

LEMMA SpanLemma ==
    ASSUME NEW r \in Ranges
    PROVE  /\ r.start \in Nat /\ r.end \in Nat /\ r.start < r.end /\ r.end <= MaxSize
           /\ \A b : b \in Span(r) <=> b \in Int /\ r.start <= b /\ b < r.end
           /\ Span(r) # {} /\ Span(r) \subseteq Bytes
<1>1. r.start \in Nat /\ r.end \in Nat /\ r.start < r.end /\ r.end <= MaxSize
  BY ItemLemma DEF Ranges
<1>2. \A b : b \in Span(r) <=> b \in Int /\ r.start <= b /\ b < r.end
  BY <1>1 DEF Span
<1>3. r.start \in Span(r)
  BY <1>1, <1>2
<1>4. Span(r) \subseteq Bytes
  BY <1>1, <1>2, MaxSizeAssumption DEF Bytes
<1> QED BY <1>1, <1>2, <1>3, <1>4

\* A byte is in a written item, in one in memory, or missing.
LEMMA PlaceLemma ==
    ASSUME NEW l, Sorted(l)
    PROVE  /\ \A b : b \in Filed(l) <=> b \in Int /\ Has(l, b, FALSE)
           /\ \A b : b \in InMemory(l) <=> b \in Int /\ Has(l, b, TRUE)
           /\ Filed(l) \subseteq Bytes /\ InMemory(l) \subseteq Bytes
           /\ Filed(l) \intersect InMemory(l) = {}
<1>1. \A i \in DOMAIN l : l[i] \in Ranges /\ l[i].memory \in BOOLEAN
  <2> SUFFICES ASSUME NEW i \in DOMAIN l PROVE l[i] \in Ranges /\ l[i].memory \in BOOLEAN
    OBVIOUS
  <2>1. l[i] \in Items /\ l[i].start < l[i].end /\ l[i].end <= MaxSize
    BY DEF Sorted
  <2> QED BY <2>1, ItemLemma DEF Ranges
<1>2. \A i \in DOMAIN l : \A b :
          b \in Span(l[i]) <=> b \in Int /\ l[i].start <= b /\ b < l[i].end
  BY <1>1, SpanLemma
<1>3. \A b : b \in Filed(l) <=> b \in Int /\ Has(l, b, FALSE)
  BY <1>1, <1>2 DEF Filed, Has
<1>4. \A b : b \in InMemory(l) <=> b \in Int /\ Has(l, b, TRUE)
  BY <1>1, <1>2 DEF InMemory, Has
<1>5. Filed(l) \subseteq Bytes /\ InMemory(l) \subseteq Bytes
  <2>1. \A i \in DOMAIN l : Span(l[i]) \subseteq Bytes
    BY <1>1, SpanLemma
  <2> QED BY <2>1 DEF Filed, InMemory
<1>6. Filed(l) \intersect InMemory(l) = {}
  BY <1>3, <1>4, OnePlace
<1> QED BY <1>3, <1>4, <1>5, <1>6

LEMMA EmptyLemma ==
    /\ Sorted(<<>>) /\ Mergeable(<<>>) = {}
    /\ Filed(<<>>) = {} /\ InMemory(<<>>) = {}
<1>1. <<>> \in Seq(Items) /\ Len(<<>>) = 0 /\ DOMAIN <<>> = {}
  OBVIOUS
<1> QED BY <1>1 DEF Sorted, Mergeable, Filed, InMemory

\* push() of what is missing adds it to one of the two sets ...
LEMMA PushLemma ==
    ASSUME NEW l, Sorted(l), Mergeable(l) = {},
           NEW from \in Nat, NEW to \in Nat, NEW memory \in BOOLEAN,
           Accepts(l, from, to)
    PROVE  LET r == PushList(l, from, to, memory)
               new == from .. (to - 1)
           IN  /\ Sorted(r) /\ Mergeable(r) = {}
               /\ new \intersect (Filed(l) \union InMemory(l)) = {}
               /\ InMemory(r) = IF memory THEN InMemory(l) \union new ELSE InMemory(l)
               /\ Filed(r) = IF memory THEN Filed(l) ELSE Filed(l) \union new
<1> DEFINE r == PushList(l, from, to, memory)
           new == from .. (to - 1)
<1>1. /\ Sorted(r) /\ Mergeable(r) = {}
      /\ \A b \in Int, m \in BOOLEAN :
             Has(r, b, m) <=> Has(l, b, m) \/ (from <= b /\ b < to /\ m = memory)
  BY PushKeeps
<1>2. from < to /\ to <= MaxSize
  BY DEF Accepts
<1>3. \A b \in new, m \in BOOLEAN : ~Has(l, b, m)
  BY <1>2, AcceptsMissing
<1>4. \A b : b \in new <=> b \in Int /\ from <= b /\ b < to
  OBVIOUS
<1> HIDE DEF r, new
<1>5. \A b : b \in InMemory(r) <=> b \in InMemory(l) \/ (b \in new /\ memory)
  BY <1>1, <1>4, PlaceLemma
<1>6. \A b : b \in Filed(r) <=> b \in Filed(l) \/ (b \in new /\ ~memory)
  BY <1>1, <1>4, PlaceLemma
<1>7. new \intersect (Filed(l) \union InMemory(l)) = {}
  BY <1>3, PlaceLemma
<1> QED BY <1>1, <1>5, <1>6, <1>7 DEF r, new

\* ... and takes what is missing.
LEMMA AcceptLemma ==
    ASSUME NEW l, Sorted(l), NEW range \in Ranges,
           Span(range) \intersect (Filed(l) \union InMemory(l)) = {}
    PROVE  Accepts(l, range.start, range.end)
<1>1. /\ range.start \in Nat /\ range.end \in Nat
      /\ range.start < range.end /\ range.end <= MaxSize
  BY SpanLemma
<1>2. \A b \in range.start .. (range.end - 1) : ~Has(l, b, TRUE) /\ ~Has(l, b, FALSE)
  <2>1. \A b \in range.start .. (range.end - 1) : b \in Int /\ b \in Span(range)
    BY <1>1, SpanLemma
  <2> QED BY <2>1, PlaceLemma
<1> QED BY <1>1, <1>2, AcceptsMissing

\* shift() moves one range from the memory to what is written.
LEMMA ShiftLemma ==
    ASSUME NEW l, Sorted(l), Mergeable(l) = {}, FirstInMemory(l) # 0
    PROVE  LET r == ShiftList(l)
               item == l[FirstInMemory(l)]
           IN  /\ Sorted(r) /\ Mergeable(r) = {}
               /\ item \in Ranges
               /\ Span(item) \subseteq InMemory(l)
               /\ Filed(r) = Filed(l) \union Span(item)
               /\ InMemory(r) = InMemory(l) \ Span(item)
<1> DEFINE r == ShiftList(l)
           item == l[FirstInMemory(l)]
<1>1. /\ Sorted(r) /\ Mergeable(r) = {}
      /\ \A b \in Int, m \in BOOLEAN :
             Has(r, b, m) <=> IF item.start <= b /\ b < item.end
                              THEN m = FALSE ELSE Has(l, b, m)
  BY ShiftKeeps
<1>2. item \in Ranges
  <2>1. FirstInMemory(l) \in DOMAIN l /\ l \in Seq(Items)
    BY FirstLemma DEF Sorted
  <2> QED BY <2>1 DEF Sorted, Ranges
<1>3. \A b \in Int : item.start <= b /\ b < item.end => Has(l, b, TRUE)
  BY FirstIsRun
<1> HIDE DEF r, item
<1>4. \A b : b \in Span(item) <=> b \in Int /\ item.start <= b /\ b < item.end
  BY <1>2, SpanLemma
<1>5. \A b : b \in Filed(r) <=> b \in Filed(l) \/ b \in Span(item)
  BY <1>1, <1>4, PlaceLemma
<1>6. \A b : b \in InMemory(r) <=> b \in InMemory(l) /\ b \notin Span(item)
  BY <1>1, <1>4, PlaceLemma
<1>7. Span(item) \subseteq InMemory(l)
  BY <1>3, <1>4, PlaceLemma
<1> QED BY <1>1, <1>2, <1>5, <1>6, <1>7 DEF r, item

\* There is something to shift exactly if something is in memory.
LEMMA NothingLeft ==
    ASSUME NEW l, Sorted(l), FirstInMemory(l) = 0
    PROVE  InMemory(l) = {}
<1>1. \A i \in DOMAIN l : ~l[i].memory
  BY FirstLemma DEF Sorted
<1> QED BY <1>1 DEF InMemory

\* punchHole() takes a range out of both.
LEMMA PunchLemma ==
    ASSUME NEW l, Sorted(l), Mergeable(l) = {}, NEW range \in Ranges
    PROVE  LET r == PunchList(l, range.start, range.end)
           IN  /\ Sorted(r) /\ Mergeable(r) = {}
               /\ Filed(r) = Filed(l) \ Span(range)
               /\ InMemory(r) = InMemory(l) \ Span(range)
<1> DEFINE r == PunchList(l, range.start, range.end)
<1>1. /\ range.start \in Nat /\ range.end \in Nat /\ range.start < range.end
      /\ \A b : b \in Span(range) <=> b \in Int /\ range.start <= b /\ b < range.end
  BY SpanLemma
<1>2. /\ Sorted(r) /\ Mergeable(r) = {}
      /\ \A b \in Int, m \in BOOLEAN :
             Has(r, b, m) <=> Has(l, b, m) /\ ~(range.start <= b /\ b < range.end)
  BY <1>1, PunchKeeps
<1> HIDE DEF r
<1>3. \A b : b \in Filed(r) <=> b \in Filed(l) /\ b \notin Span(range)
  BY <1>1, <1>2, PlaceLemma
<1>4. \A b : b \in InMemory(r) <=> b \in InMemory(l) /\ b \notin Span(range)
  BY <1>1, <1>2, PlaceLemma
<1> QED BY <1>2, <1>3, <1>4 DEF r

\* isFullfilled() means that no byte is missing.
LEMMA NothingMissing ==
    ASSUME NEW l, Sorted(l), IsFullfilled(l)
    PROVE  Bytes \subseteq Filed(l) \union InMemory(l)
<1>1. \A b \in Bytes : b \in Got(l, Len(l)) /\ b \in Int
  BY FullLemma, MaxSizeAssumption DEF Bytes
<1> QED BY <1>1, GotLemma, PlaceLemma

-----------------------------------------------------------------------------
(* The sections of the file, loaded into the list. *)

\* The bytes of the first n parts.
SavedUpTo(parts, n) == UNION {Span(data[parts[i].id]) : i \in 1..n}

\* Parts whose ranges do not overlap are all accepted, and nothing else is in
\* the list then.  The list is built part by part: the recursion has a solution
\* up to every part, and the one CHOOSE takes has the list that is wanted at
\* every part.
LEMMA LoadedLemma ==
    ASSUME NEW parts \in Seq([at : Nat, id : Nat]),
           \A i \in DOMAIN parts : data[parts[i].id] \in Ranges,
           \A i, j \in DOMAIN parts :
               i # j => Span(data[parts[i].id]) \intersect Span(data[parts[j].id]) = {}
    PROVE  /\ Sorted(Loaded(parts)) /\ Mergeable(Loaded(parts)) = {}
           /\ InMemory(Loaded(parts)) = {}
           /\ Filed(Loaded(parts)) = Saved(parts)
<1> DEFINE N == Len(parts)
           Load(l, n) == LET range == data[parts[n].id]
                         IN  PushList(l, range.start, range.end, FALSE)
           Solves(f, n) == f = [k \in 0..n |-> IF k = 0 THEN <<>> ELSE Load(f[k - 1], k)]
           Fine(l, n) == /\ Sorted(l) /\ Mergeable(l) = {}
                         /\ InMemory(l) = {} /\ Filed(l) = SavedUpTo(parts, n)
           h == CHOOSE f : Solves(f, N)
<1>1. N \in Nat /\ DOMAIN parts = 1..N
  OBVIOUS
<1> HIDE DEF N
<1>2. ASSUME NEW n \in 1..N, NEW l, Fine(l, n - 1)
      PROVE  Fine(Load(l, n), n)
  <2> DEFINE range == data[parts[n].id]
  <2>1. range \in Ranges
    BY <1>1
  <2>2. \A i \in 1..(n - 1) : Span(data[parts[i].id]) \intersect Span(range) = {}
    <3>1. n \in DOMAIN parts /\ \A i \in 1..(n - 1) : i \in DOMAIN parts /\ i # n
      BY <1>1
    <3> QED BY <3>1
  <2>3. Span(range) \intersect (Filed(l) \union InMemory(l)) = {}
    BY <1>2, <2>2 DEF SavedUpTo
  <2>4. Accepts(l, range.start, range.end)
    BY <1>2, <2>1, <2>3, AcceptLemma
  <2>5. range.start \in Nat /\ range.end \in Nat /\ Span(range) = range.start .. (range.end - 1)
    BY <2>1, SpanLemma DEF Span
  <2>6. SavedUpTo(parts, n) = SavedUpTo(parts, n - 1) \union Span(range)
    <3>1. 1..n = (1..(n - 1)) \union {n}
      BY <1>1
    <3> QED BY <3>1 DEF SavedUpTo
  <2> DEFINE r == PushList(l, range.start, range.end, FALSE)
  <2>7. /\ Sorted(r) /\ Mergeable(r) = {}
        /\ InMemory(r) = InMemory(l)
        /\ Filed(r) = Filed(l) \union Span(range)
    <3>1. /\ Sorted(r) /\ Mergeable(r) = {}
          /\ InMemory(r) = InMemory(l)
          /\ Filed(r) = Filed(l) \union (range.start .. (range.end - 1))
      <4> DEFINE from == range.start
                 to == range.end
                 memory == FALSE
                 p == PushList(l, from, to, memory)
      <4>1. from \in Nat /\ to \in Nat /\ Accepts(l, from, to) /\ memory \in BOOLEAN
        BY <2>4, <2>5
      <4>2. Sorted(l) /\ Mergeable(l) = {}
        BY <1>2
      <4>3. ~memory
        OBVIOUS
      <4> HIDE DEF from, to, memory
      <4>4. /\ Sorted(p) /\ Mergeable(p) = {}
            /\ InMemory(p) = IF memory THEN InMemory(l) \union (from .. (to - 1)) ELSE InMemory(l)
            /\ Filed(p) = IF memory THEN Filed(l) ELSE Filed(l) \union (from .. (to - 1))
        BY <4>1, <4>2, PushLemma
      <4>5. /\ Sorted(p) /\ Mergeable(p) = {}
            /\ InMemory(p) = InMemory(l)
            /\ Filed(p) = Filed(l) \union (from .. (to - 1))
        BY <4>3, <4>4
      <4> QED BY <4>5 DEF from, to, memory
    <3> QED BY <2>5, <3>1
  <2> QED BY <1>2, <2>6, <2>7
<1>3. Fine(<<>>, 0)
  BY EmptyLemma DEF SavedUpTo
<1> HIDE DEF Fine, Load
<1>4. \E f : Solves(f, N)
  <2> DEFINE unsolved == {n \in 0..N : ~\E f : Solves(f, n)}
  <2> SUFFICES ASSUME unsolved # {} PROVE FALSE
    BY <1>1
  <2> DEFINE n == Min(unsolved)
  <2>1. n \in unsolved /\ \A k \in unsolved : n <= k
    <3>1. unsolved \in SUBSET Nat
      BY <1>1
    <3> QED BY <3>1, MinLemma
  <2> HIDE DEF n
  <2>2. n \in 0..N /\ n \in Nat /\ ~\E f : Solves(f, n)
    BY <1>1, <2>1
  <2>3. n # 0
    <3>1. Solves([k \in 0..0 |-> <<>>], 0)
      OBVIOUS
    <3> QED BY <2>2, <3>1
  <2>4. n - 1 \in 0..N /\ n - 1 \notin unsolved
    <3> HIDE DEF unsolved
    <3> QED BY <1>1, <2>1, <2>2, <2>3
  <2>5. PICK f : Solves(f, n - 1)
    BY <2>4
  <2> DEFINE g == [k \in 0..n |-> IF k = n THEN Load(f[n - 1], n) ELSE f[k]]
  <2>6. ASSUME NEW k \in 0..n
        PROVE  g[k] = IF k = 0 THEN <<>> ELSE Load(g[k - 1], k)
    <3>1. CASE k = n
      <4>1. n - 1 \in 0..n /\ n - 1 # n
        BY <2>2, <2>3
      <4> QED BY <2>3, <3>1, <4>1
    <3>2. CASE k # n
      <4>1. k \in 0..(n - 1) /\ (k # 0 => k - 1 \in 0..n /\ k - 1 # n)
        BY <2>2, <3>2
      <4>2. g[k] = f[k] /\ (k # 0 => g[k - 1] = f[k - 1])
        BY <3>2, <4>1
      <4>3. f[k] = IF k = 0 THEN <<>> ELSE Load(f[k - 1], k)
        BY <2>5, <4>1
      <4> QED BY <4>2, <4>3
    <3> QED BY <3>1, <3>2
  <2>7. Solves(g, n)
    <3> HIDE DEF g
    <3>1. g = [k \in 0..n |-> g[k]]
      BY DEF g
    <3> QED BY <2>6, <3>1
  <2> QED BY <2>2, <2>7
<1>5. Solves(h, N)
  BY <1>4
<1> HIDE DEF h
<1>6. h[0] = <<>> /\ \A n \in 1..N : h[n] = Load(h[n - 1], n)
  BY <1>1, <1>5
<1>7. Fine(h[N], N)
  <2> DEFINE wrong == {n \in 0..N : ~Fine(h[n], n)}
  <2> SUFFICES ASSUME wrong # {} PROVE FALSE
    BY <1>1
  <2> DEFINE n == Min(wrong)
  <2>1. n \in wrong /\ \A k \in wrong : n <= k
    <3>1. wrong \in SUBSET Nat
      BY <1>1
    <3> QED BY <3>1, MinLemma
  <2> HIDE DEF n
  <2>2. n \in 0..N /\ ~Fine(h[n], n)
    BY <2>1
  <2>3. n # 0
    BY <1>3, <1>6, <2>2
  <2>4. n \in 1..N /\ n - 1 \in 0..N /\ n - 1 \notin wrong
    BY <1>1, <2>1, <2>2, <2>3
  <2>5. Fine(h[n - 1], n - 1)
    BY <2>4
  <2> QED BY <1>2, <1>6, <2>2, <2>4, <2>5
<1>8. Loaded(parts) = h[N]
  BY DEF Loaded, h, N, Load
<1>9. SavedUpTo(parts, N) = Saved(parts)
  BY <1>1 DEF SavedUpTo, Saved
<1> QED BY <1>7, <1>8, <1>9 DEF Fine

-----------------------------------------------------------------------------
(* The invariant. *)

\* No section is erased by SectionBuffer: an erasure is written when a writer is
\* closed, and a bad part is found when there is none any more.
Records == {F!Header} \union [kind : {"section"}, id : Nat]
IsSection(i) == i \in DOMAIN recs /\ recs[i].kind = "section"

Parts == [at : Nat, id : Nat]
Triggers ==
    [at : {None, "flush", "write", "open", "close", "fill", "copy", "destroy"},
     by : Execs \union {None, "sync", "start"}]
Syncs == [at : {None, "queue", "trigger", "done", "failed"}, dispose : BOOLEAN]

\* start() has resolved, or is rebuilding.
Late == life \in {"up", "disposing", "disposed"}

\* The parts are records of the file, each of them once.
Recorded(parts) ==
    /\ \A k \in DOMAIN parts : IsSection(parts[k].at) /\ recs[parts[k].at].id = parts[k].id
    /\ \A k, l \in DOMAIN parts : parts[k].at = parts[l].at => k = l

Typed ==
    /\ recs \in Seq(Records)
    /\ written \in Nat /\ data \in Seq(Ranges) /\ Len(data) = written
    /\ landed \in 0..Len(recs)
    /\ sections \in Seq(Parts)
    /\ trig \in Triggers
    /\ trig.at = None <=> trig.by = None
    /\ copied \in Nat

ListIsSorted == Sorted(list) /\ Mergeable(list) = {}

\* No byte is written twice, in all the processes.
SectionsAreApart ==
    /\ \A i \in DOMAIN recs : IsSection(i) => recs[i].id \in 1..written
    /\ \A i, j \in DOMAIN recs : IsSection(i) /\ IsSection(j) /\ i # j =>
           Span(data[recs[i].id]) \intersect Span(data[recs[j].id]) = {}

\* While there is a writer, everything in the file is known to the list, and
\* nothing was refused.
WriterKnowsAll ==
    fileLock = "write" /\ Late =>
        /\ \A i \in DOMAIN recs : IsSection(i) => Span(data[recs[i].id]) \subseteq Filed(list)
        /\ loose = {} /\ refused = {}

\* The section that is being written.
Writing == IF trig.at = "write" THEN Span(data[written]) ELSE {}

\* What the list calls written is in the file, on its way there, refused, or in
\* `temp' only; and what was refused or is in `temp' only is not in the file.
SavedIsFiled ==
    Late /\ ~complete =>
        /\ Recorded(sections)
        /\ Saved(sections) \subseteq Filed(list)
        /\ Filed(list) \subseteq Saved(sections) \union refused \union loose \union Writing
        /\ refused \union loose \subseteq Filed(list)
        /\ (refused \union loose) \intersect Saved(sections) = {}

Full == Bytes \subseteq Filed(list) \union InMemory(list)

\* Where the trigger that holds the lock stands.
TriggerStands ==
    /\ trig.at # None => ~complete
    /\ trig.at = "write" =>
          /\ fileLock = "write"
          /\ recs # <<>> /\ recs[Len(recs)] = F!Section(written)
          /\ \A k \in DOMAIN sections : sections[k].at # Len(recs)
    /\ trig.at \in {"fill", "copy", "destroy"} => fileLock # "write"
    /\ trig.at \in {"copy", "destroy"} => InMemory(list) = {}
    /\ trig.at \in {"open", "close", "fill"} => Full
    /\ trig.at \in {"close", "fill"} => copied = 0 /\ ~hasError
    /\ trig.at = "copy" /\ ~hasError => Full

\* The parts that were copied are right in `temp', unless a bad one was found.
CopiedIsGood ==
    trig.at = "copy" /\ ~hasError =>
        \A k \in DOMAIN sections : k <= copied =>
            \A b \in Span(data[sections[k].id]) : temp[b] = "good"

\* So is what was taken out of memory for it.
LooseIsGood ==
    trig.at # "destroy" /\ ~complete /\ loose # {} =>
        temp # NoFile /\ \A b \in loose : temp[b] = "good"

FileInv ==
    /\ Typed /\ ListIsSorted /\ SectionsAreApart
    /\ WriterKnowsAll /\ SavedIsFiled
    /\ TriggerStands /\ CopiedIsGood /\ LooseIsGood

\* Before start() is done, nothing happens but start().
EarlyIsIdle ==
    ~Late =>
        /\ list = <<>> /\ trig = NoTrigger /\ ~complete /\ loose = {} /\ refused = {}
        /\ ~timer /\ sync.at = None /\ \A e \in Execs : pc[e] = "free"
        /\ life # "creating" => fileLock # "write"
        /\ life = "creating" => recs = <<>>
        /\ life \in {"new", "creating"} => ~meta
        /\ life = "opened" => inst = "ready"
        /\ ~meta => sections = <<>>
        /\ life = "opened" /\ meta =>
              /\ Recorded(sections)
              /\ \A i \in DOMAIN recs : IsSection(i) => \E k \in DOMAIN sections : sections[k].at = i

\* The trigger belongs to a coroutine that waits for it, or to sync(), which has
\* flushed what it was called for when it has come back from its own.
OwedIsFlushed ==
    /\ sync \in Syncs
    /\ trig.by \in Execs => pc[trig.by] = "calling"
    /\ Holds("sync") => sync.at = "trigger"
    /\ Holds("start") => sync.at = None
    /\ sync.at \in {"queue", "trigger"} => owed \subseteq Filed(list) \union InMemory(list)
    /\ sync.at = "trigger" /\ ~Holds("sync") => owed \intersect InMemory(list) = {}
    /\ complete => InMemory(list) = {}

\* The theorems about the queue and the file, for the instances of this module.
QP == INSTANCE LossyAsyncQueue_proofs WITH
    Tasks <- {"dataRecv", "timer", "manual"},
    Falsy <- {"manual"},
    None <- NoExec,
    Lockable <- TRUE,
    lock <- queueLock

CS == INSTANCE CacheStore_proofs WITH lock <- fileLock, stored <- {}, erased <- {}

IInv ==
    /\ FileInv
    /\ EarlyIsIdle
    /\ OwedIsFlushed
    /\ QP!IInv

-----------------------------------------------------------------------------
(* The queue. *)

\* No other step of the queue than its answer takes a coroutine out of its call.
KeepsCalls(others) == \A e \in others : pc[e] = "calling" => pc'[e] = "calling"

QueueStep == [QP!Next]_(QP!vars)

LEMMA QueueInvStep == QP!IInv /\ QueueStep => QP!IInv'
  BY QP!IInvStep, BufferAssumption DEF QP!QueueAssumption, QueueStep

LEMMA QueueStays == UNCHANGED queueVars => QueueStep /\ KeepsCalls(Execs)
  BY DEF queueVars, QueueStep, QP!vars, KeepsCalls

LEMMA OwnerActions ==
    ASSUME NEW t
    PROVE  /\ Q!PushQueue(t) => QP!PushQueue(t)
           /\ Q!Lock => QP!Lock
           /\ Q!Unlock => QP!Unlock
           /\ Q!Dispose => QP!Dispose
           /\ Q!DisposeEnd => QP!DisposeEnd
<1> USE DEF Q!Change, QP!Change, Q!Allows, QP!Allows, Q!Rules, QP!Rules,
            Q!HandleChange, QP!HandleChange, Q!StartExecute, QP!StartExecute,
            Q!DropsTask, QP!DropsTask, Q!BusyAfter, QP!BusyAfter, Q!Live, QP!Live
<1>1. Q!PushQueue(t) => QP!PushQueue(t)
  BY DEF Q!PushQueue, QP!PushQueue
<1>2. Q!Lock => QP!Lock
  BY DEF Q!Lock, QP!Lock
<1>3. Q!Unlock => QP!Unlock
  BY DEF Q!Unlock, QP!Unlock
<1>4. Q!Dispose => QP!Dispose
  BY DEF Q!Dispose, QP!Dispose
<1>5. Q!DisposeEnd => QP!DisposeEnd
  BY DEF Q!DisposeEnd, QP!DisposeEnd
<1> QED BY <1>1, <1>2, <1>3, <1>4, <1>5

LEMMA ExecuteActions ==
    ASSUME NEW e
    PROVE  /\ Q!Immediate(e) => QP!Immediate(e)
           /\ Q!Settle(e) => QP!Settle(e)
<1> USE DEF Q!Change, QP!Change, Q!Allows, QP!Allows, Q!Rules, QP!Rules,
            Q!HandleChange, QP!HandleChange, Q!StartExecute, QP!StartExecute,
            Q!DropsTask, QP!DropsTask, Q!BusyAfter, QP!BusyAfter, Q!Reject, QP!Reject
<1>1. Q!Immediate(e) => QP!Immediate(e)
  BY DEF Q!Immediate, QP!Immediate
<1>2. Q!Settle(e) => QP!Settle(e)
  BY DEF Q!Settle, QP!Settle
<1> QED BY <1>1, <1>2

\* The owner's calls are steps of the queue, and leave a call of `_execute' alone.
LEMMA OwnerSteps ==
    ASSUME QP!IInv, NEW t \in {"dataRecv", "timer", "manual"},
           Q!PushQueue(t) \/ Q!Lock \/ Q!Unlock \/ Q!Dispose \/ Q!DisposeEnd
    PROVE  QueueStep /\ KeepsCalls(Execs)
<1>1. QueueStep
  <2>1. QP!Next
    BY OwnerActions DEF QP!Next
  <2> QED BY <2>1 DEF QueueStep
<1>2. pc \in [Execs -> {"free", "immediate", "calling", "rejected"}]
  BY DEF QP!IInv, QP!TypeOK
<1> USE DEF KeepsCalls, Q!Change, Q!HandleChange, Q!StartExecute
<1>3. CASE Q!PushQueue(t)
  BY <1>1, <1>2, <1>3 DEF Q!PushQueue
<1>4. CASE Q!Lock
  BY <1>1, <1>2, <1>4 DEF Q!Lock
<1>5. CASE Q!Unlock
  BY <1>1, <1>2, <1>5 DEF Q!Unlock
<1>6. CASE Q!Dispose
  BY <1>1, <1>2, <1>6 DEF Q!Dispose
<1>7. CASE Q!DisposeEnd
  BY <1>1, <1>2, <1>7 DEF Q!DisposeEnd
<1> QED BY <1>3, <1>4, <1>5, <1>6, <1>7

\* So are the resumptions of a coroutine, which may end its own call only.
LEMMA ExecuteSteps ==
    ASSUME QP!IInv, NEW e \in Execs
    PROVE  /\ Q!Immediate(e) => QueueStep /\ pc[e] = "immediate" /\ KeepsCalls(Execs)
           /\ Q!Settle(e) => QueueStep /\ KeepsCalls(Execs \ {e})
<1>1. Q!Immediate(e) \/ Q!Settle(e) => QueueStep
  <2>1. Q!Immediate(e) \/ Q!Settle(e) => QP!Next
    BY ExecuteActions DEF QP!Next
  <2> QED BY <2>1 DEF QueueStep
<1>2. pc \in [Execs -> {"free", "immediate", "calling", "rejected"}]
  BY DEF QP!IInv, QP!TypeOK
<1> USE DEF KeepsCalls, Q!Change, Q!HandleChange, Q!StartExecute, Q!Reject
<1>3. Q!Immediate(e) => pc[e] = "immediate" /\ KeepsCalls(Execs)
  BY <1>2 DEF Q!Immediate
<1>4. Q!Settle(e) => KeepsCalls(Execs \ {e})
  BY <1>2 DEF Q!Settle
<1> QED BY <1>1, <1>3, <1>4

-----------------------------------------------------------------------------
(* The file. *)

\* Every section of the file has a range.
LEMMA DataLemma ==
    ASSUME FileInv
    PROVE  /\ DOMAIN data = 1..written /\ \A id \in 1..written : data[id] \in Ranges
           /\ \A i \in DOMAIN recs : IsSection(i) =>
                  recs[i].id \in 1..written /\ data[recs[i].id] \in Ranges
           /\ Recorded(sections) => \A k \in DOMAIN sections :
                  /\ sections[k].id \in 1..written
                  /\ Span(data[sections[k].id]) \subseteq Bytes
<1>1. DOMAIN data = 1..written /\ \A id \in 1..written : data[id] \in Ranges
  BY DEF FileInv, Typed
<1>2. \A i \in DOMAIN recs : IsSection(i) =>
          recs[i].id \in 1..written /\ data[recs[i].id] \in Ranges
  BY <1>1 DEF FileInv, SectionsAreApart
<1>3. ASSUME Recorded(sections), NEW k \in DOMAIN sections
      PROVE  sections[k].id \in 1..written /\ Span(data[sections[k].id]) \subseteq Bytes
  <2>1. IsSection(sections[k].at) /\ recs[sections[k].at].id = sections[k].id
    BY <1>3 DEF Recorded
  <2>2. sections[k].id \in 1..written /\ data[sections[k].id] \in Ranges
    BY <1>2, <2>1 DEF IsSection
  <2> QED BY <2>2, SpanLemma
<1> QED BY <1>1, <1>2, <1>3

\* A step that leaves all of this alone.
LEMMA FileStays ==
    ASSUME FileInv,
           UNCHANGED <<recs, written, data, sections, trig, copied, hasError,
                       list, fileLock, loose, refused, temp, complete>>,
           landed' \in {landed, Len(recs)}, Late' = Late
    PROVE  FileInv'
<1> USE DEF FileInv
<1>1. Typed'
  <2>1. Len(recs) \in 0..Len(recs)
    BY DEF Typed
  <2> QED BY <2>1 DEF Typed
<1>2. ListIsSorted'
  BY DEF ListIsSorted
<1>3. SectionsAreApart'
  BY DEF SectionsAreApart, IsSection
<1>4. WriterKnowsAll'
  BY DEF WriterKnowsAll, IsSection
<1>5. SavedIsFiled'
  BY DEF SavedIsFiled, Saved, Recorded, IsSection, Writing
<1>6. TriggerStands'
  BY DEF TriggerStands, Full
<1>7. CopiedIsGood'
  BY DEF CopiedIsGood
<1>8. LooseIsGood'
  BY DEF LooseIsGood
<1> QED BY <1>1, <1>2, <1>3, <1>4, <1>5, <1>6, <1>7, <1>8

\* What a flush step leaves alone in this module.
Flushing == UNCHANGED <<copied, hasError, loose, temp, complete, life>>

\* A flush step finds nothing in memory, or a range it writes, or a range it is
\* refused to write.
LEMMA FlushCases ==
    ASSUME FileInv, Late, ~complete, trig.at \in {None, "flush"},
           NEW by \in Execs \union {"sync", "start"}, FlushNext(by), Flushing
    PROVE  LET item == list[FirstInMemory(list)]
           IN  \/ /\ InMemory(list) = {}
                  /\ trig' = NoTrigger
                  /\ UNCHANGED <<fileVars, data, list, refused>>
               \/ /\ FirstInMemory(list) # 0 /\ list' = ShiftList(list)
                  /\ item \in Ranges
                  /\ Span(item) \subseteq InMemory(list) /\ Span(item) # {}
                  /\ Sorted(list') /\ Mergeable(list') = {}
                  /\ Filed(list') = Filed(list) \union Span(item)
                  /\ InMemory(list') = InMemory(list) \ Span(item)
                  /\ \/ /\ fileLock = "write" /\ fileLock' = "write"
                        /\ F!WritePart
                        /\ data' = Append(data, item)
                        /\ trig' = [at |-> "write", by |-> by]
                        /\ UNCHANGED refused
                     \/ /\ fileLock # "write"
                        /\ refused' = refused \union Span(item)
                        /\ trig' = NoTrigger
                        /\ UNCHANGED <<fileVars, data>>
<1> DEFINE item == list[FirstInMemory(list)]
<1>1. Sorted(list) /\ Mergeable(list) = {}
  BY DEF FileInv, ListIsSorted
<1>2. CASE FirstInMemory(list) = 0
  <2>1. InMemory(list) = {}
    BY <1>1, <1>2, NothingLeft
  <2> QED BY <1>2, <2>1 DEF FlushNext
<1>3. CASE FirstInMemory(list) # 0
  <2>1. list' = ShiftList(list)
    BY <1>3 DEF FlushNext
  <2>2. /\ Sorted(list') /\ Mergeable(list') = {}
        /\ item \in Ranges
        /\ Span(item) \subseteq InMemory(list)
        /\ Filed(list') = Filed(list) \union Span(item)
        /\ InMemory(list') = InMemory(list) \ Span(item)
    BY <1>1, <1>3, <2>1, ShiftLemma
  <2>3. Span(item) # {}
    BY <2>2, SpanLemma
  <2>4. CASE fileLock = "write"
    <3>1. F!WritePart /\ data' = Append(data, item)
          /\ trig' = [at |-> "write", by |-> by] /\ UNCHANGED refused
      BY <1>3, <2>4 DEF FlushNext
    <3>2. fileLock' = "write"
      BY <2>4, <3>1 DEF F!WritePart
    <3> QED BY <1>3, <2>1, <2>2, <2>3, <2>4, <3>1, <3>2
  <2>5. CASE fileLock # "write"
    <3>1. refused' = refused \union Span(item) /\ trig' = NoTrigger
          /\ UNCHANGED <<fileVars, data>>
      BY <1>3, <2>5 DEF FlushNext
    <3> QED BY <1>3, <2>1, <2>2, <2>3, <2>5, <3>1
  <2> QED BY <2>4, <2>5
<1> QED BY <1>2, <1>3

\* Nothing was in memory: the trigger ends.
LEMMA FlushEnds ==
    ASSUME FileInv, trig.at \in {None, "flush"}, trig' = NoTrigger,
           UNCHANGED <<fileVars, data, list, refused>>, Flushing
    PROVE  FileInv'
<1> USE DEF FileInv, fileVars, Flushing
<1>0. trig'.at = None /\ trig'.by = None /\ trig' \in Triggers
  BY DEF NoTrigger, Triggers
<1>1. Typed'
  BY <1>0 DEF Typed
<1>2. ListIsSorted'
  BY DEF ListIsSorted
<1>3. SectionsAreApart'
  BY DEF SectionsAreApart, IsSection
<1>4. WriterKnowsAll'
  BY DEF WriterKnowsAll, IsSection, Late
<1>5. SavedIsFiled'
  BY <1>0 DEF SavedIsFiled, Saved, Recorded, IsSection, Writing, Late, None
<1>6. TriggerStands'
  BY <1>0 DEF TriggerStands, None
<1>7. CopiedIsGood'
  BY <1>0 DEF CopiedIsGood, None
<1>8. LooseIsGood'
  BY DEF LooseIsGood, None
<1> QED BY <1>1, <1>2, <1>3, <1>4, <1>5, <1>6, <1>7, <1>8

\* A range is written: it was in memory, so no section holds any of it yet.
LEMMA FlushWrites ==
    ASSUME FileInv, Late, ~complete, trig.at \in {None, "flush"},
           NEW by \in Execs \union {"sync", "start"}, NEW item \in Ranges,
           Span(item) \subseteq InMemory(list),
           Sorted(list'), Mergeable(list') = {},
           Filed(list') = Filed(list) \union Span(item),
           InMemory(list') = InMemory(list) \ Span(item),
           fileLock = "write", fileLock' = "write", F!WritePart,
           data' = Append(data, item), trig' = [at |-> "write", by |-> by],
           UNCHANGED refused, Flushing
    PROVE  FileInv'
<1> USE DEF FileInv
<1>1. /\ recs' = Append(recs, F!Section(written + 1)) /\ written' = written + 1
      /\ UNCHANGED <<landed, sections>>
  BY DEF F!WritePart, F!Append1
<1>2. /\ F!Section(written + 1) \in Records /\ F!Section(written + 1).kind = "section"
      /\ F!Section(written + 1).id = written + 1
  BY DEF Typed, F!Section, Records
<1>3. /\ recs' \in Seq(Records) /\ Len(recs) \in Nat /\ Len(recs') = Len(recs) + 1
      /\ \A i \in 1..Len(recs) : recs'[i] = recs[i]
      /\ recs'[Len(recs) + 1] = F!Section(written + 1)
      /\ DOMAIN recs = 1..Len(recs) /\ DOMAIN recs' = 1..(Len(recs) + 1)
  BY <1>1, <1>2, AppendProperties DEF Typed
<1>4. /\ data' \in Seq(Ranges) /\ Len(data') = written'
      /\ \A id \in 1..written : data'[id] = data[id]
      /\ data'[written + 1] = item
  BY <1>1, AppendProperties DEF Typed
<1>5. trig'.at = "write" /\ trig'.by = by /\ trig' \in Triggers /\ by # None
  BY BufferAssumption DEF Triggers, None
<1>6. Typed'
  BY <1>1, <1>3, <1>4, <1>5 DEF Typed, Flushing, None
<1>7. ListIsSorted'
  BY DEF ListIsSorted
<1>8. ASSUME NEW i \in DOMAIN recs'
      PROVE  /\ i = Len(recs) + 1 => IsSection(i)' /\ recs'[i].id = written'
                                     /\ data'[recs'[i].id] = item
             /\ i # Len(recs) + 1 =>
                   /\ i \in DOMAIN recs /\ recs'[i] = recs[i]
                   /\ IsSection(i)' <=> IsSection(i)
                   /\ IsSection(i) => /\ recs[i].id \in 1..written
                                      /\ data'[recs[i].id] = data[recs[i].id]
                                      /\ Span(data[recs[i].id]) \subseteq Filed(list)
  <2>1. CASE i = Len(recs) + 1
    BY <1>1, <1>2, <1>3, <1>4, <2>1 DEF IsSection
  <2>2. CASE i # Len(recs) + 1
    <3>1. i \in DOMAIN recs /\ recs'[i] = recs[i]
      BY <1>3, <2>2
    <3>2. IsSection(i)' <=> IsSection(i)
      BY <3>1 DEF IsSection
    <3>3. IsSection(i) => /\ recs[i].id \in 1..written
                          /\ Span(data[recs[i].id]) \subseteq Filed(list)
      BY <3>1 DEF SectionsAreApart, WriterKnowsAll
    <3> QED BY <1>4, <2>2, <3>1, <3>2, <3>3
  <2> QED BY <2>1, <2>2
<1>9. Span(item) \intersect Filed(list) = {}
  BY PlaceLemma DEF ListIsSorted
<1>10. SectionsAreApart'
  <2>1. \A i \in DOMAIN recs' : IsSection(i)' => recs'[i].id \in 1..written'
    BY <1>1, <1>8 DEF Typed
  <2>2. ASSUME NEW i \in DOMAIN recs', NEW j \in DOMAIN recs',
               IsSection(i)', IsSection(j)', i # j
        PROVE  Span(data'[recs'[i].id]) \intersect Span(data'[recs'[j].id]) = {}
    <3>1. CASE i # Len(recs) + 1 /\ j # Len(recs) + 1
      BY <1>8, <2>2, <3>1 DEF SectionsAreApart
    <3>2. CASE i = Len(recs) + 1
      BY <1>8, <1>9, <2>2, <3>2
    <3>3. CASE j = Len(recs) + 1
      BY <1>8, <1>9, <2>2, <3>3
    <3> QED BY <3>1, <3>2, <3>3
  <2> QED BY <2>1, <2>2 DEF SectionsAreApart
<1>11. WriterKnowsAll'
  <2>1. \A i \in DOMAIN recs' : IsSection(i)' => Span(data'[recs'[i].id]) \subseteq Filed(list')
    BY <1>8
  <2>2. loose = {} /\ refused = {} /\ loose' = loose
    BY DEF WriterKnowsAll, Flushing
  <2> QED BY <2>1, <2>2 DEF WriterKnowsAll
<1>12. Recorded(sections) /\ \A k \in DOMAIN sections :
           /\ sections[k].at \in DOMAIN recs /\ sections[k].at # Len(recs) + 1
           /\ sections[k].at \in DOMAIN recs'
           /\ data'[sections[k].id] = data[sections[k].id]
  <2>1. Recorded(sections)
    BY DEF SavedIsFiled
  <2>2. ASSUME NEW k \in DOMAIN sections
        PROVE  /\ sections[k].at \in DOMAIN recs /\ sections[k].at # Len(recs) + 1
               /\ sections[k].at \in DOMAIN recs'
               /\ data'[sections[k].id] = data[sections[k].id]
    <3>1. IsSection(sections[k].at) /\ recs[sections[k].at].id = sections[k].id
      BY <2>1 DEF Recorded
    <3>2. /\ sections[k].at \in DOMAIN recs /\ sections[k].at # Len(recs) + 1
          /\ sections[k].at \in DOMAIN recs'
      BY <1>3, <3>1 DEF IsSection
    <3> QED BY <1>8, <3>1, <3>2
  <2> QED BY <2>1, <2>2
<1>13. Recorded(sections)'
  BY <1>1, <1>8, <1>12 DEF Recorded
<1>14. Saved(sections)' = Saved(sections)
  <2>1. sections' = sections
    BY <1>1
  <2>2. \A k \in DOMAIN sections :
            Span(data'[sections[k].id]) = Span(data[sections[k].id])
    BY <1>12
  <2> QED BY <2>1, <2>2 DEF Saved
<1>15. Writing = {} /\ Writing' = Span(item)
  BY <1>1, <1>4, <1>5 DEF Writing, None
<1>16. SavedIsFiled'
  <2>1. /\ Saved(sections) \subseteq Filed(list)
        /\ Filed(list) \subseteq Saved(sections) \union refused \union loose \union Writing
        /\ refused \union loose \subseteq Filed(list)
        /\ (refused \union loose) \intersect Saved(sections) = {}
    BY DEF SavedIsFiled
  <2>2. UNCHANGED <<loose, refused>>
    BY DEF Flushing
  <2>3. /\ Saved(sections)' \subseteq Filed(list')
        /\ Filed(list') \subseteq Saved(sections)' \union refused' \union loose' \union Writing'
        /\ refused' \union loose' \subseteq Filed(list')
        /\ (refused' \union loose') \intersect Saved(sections)' = {}
    BY <1>14, <1>15, <2>1, <2>2
  <2> QED BY <1>13, <2>3 DEF SavedIsFiled
<1>17. TriggerStands'
  <2>1. recs' # <<>> /\ recs'[Len(recs')] = F!Section(written')
    BY <1>1, <1>3
  <2>2. \A k \in DOMAIN sections' : sections'[k].at # Len(recs')
    BY <1>1, <1>3, <1>12
  <2> QED BY <1>5, <2>1, <2>2 DEF TriggerStands, Flushing, F!Section
<1>18. CopiedIsGood'
  BY <1>5 DEF CopiedIsGood
<1>19. LooseIsGood'
  BY <1>5 DEF LooseIsGood, Flushing, None
<1> QED BY <1>6, <1>7, <1>10, <1>11, <1>16, <1>17, <1>18, <1>19

\* A write is refused: the range is filed, and no section holds any of it.
LEMMA FlushRefused ==
    ASSUME FileInv, Late, ~complete, trig.at \in {None, "flush"}, NEW item \in Ranges,
           Span(item) \subseteq InMemory(list),
           Sorted(list'), Mergeable(list') = {},
           Filed(list') = Filed(list) \union Span(item),
           InMemory(list') = InMemory(list) \ Span(item),
           fileLock # "write", refused' = refused \union Span(item),
           trig' = NoTrigger, UNCHANGED <<fileVars, data>>, Flushing
    PROVE  FileInv'
<1> USE DEF FileInv, fileVars
<1>0. trig'.at = None /\ trig'.by = None /\ trig' \in Triggers
  BY DEF NoTrigger, Triggers
<1>1. Typed'
  BY <1>0 DEF Typed, Flushing
<1>2. ListIsSorted'
  BY DEF ListIsSorted
<1>3. SectionsAreApart'
  BY DEF SectionsAreApart, IsSection
<1>4. WriterKnowsAll'
  BY DEF WriterKnowsAll
<1>5. SavedIsFiled'
  <2>1. Span(item) \intersect Filed(list) = {}
    BY PlaceLemma DEF ListIsSorted
  <2>2. Recorded(sections)' /\ Saved(sections)' = Saved(sections)
    BY DEF SavedIsFiled, Recorded, IsSection, Saved
  <2>3. Writing = {} /\ loose' = loose
    BY DEF Writing, Flushing, None
  <2>4. /\ Saved(sections) \subseteq Filed(list)
        /\ Filed(list) \subseteq Saved(sections) \union refused \union loose
        /\ refused \union loose \subseteq Filed(list)
        /\ (refused \union loose) \intersect Saved(sections) = {}
    BY <2>3 DEF SavedIsFiled
  <2>5. /\ Saved(sections)' \subseteq Filed(list')
        /\ Filed(list') \subseteq Saved(sections)' \union refused' \union loose'
        /\ refused' \union loose' \subseteq Filed(list')
        /\ (refused' \union loose') \intersect Saved(sections)' = {}
    BY <2>1, <2>2, <2>3, <2>4
  <2> QED BY <2>2, <2>5 DEF SavedIsFiled
<1>6. TriggerStands'
  BY <1>0 DEF TriggerStands, None
<1>7. CopiedIsGood'
  BY <1>0 DEF CopiedIsGood, None
<1>8. LooseIsGood'
  BY DEF LooseIsGood, Flushing, None
<1> QED BY <1>1, <1>2, <1>3, <1>4, <1>5, <1>6, <1>7, <1>8

\* What the owner of a trigger sees of a step of it.
Outcome(by) ==
    /\ trig' = NoTrigger \/ trig'.by = by
    /\ Filed(list') \union InMemory(list') = Filed(list) \union InMemory(list)
    /\ InMemory(list') \subseteq InMemory(list)
    /\ refused' # refused => trig' = NoTrigger

\* A trigger that has flushed ends with nothing left in memory, or a refusal.
Flushed == trig' = NoTrigger => InMemory(list') = {} \/ refused' # refused

LEMMA FlushKeeps ==
    ASSUME FileInv, Late, ~complete, trig.at \in {None, "flush"},
           NEW by \in Execs \union {"sync", "start"}, FlushNext(by), Flushing
    PROVE  FileInv' /\ Outcome(by) /\ Flushed
<1> DEFINE item == list[FirstInMemory(list)]
<1>1. CASE InMemory(list) = {} /\ trig' = NoTrigger /\ UNCHANGED <<fileVars, data, list, refused>>
  <2>1. FileInv'
    BY <1>1, FlushEnds
  <2> QED BY <1>1, <2>1 DEF Outcome, Flushed
<1>2. ASSUME item \in Ranges, Span(item) \subseteq InMemory(list), Span(item) # {},
             Sorted(list'), Mergeable(list') = {},
             Filed(list') = Filed(list) \union Span(item),
             InMemory(list') = InMemory(list) \ Span(item),
             \/ /\ fileLock = "write" /\ fileLock' = "write"
                /\ F!WritePart
                /\ data' = Append(data, item)
                /\ trig' = [at |-> "write", by |-> by]
                /\ UNCHANGED refused
             \/ /\ fileLock # "write"
                /\ refused' = refused \union Span(item)
                /\ trig' = NoTrigger
                /\ UNCHANGED <<fileVars, data>>
      PROVE  FileInv' /\ Outcome(by) /\ Flushed
  <2> HIDE DEF item
  <2>0. /\ Filed(list') \union InMemory(list') = Filed(list) \union InMemory(list)
        /\ InMemory(list') \subseteq InMemory(list)
    BY <1>2
  <2>1. CASE fileLock = "write" /\ fileLock' = "write" /\ F!WritePart
             /\ data' = Append(data, item) /\ trig' = [at |-> "write", by |-> by]
             /\ UNCHANGED refused
    <3>1. FileInv'
      BY <1>2, <2>1, FlushWrites
    <3>2. trig'.by = by /\ trig' # NoTrigger /\ refused' = refused
      BY <2>1 DEF NoTrigger, None
    <3> QED BY <2>0, <3>1, <3>2 DEF Outcome, Flushed
  <2>2. CASE fileLock # "write" /\ refused' = refused \union Span(item)
             /\ trig' = NoTrigger /\ UNCHANGED <<fileVars, data>>
    <3>1. FileInv'
      BY <1>2, <2>2, FlushRefused
    <3>2. refused' # refused
      <4>1. refused \subseteq Filed(list)
        BY DEF FileInv, SavedIsFiled
      <4>2. Filed(list) \intersect InMemory(list) = {}
        BY PlaceLemma DEF FileInv, ListIsSorted
      <4> QED BY <1>2, <2>2, <4>1, <4>2
    <3> QED BY <2>0, <2>2, <3>1, <3>2 DEF Outcome, Flushed
  <2> QED BY <1>2, <2>1, <2>2
<1> QED BY <1>1, <1>2, FlushCases

\* The trigger that finds every byte there goes on to the rebuild.
LEMMA FullKeeps ==
    ASSUME FileInv, ~complete, trig = NoTrigger, IsFullfilled(list),
           NEW by \in Execs \union {"sync", "start"}, trig' = [at |-> "open", by |-> by],
           UNCHANGED <<fileVars, data, list, refused>>, Flushing
    PROVE  FileInv' /\ Outcome(by) /\ trig' # NoTrigger
<1> USE DEF FileInv, fileVars, Flushing
<1>0. /\ trig'.at = "open" /\ trig'.by = by /\ by # None /\ trig' \in Triggers
      /\ trig' # NoTrigger /\ trig.at = None
  BY BufferAssumption DEF NoTrigger, Triggers, None
<1>1. Typed'
  BY <1>0 DEF Typed, None
<1>2. ListIsSorted'
  BY DEF ListIsSorted
<1>3. SectionsAreApart'
  BY DEF SectionsAreApart, IsSection
<1>4. WriterKnowsAll'
  BY DEF WriterKnowsAll, IsSection, Late
<1>5. SavedIsFiled'
  BY <1>0 DEF SavedIsFiled, Saved, Recorded, IsSection, Writing, Late, None
<1>6. TriggerStands'
  <2>1. Full'
    BY NothingMissing DEF Full, ListIsSorted
  <2> QED BY <1>0, <2>1 DEF TriggerStands
<1>7. CopiedIsGood'
  BY <1>0 DEF CopiedIsGood
<1>8. LooseIsGood'
  BY <1>0 DEF LooseIsGood, None
<1>9. Outcome(by)
  BY <1>0 DEF Outcome
<1> QED BY <1>0, <1>1, <1>2, <1>3, <1>4, <1>5, <1>6, <1>7, <1>8, <1>9

LEMMA TriggerKeeps ==
    ASSUME FileInv, Late, NEW kind, NEW by \in Execs \union {"sync", "start"},
           Trigger(kind, by), UNCHANGED <<loose, temp, complete, life>>
    PROVE  /\ FileInv'
           /\ trig # NoTrigger => UNCHANGED <<trig, list, refused>>
           /\ trig = NoTrigger => Outcome(by)
           /\ trig = NoTrigger /\ ~complete /\ kind \notin {"dataRecv", "timer"} => Flushed
<1>1. CASE trig # NoTrigger
  <2>1. UNCHANGED <<fileVars, data, list, manual, trigVars, refused>>
    BY <1>1 DEF Trigger
  <2>2. FileInv'
    BY <2>1, FileStays DEF fileVars, trigVars, Late
  <2> QED BY <1>1, <2>1, <2>2 DEF trigVars
<1>2. CASE trig = NoTrigger
  <2>0. Flushing /\ trig.at = None
    BY <1>2 DEF Trigger, Flushing, NoTrigger
  <2>1. CASE complete
    <3>1. UNCHANGED <<fileVars, data, list, trig, refused>>
      BY <1>2, <2>1 DEF Trigger
    <3>2. FileInv'
      BY <2>0, <3>1, FileStays DEF fileVars, Late, Flushing
    <3> QED BY <1>2, <2>1, <3>1, <3>2 DEF Outcome
  <2>2. CASE ~complete /\ IsFullfilled(list)
    <3>1. trig' = [at |-> "open", by |-> by] /\ UNCHANGED <<fileVars, data, list, refused>>
      BY <1>2, <2>2 DEF Trigger
    <3> QED BY <1>2, <2>0, <2>2, <3>1, FullKeeps DEF Flushed
  <2>3. CASE ~complete /\ ~IsFullfilled(list)
    <3>1. PICK flush \in Flushes(kind) :
              IF flush THEN FlushNext(by) ELSE UNCHANGED <<fileVars, data, list, trig, refused>>
      BY <1>2, <2>3 DEF Trigger
    <3>2. CASE flush
      <4>1. FileInv' /\ Outcome(by) /\ Flushed
        BY <2>0, <2>3, <3>1, <3>2, FlushKeeps
      <4> QED BY <1>2, <4>1
    <3>3. CASE ~flush
      <4>1. UNCHANGED <<fileVars, data, list, trig, refused>>
        BY <3>1, <3>3
      <4>2. FileInv'
        BY <2>0, <4>1, FileStays DEF fileVars, Late, Flushing
      <4>3. kind \in {"dataRecv", "timer"}
        <5>1. kind \notin {"dataRecv", "timer"} => Flushes(kind) = {TRUE}
          BY DEF Flushes
        <5>2. flush \in {TRUE} => flush
          OBVIOUS
        <5> QED BY <3>1, <3>3, <5>1, <5>2
      <4> QED BY <1>2, <4>1, <4>2, <4>3 DEF Outcome
    <3> QED BY <3>2, <3>3
  <2> QED BY <2>1, <2>2, <2>3
<1> QED BY <1>1, <1>2

-----------------------------------------------------------------------------
(* The steps of a flush and of the rebuild, as the file sees them. *)

LEMMA LateLemma == IInv /\ trig.at # None => Late /\ ~complete
  BY DEF IInv, EarlyIsIdle, NoTrigger, FileInv, TriggerStands

\* writePart() is done: the section that was written is one of the parts.
LEMMA WrittenKeeps ==
    ASSUME FileInv, Late, ~complete, FlushWritten
    PROVE  FileInv'
<1> USE DEF FileInv
<1>0. /\ trig.at = "write" /\ Late /\ ~complete
      /\ sections' = Append(sections, F!Part(Len(recs), Last(recs).id))
      /\ trig' = [trig EXCEPT !.at = "flush"]
      /\ UNCHANGED <<recs, written, data, landed, copied, hasError, list, fileLock,
                     loose, refused, temp, complete, life>>
  BY DEF FlushWritten, F!WriteEnd, F!fileVars, F!Last, Last, diskVars, bufVars, histVars, None
<1>1. /\ trig'.at = "flush" /\ trig'.by = trig.by /\ trig' \in Triggers
      /\ trig.by # None
  BY <1>0 DEF Typed, Triggers, None
<1> DEFINE n == Len(recs)
           new == F!Part(n, Last(recs).id)
<1>2. /\ n \in Nat /\ n \in DOMAIN recs /\ recs[n] = F!Section(written)
      /\ Last(recs).id = written /\ written \in Nat /\ IsSection(n) /\ recs[n].id = written
  BY <1>0 DEF TriggerStands, Typed, F!Section, Last, IsSection
<1>3. new \in Parts /\ new.at = n /\ new.id = written
  BY <1>2 DEF Parts, F!Part
<1> HIDE DEF new
<1>4. /\ sections' \in Seq(Parts) /\ Len(sections) \in Nat
      /\ DOMAIN sections = 1..Len(sections) /\ DOMAIN sections' = 1..(Len(sections) + 1)
      /\ \A k \in DOMAIN sections : sections'[k] = sections[k]
      /\ sections'[Len(sections) + 1] = new
  BY <1>0, <1>3, AppendProperties DEF Typed, new
<1>5. Typed'
  BY <1>0, <1>1, <1>4 DEF Typed, None
<1>6. ListIsSorted' /\ SectionsAreApart' /\ WriterKnowsAll'
  BY <1>0 DEF ListIsSorted, SectionsAreApart, WriterKnowsAll, IsSection, Late
<1>7. Recorded(sections)'
  <2>1. Recorded(sections) /\ \A k \in DOMAIN sections : sections[k].at # n
    BY <1>0 DEF SavedIsFiled, TriggerStands
  <2>2. \A k \in DOMAIN sections' : k \in DOMAIN sections \/ k = Len(sections) + 1
    BY <1>4
  <2>3. \A k \in DOMAIN sections' :
            IsSection(sections'[k].at) /\ recs[sections'[k].at].id = sections'[k].id
    BY <1>2, <1>3, <1>4, <2>1, <2>2 DEF Recorded
  <2>4. \A k, l \in DOMAIN sections' : sections'[k].at = sections'[l].at => k = l
    BY <1>3, <1>4, <2>1, <2>2 DEF Recorded
  <2> QED BY <1>0, <2>3, <2>4 DEF Recorded, IsSection
<1>8. Saved(sections)' = Saved(sections) \union Span(data[written])
  <2>1. \A b : b \in Saved(sections)' <=>
            \E k \in DOMAIN sections' : b \in Span(data[sections'[k].id])
    BY <1>0 DEF Saved
  <2>2. \A b : b \in Saved(sections) <=>
            \E k \in DOMAIN sections : b \in Span(data[sections[k].id])
    BY DEF Saved
  <2>3. \A k \in DOMAIN sections' : k \in DOMAIN sections \/ k = Len(sections) + 1
    BY <1>4
  <2>4. \A k \in DOMAIN sections : k \in DOMAIN sections' /\ sections'[k] = sections[k]
    BY <1>4
  <2>5. Len(sections) + 1 \in DOMAIN sections'
    BY <1>4
  <2> QED BY <1>3, <1>4, <2>1, <2>2, <2>3, <2>4, <2>5
<1>9. SavedIsFiled'
  <2>1. Span(data[written]) \subseteq Filed(list) /\ loose = {} /\ refused = {}
    BY <1>0, <1>2 DEF TriggerStands, WriterKnowsAll
  <2>2. Writing = Span(data[written])
    BY <1>0 DEF Writing
  <2>3. /\ Saved(sections)' \subseteq Filed(list)
        /\ Filed(list) \subseteq Saved(sections)'
    BY <1>0, <1>8, <2>1, <2>2 DEF SavedIsFiled
  <2> QED BY <1>0, <1>7, <2>1, <2>3 DEF SavedIsFiled
<1>10. TriggerStands' /\ CopiedIsGood'
  BY <1>0, <1>1 DEF TriggerStands, CopiedIsGood, None
<1>11. LooseIsGood'
  BY <1>0, <1>1 DEF LooseIsGood
<1> QED BY <1>5, <1>6, <1>9, <1>10, <1>11

\* A step of the rebuild that copies nothing.
LEMMA RebuildGoesOn ==
    ASSUME FileInv, Late, ~complete, trig.at \in {"open", "close", "fill"}, trig'.at \in {"close", "fill", "copy"},
           trig' = [trig EXCEPT !.at = trig'.at],
           UNCHANGED <<recs, written, data, sections, list, loose, refused, complete, life>>,
           landed' \in {landed, Len(recs)},
           temp' = temp \/ temp = NoFile,
           copied' = 0, ~hasError',
           trig'.at # "close" => fileLock' # "write",
           trig'.at = "close" => fileLock' = fileLock,
           trig'.at = "copy" => InMemory(list) = {}
    PROVE  FileInv'
<1> USE DEF FileInv
<1>0. trig.at # None
  BY DEF None
<1>2. /\ trig'.by = trig.by /\ trig' \in Triggers /\ trig.by # None
  BY <1>0 DEF Typed, Triggers, None
<1>3. Typed'
  <2>1. Len(recs) \in 0..Len(recs)
    BY DEF Typed
  <2> QED BY <1>2, <2>1 DEF Typed, None
<1>4. ListIsSorted' /\ SectionsAreApart'
  BY DEF ListIsSorted, SectionsAreApart, IsSection
<1>5. WriterKnowsAll'
  BY DEF WriterKnowsAll, IsSection, Late
<1>6. Full
  BY DEF TriggerStands
<1>7. SavedIsFiled'
  <2>1. Writing = {}
    BY DEF Writing
  <2> QED BY <2>1 DEF SavedIsFiled, Saved, Recorded, IsSection, Late
<1>8. TriggerStands'
  BY <1>6 DEF TriggerStands, Full
<1>9. CopiedIsGood'
  <2>1. \A k \in DOMAIN sections : k \in Int /\ 0 < k
    BY DEF Typed
  <2> QED BY <2>1 DEF CopiedIsGood
<1>10. LooseIsGood'
  BY DEF LooseIsGood
<1> QED BY <1>3, <1>4, <1>5, <1>7, <1>8, <1>9, <1>10

\* A range goes from the memory to the new file.
LEMMA FillKeeps ==
    ASSUME FileInv, Late, ~complete, RebuildFill, FirstInMemory(list) # 0
    PROVE  /\ FileInv' /\ trig' = trig /\ trig.at = "fill" /\ UNCHANGED refused
           /\ Filed(list') \union InMemory(list') = Filed(list) \union InMemory(list)
           /\ InMemory(list') \subseteq InMemory(list)
<1> USE DEF FileInv
<1> DEFINE item == list[FirstInMemory(list)]
<1>1. /\ trig.at = "fill" /\ trig' = trig
      /\ list' = ShiftList(list)
      /\ temp' = Overwrite(temp, Span(item), "good")
      /\ loose' = loose \union Span(item)
      /\ UNCHANGED <<recs, written, data, landed, sections, copied, hasError, fileLock,
                     refused, complete, life>>
  BY DEF RebuildFill, fileVars
<1>2. Sorted(list) /\ Mergeable(list) = {}
  BY DEF ListIsSorted
<1>3. /\ Sorted(list') /\ Mergeable(list') = {}
      /\ item \in Ranges
      /\ Span(item) \subseteq InMemory(list)
      /\ Filed(list') = Filed(list) \union Span(item)
      /\ InMemory(list') = InMemory(list) \ Span(item)
  BY <1>1, <1>2, ShiftLemma
<1>4. Filed(list) \subseteq Bytes /\ Span(item) \subseteq Bytes
      /\ Span(item) \intersect Filed(list) = {}
  BY <1>2, <1>3, PlaceLemma
<1> HIDE DEF item
<1>5. /\ Filed(list') \union InMemory(list') = Filed(list) \union InMemory(list)
      /\ InMemory(list') \subseteq InMemory(list)
  BY <1>3
<1>6. Typed' /\ ListIsSorted' /\ SectionsAreApart'
  BY <1>1, <1>3 DEF Typed, ListIsSorted, SectionsAreApart, IsSection
<1>7. WriterKnowsAll'
  BY <1>1 DEF WriterKnowsAll, TriggerStands
<1>8. SavedIsFiled'
  <2>1. Recorded(sections)' /\ Saved(sections)' = Saved(sections)
    BY <1>1 DEF SavedIsFiled, Recorded, IsSection, Saved
  <2>2. Writing = {}
    BY <1>1 DEF Writing
  <2>3. /\ Saved(sections) \subseteq Filed(list)
        /\ Filed(list) \subseteq Saved(sections) \union refused \union loose
        /\ refused \union loose \subseteq Filed(list)
        /\ (refused \union loose) \intersect Saved(sections) = {}
    BY <2>2 DEF SavedIsFiled
  <2>4. /\ Saved(sections)' \subseteq Filed(list')
        /\ Filed(list') \subseteq Saved(sections)' \union refused' \union loose'
        /\ refused' \union loose' \subseteq Filed(list')
        /\ (refused' \union loose') \intersect Saved(sections)' = {}
    BY <1>1, <1>3, <1>4, <2>1, <2>3
  <2> QED BY <2>1, <2>4 DEF SavedIsFiled
<1>9. TriggerStands'
  BY <1>1, <1>5 DEF TriggerStands, Full
<1>10. CopiedIsGood'
  BY <1>1 DEF CopiedIsGood
<1>11. LooseIsGood'
  <2>1. \A b \in Bytes : temp'[b] = IF b \in Span(item) THEN "good" ELSE temp[b]
    BY <1>1 DEF Overwrite
  <2>2. temp' # NoFile
    <3>1. DOMAIN temp' = Bytes /\ DOMAIN NoFile = {}
      BY <1>1 DEF Overwrite, NoFile
    <3>2. 0 \in Bytes
      BY MaxSizeAssumption, BufferAssumption DEF Bytes
    <3> QED BY <3>1, <3>2
  <2>3. loose \subseteq Bytes
    BY <1>4 DEF SavedIsFiled
  <2>4. \A b \in loose : temp[b] = "good"
    BY <1>1 DEF LooseIsGood
  <2> QED BY <1>1, <1>4, <2>1, <2>2, <2>3, <2>4 DEF LooseIsGood
<1> QED BY <1>1, <1>5, <1>6, <1>7, <1>8, <1>9, <1>10, <1>11

\* Two parts of the file hold different bytes.
LEMMA PartsApart ==
    ASSUME FileInv, Recorded(sections),
           NEW k \in DOMAIN sections, NEW l \in DOMAIN sections, k # l
    PROVE  Span(data[sections[k].id]) \intersect Span(data[sections[l].id]) = {}
<1>1. /\ IsSection(sections[k].at) /\ recs[sections[k].at].id = sections[k].id
      /\ IsSection(sections[l].at) /\ recs[sections[l].at].id = sections[l].id
      /\ sections[k].at # sections[l].at
  BY DEF Recorded
<1> QED BY <1>1 DEF FileInv, SectionsAreApart, IsSection

\* A part is copied, and it is right.
LEMMA CopyGoodKeeps ==
    ASSUME FileInv, Late, ~complete, trig.at = "copy", copied < Len(sections),
           temp' = Overwrite(temp, Span(data[sections[copied + 1].id]), "good"),
           copied' = copied + 1,
           UNCHANGED <<fileVars, data, list, trig, hasError, refused, loose, complete, life>>
    PROVE  FileInv'
<1> USE DEF FileInv, fileVars
<1> DEFINE range == data[sections[copied + 1].id]
<1>1. copied \in Nat /\ Len(sections) \in Nat /\ DOMAIN sections = 1..Len(sections)
      /\ copied + 1 \in DOMAIN sections
  BY DEF Typed
<1>2. Typed' /\ ListIsSorted' /\ SectionsAreApart' /\ WriterKnowsAll'
  <2>1. Typed'
    BY <1>1 DEF Typed
  <2>2. ListIsSorted' /\ SectionsAreApart'
    BY DEF ListIsSorted, SectionsAreApart, IsSection
  <2>3. WriterKnowsAll'
    BY DEF WriterKnowsAll, IsSection, Late
  <2> QED BY <2>1, <2>2, <2>3
<1>3. SavedIsFiled' /\ TriggerStands'
  BY DEF SavedIsFiled, Saved, Recorded, IsSection, Writing, Late, TriggerStands, Full
<1>4. Recorded(sections)
  BY DEF SavedIsFiled
<1>5. \A k \in DOMAIN sections : Span(data[sections[k].id]) \subseteq Bytes
  BY <1>4, DataLemma
<1>6. \A b \in Bytes : temp'[b] = IF b \in Span(range) THEN "good" ELSE temp[b]
  BY DEF Overwrite
<1> HIDE DEF range
<1>7. CopiedIsGood'
  <2> SUFFICES ASSUME ~hasError, NEW k \in DOMAIN sections, k <= copied + 1,
                      NEW b \in Span(data[sections[k].id])
               PROVE  temp'[b] = "good"
    BY DEF CopiedIsGood
  <2>1. b \in Bytes
    BY <1>5
  <2>2. CASE k = copied + 1
    BY <1>6, <2>1, <2>2 DEF range
  <2>3. CASE k # copied + 1
    <3>1. k <= copied
      BY <1>1, <2>3
    <3>2. temp[b] = "good"
      BY <3>1 DEF CopiedIsGood
    <3> QED BY <1>6, <2>1, <3>2
  <2> QED BY <2>2, <2>3
<1>8. LooseIsGood'
  <2> SUFFICES ASSUME loose # {} PROVE temp' # NoFile /\ \A b \in loose : temp'[b] = "good"
    BY DEF LooseIsGood
  <2>1. loose \subseteq Bytes
    BY PlaceLemma DEF SavedIsFiled, ListIsSorted
  <2>2. \A b \in loose : temp[b] = "good"
    BY DEF LooseIsGood
  <2>3. temp' # NoFile
    <3>1. DOMAIN temp' = Bytes /\ DOMAIN NoFile = {}
      BY DEF Overwrite, NoFile
    <3> QED BY <2>1, <3>1
  <2> QED BY <1>6, <2>1, <2>2, <2>3
<1> QED BY <1>2, <1>3, <1>7, <1>8

\* A bad part is taken out of the file and of the list.
LEMMA CopyBadKeeps ==
    ASSUME FileInv, Late, ~complete, trig.at = "copy", copied < Len(sections),
           temp' = Overwrite(temp, Span(data[sections[copied + 1].id]), "wrong"),
           F!MarkBad(copied + 1),
           list' = PunchList(list, data[sections[copied + 1].id].start,
                                   data[sections[copied + 1].id].end),
           hasError' = TRUE, copied' = copied + 1,
           UNCHANGED <<data, trig, refused, loose, complete, life>>
    PROVE  /\ FileInv'
           /\ Filed(list') \union InMemory(list') =
                (Filed(list) \union InMemory(list)) \ Span(data[sections[copied + 1].id])
           /\ InMemory(list') \subseteq InMemory(list)
<1> USE DEF FileInv
<1> DEFINE p == copied + 1
           range == data[sections[p].id]
<1>1. /\ sections' = RemoveAt(sections, p)
      /\ UNCHANGED <<recs, landed, fileLock, written>>
  BY DEF F!MarkBad, F!fileVars, F!RemoveAt, RemoveAt
<1>2. copied \in Nat /\ p \in DOMAIN sections /\ sections \in Seq(Parts)
  BY DEF Typed
<1>3. Recorded(sections)
  BY DEF SavedIsFiled
<1>4. range \in Ranges /\ Span(range) \subseteq Saved(sections)
  <2>1. range \in Ranges
    BY <1>2, <1>3, DataLemma
  <2>2. Span(range) \subseteq Saved(sections)
    BY <1>2 DEF Saved
  <2> QED BY <2>1, <2>2
<1> HIDE DEF range, p
<1>5. /\ Sorted(list') /\ Mergeable(list') = {}
      /\ Filed(list') = Filed(list) \ Span(range)
      /\ InMemory(list') = InMemory(list) \ Span(range)
  <2>1. Sorted(list) /\ Mergeable(list) = {}
    BY DEF ListIsSorted
  <2>2. list' = PunchList(list, range.start, range.end)
    BY DEF range, p
  <2> QED BY <1>4, <2>1, <2>2, PunchLemma
<1>6. /\ RemoveAt(sections, p) \in Seq(Parts)
      /\ \A k \in DOMAIN RemoveAt(sections, p) :
             \E j \in DOMAIN sections \ {p} :
                 /\ j = IF k < p THEN k ELSE k + 1
                 /\ RemoveAt(sections, p)[k] = sections[j]
      /\ \A j \in DOMAIN sections \ {p} :
             \E k \in DOMAIN RemoveAt(sections, p) : RemoveAt(sections, p)[k] = sections[j]
      /\ \A k \in DOMAIN RemoveAt(sections, p) : k \in Int
  <2>1. CS!RemoveAt(sections, p) = RemoveAt(sections, p)
    BY DEF CS!RemoveAt, RemoveAt
  <2> QED BY <1>2, <2>1, CS!Removed1, BufferAssumption DEF CS!CacheFileAssumption
<1> DEFINE short == RemoveAt(sections, p)
<1>7. sections' = short
  BY <1>1
<1> HIDE DEF short
<1>8. /\ short \in Seq(Parts)
      /\ \A k \in DOMAIN short : \E j \in DOMAIN sections \ {p} :
             j = (IF k < p THEN k ELSE k + 1) /\ short[k] = sections[j]
      /\ \A j \in DOMAIN sections \ {p} : \E k \in DOMAIN short : short[k] = sections[j]
      /\ \A k \in DOMAIN short : k \in Int
  BY <1>6 DEF short
<1>9. Typed' /\ ListIsSorted' /\ SectionsAreApart'
  <2>1. Typed'
    BY <1>1, <1>2, <1>7, <1>8 DEF Typed
  <2>2. ListIsSorted' /\ SectionsAreApart'
    BY <1>1, <1>5 DEF ListIsSorted, SectionsAreApart, IsSection
  <2> QED BY <2>1, <2>2
<1>10. WriterKnowsAll'
  BY <1>1 DEF WriterKnowsAll, TriggerStands
<1>11. Recorded(sections)'
  <2>1. \A k \in DOMAIN short :
            IsSection(short[k].at) /\ recs[short[k].at].id = short[k].id
    BY <1>3, <1>8 DEF Recorded
  <2>2. ASSUME NEW k \in DOMAIN short, NEW l \in DOMAIN short, short[k].at = short[l].at
        PROVE  k = l
    <3>1. PICK i \in DOMAIN sections \ {p} :
              i = (IF k < p THEN k ELSE k + 1) /\ short[k] = sections[i]
      BY <1>8
    <3>2. PICK j \in DOMAIN sections \ {p} :
              j = (IF l < p THEN l ELSE l + 1) /\ short[l] = sections[j]
      BY <1>8
    <3>3. i = j
      BY <1>3, <2>2, <3>1, <3>2 DEF Recorded
    <3>4. k \in Int /\ l \in Int /\ p \in Int
      <4>1. p \in Int
        BY <1>2 DEF p
      <4> QED BY <1>8, <4>1
    <3> QED BY <3>1, <3>2, <3>3, <3>4
  <2> QED BY <1>1, <1>7, <2>1, <2>2 DEF Recorded, IsSection
<1>12. Saved(sections)' = Saved(sections) \ Span(range)
  <2>1. \A b : b \in Saved(sections)' <=> \E k \in DOMAIN short : b \in Span(data[short[k].id])
    BY <1>7 DEF Saved
  <2>2. \A b : b \in Saved(sections) <=>
            \E k \in DOMAIN sections : b \in Span(data[sections[k].id])
    BY DEF Saved
  <2>3. \A j \in DOMAIN sections \ {p} : Span(data[sections[j].id]) \intersect Span(range) = {}
    BY <1>2, <1>3, PartsApart DEF range
  <2>4. \A b : b \in Saved(sections)' <=>
            \E j \in DOMAIN sections \ {p} : b \in Span(data[sections[j].id])
    <3>1. ASSUME NEW k \in DOMAIN short
          PROVE  \E j \in DOMAIN sections \ {p} :
                     Span(data[short[k].id]) = Span(data[sections[j].id])
      BY <1>8
    <3>2. ASSUME NEW j \in DOMAIN sections \ {p}
          PROVE  \E k \in DOMAIN short : Span(data[short[k].id]) = Span(data[sections[j].id])
      <4>1. PICK k \in DOMAIN short : short[k] = sections[j]
        BY <1>8
      <4>2. Span(data[short[k].id]) = Span(data[sections[j].id])
        BY <4>1
      <4> QED BY <4>2
    <3> QED BY <2>1, <3>1, <3>2
  <2>5. \A b : b \in Saved(sections) /\ b \notin Span(range) =>
            \E j \in DOMAIN sections \ {p} : b \in Span(data[sections[j].id])
    BY <2>2 DEF range
  <2> QED BY <2>2, <2>3, <2>4, <2>5
<1>13. SavedIsFiled'
  <2>1. Writing = {} /\ Writing' = {}
    BY DEF Writing
  <2>2. /\ Saved(sections) \subseteq Filed(list)
        /\ Filed(list) \subseteq Saved(sections) \union refused \union loose
        /\ refused \union loose \subseteq Filed(list)
        /\ (refused \union loose) \intersect Saved(sections) = {}
    BY <2>1 DEF SavedIsFiled
  <2>3. /\ Saved(sections)' \subseteq Filed(list')
        /\ Filed(list') \subseteq Saved(sections)' \union refused \union loose
        /\ refused \union loose \subseteq Filed(list')
        /\ (refused \union loose) \intersect Saved(sections)' = {}
    BY <1>4, <1>5, <1>12, <2>2
  <2> QED BY <1>11, <2>1, <2>3 DEF SavedIsFiled
<1>14. TriggerStands' /\ CopiedIsGood'
  BY <1>1, <1>5 DEF TriggerStands, CopiedIsGood
<1>15. LooseIsGood'
  <2> SUFFICES ASSUME loose # {} PROVE temp' # NoFile /\ \A b \in loose : temp'[b] = "good"
    BY DEF LooseIsGood
  <2>1. loose \subseteq Bytes
    BY PlaceLemma DEF SavedIsFiled, ListIsSorted
  <2>2. \A b \in loose : temp[b] = "good" /\ b \notin Span(range)
    BY <1>4 DEF LooseIsGood, SavedIsFiled
  <2>3. temp' # NoFile
    <3>1. DOMAIN temp' = Bytes /\ DOMAIN NoFile = {}
      BY DEF Overwrite, NoFile
    <3> QED BY <2>1, <3>1
  <2>4. \A b \in Bytes : temp'[b] = IF b \in Span(range) THEN "wrong" ELSE temp[b]
    BY DEF Overwrite, range, p
  <2> QED BY <2>1, <2>2, <2>3, <2>4
<1>16. /\ Filed(list') \union InMemory(list') = (Filed(list) \union InMemory(list)) \ Span(range)
       /\ InMemory(list') \subseteq InMemory(list)
  BY <1>5
<1> QED BY <1>9, <1>10, <1>11, <1>13, <1>14, <1>15, <1>16 DEF range, p

\* The rebuild ends, or the new file is renamed: nothing but trig is left of it.
LEMMA EndKeeps ==
    ASSUME FileInv, Late, ~complete, trig.at = "copy",
           \/ trig' = NoTrigger /\ fileLock' # "write" /\ temp' = temp
           \/ trig' = [trig EXCEPT !.at = "destroy"] /\ fileLock' = fileLock,
           UNCHANGED <<recs, written, data, landed, sections, copied, hasError, list,
                       loose, refused, complete, life>>
    PROVE  FileInv'
<1> USE DEF FileInv
<1>0. /\ trig'.at \in {None, "destroy"} /\ trig' \in Triggers
      /\ trig'.at = None <=> trig'.by = None
      /\ trig'.at = "destroy" \/ temp' = temp
      /\ fileLock' # "write" \/ fileLock' = fileLock
  BY DEF NoTrigger, None, Typed, Triggers
<1>1. Typed'
  BY <1>0 DEF Typed
<1>2. ListIsSorted' /\ SectionsAreApart'
  BY DEF ListIsSorted, SectionsAreApart, IsSection
<1>3. WriterKnowsAll'
  BY <1>0 DEF WriterKnowsAll, TriggerStands
<1>4. SavedIsFiled'
  <2>1. Writing = {}
    BY DEF Writing
  <2> QED BY <2>1 DEF SavedIsFiled, Saved, Recorded, IsSection, Late
<1>5. TriggerStands' /\ CopiedIsGood'
  BY <1>0 DEF TriggerStands, CopiedIsGood, None
<1>6. LooseIsGood'
  BY <1>0 DEF LooseIsGood, None
<1> QED BY <1>1, <1>2, <1>3, <1>4, <1>5, <1>6

\* The final file is there, and the cache file is removed.
LEMMA CompletesKeeps ==
    ASSUME FileInv, RebuildCompletes
    PROVE  FileInv'
<1> USE DEF FileInv
<1>0. /\ recs' = <<>> /\ landed' = 0 /\ fileLock' # "write" /\ complete' = TRUE
      /\ trig' = NoTrigger
      /\ UNCHANGED <<written, data, sections, copied, list>>
  BY DEF RebuildCompletes, F!Destroy, F!None, diskVars
<1>1. trig'.at = None /\ trig'.by = None /\ trig' \in Triggers
  BY <1>0 DEF NoTrigger, Triggers
<1>2. Typed'
  BY <1>0, <1>1 DEF Typed
<1>3. ListIsSorted'
  BY <1>0 DEF ListIsSorted
<1>4. SectionsAreApart'
  BY <1>0 DEF SectionsAreApart, IsSection
<1>5. WriterKnowsAll' /\ SavedIsFiled' /\ LooseIsGood'
  BY <1>0 DEF WriterKnowsAll, SavedIsFiled, LooseIsGood
<1>6. TriggerStands' /\ CopiedIsGood'
  BY <1>0, <1>1 DEF TriggerStands, CopiedIsGood, None
<1> QED BY <1>2, <1>3, <1>4, <1>5, <1>6

-----------------------------------------------------------------------------
(* The steps, one by one. *)

\* What sync() was called for, in a step that is not one of sync().
LEMMA OwedStays ==
    ASSUME OwedIsFlushed, trig \in Triggers, KeepsCalls(Execs), sync' = sync,
           trig' = NoTrigger \/ trig'.by = trig.by,
           Holds("sync") /\ trig' = NoTrigger => InMemory(list') = {},
           owed' \subseteq owed,
           sync.at \in {"queue", "trigger"} => owed' \subseteq Filed(list') \union InMemory(list'),
           InMemory(list') \subseteq InMemory(list),
           complete' = complete \/ InMemory(list') = {}
    PROVE  OwedIsFlushed'
<1>1. trig'.by = None \/ trig'.by = trig.by
  BY DEF NoTrigger
<1>2. None \notin Execs /\ None # "sync" /\ None # "start" /\ NoTrigger.by = None
  BY BufferAssumption DEF None, NoTrigger
<1>3. sync' \in Syncs
  BY DEF OwedIsFlushed
<1>4. trig'.by \in Execs => pc'[trig'.by] = "calling"
  BY <1>1, <1>2 DEF OwedIsFlushed, KeepsCalls
<1>5. (Holds("sync")' => sync'.at = "trigger") /\ (Holds("start")' => sync'.at = None)
  BY <1>1, <1>2 DEF OwedIsFlushed, Holds
<1>6. sync'.at \in {"queue", "trigger"} => owed' \subseteq Filed(list') \union InMemory(list')
  OBVIOUS
<1>7. sync'.at = "trigger" /\ ~Holds("sync")' => owed' \intersect InMemory(list') = {}
  <2>1. Holds("sync") /\ ~Holds("sync")' => InMemory(list') = {}
    BY DEF Holds
  <2>2. sync.at = "trigger" /\ ~Holds("sync") => owed \intersect InMemory(list) = {}
    BY DEF OwedIsFlushed
  <2> QED BY <2>1, <2>2
<1>8. complete' => InMemory(list') = {}
  BY DEF OwedIsFlushed
<1> QED BY <1>3, <1>4, <1>5, <1>6, <1>7, <1>8 DEF OwedIsFlushed

\* What the file and the owner see of a step of the rebuild.
RebuildSees ==
    /\ FileInv' /\ life' = life /\ sync' = sync /\ UNCHANGED queueVars
    /\ trig' = NoTrigger \/ trig'.by = trig.by
    /\ trig' = NoTrigger => InMemory(list') = {}
    /\ owed' \subseteq owed
    /\ owed \subseteq Filed(list) \union InMemory(list) =>
            owed' \subseteq Filed(list') \union InMemory(list')
    /\ InMemory(list') \subseteq InMemory(list)
    /\ complete' = complete \/ InMemory(list') = {}

LEMMA RebuildLemma ==
    ASSUME FileInv, Late, ~complete, Rebuild
    PROVE  RebuildSees
<1>0. trig \in Triggers
  BY DEF FileInv, Typed
<1>1. CASE RebuildOpen
  <2>1. /\ trig.at = "open" /\ copied' = 0 /\ hasError' = FALSE
        /\ temp' = temp \/ temp = NoFile
        /\ UNCHANGED <<data, rotten, target, bufVars, sync, histVars, queueVars>>
    BY <1>1 DEF RebuildOpen
  <2>2. /\ trig' = [trig EXCEPT !.at = trig'.at] /\ trig'.at \in {"close", "fill"}
        /\ UNCHANGED <<recs, landed, written, sections>>
        /\ trig'.at = "close" => fileLock' = fileLock
        /\ trig'.at = "fill" => fileLock' # "write"
    <3>1. CASE writer
      BY <1>0, <1>1, <3>1 DEF RebuildOpen, F!CloseWriter, F!fileVars, Triggers
    <3>2. CASE ~writer
      BY <1>0, <1>1, <3>2 DEF RebuildOpen, F!StartEmitting, F!fileVars, Triggers
    <3> QED BY <3>1, <3>2
  <2>3. FileInv'
    <3>1. UNCHANGED <<recs, written, data, sections, list, loose, refused, complete, life>>
      BY <2>1, <2>2 DEF bufVars, histVars
    <3> QED BY <2>1, <2>2, <3>1, RebuildGoesOn
  <2>4. trig'.by = trig.by /\ trig' # NoTrigger
    BY <1>0, <2>2 DEF Triggers, NoTrigger, None
  <2> QED BY <2>1, <2>3, <2>4 DEF RebuildSees, bufVars, histVars
<1>2. CASE RebuildClosed
  <2>1. /\ trig.at = "close" /\ trig' = [trig EXCEPT !.at = "fill"]
        /\ UNCHANGED <<queueVars, diskVars, bufVars, copied, hasError, sync, histVars>>
        /\ UNCHANGED <<recs, written, sections>> /\ landed' = Len(recs) /\ fileLock' # "write"
    BY <1>2 DEF RebuildClosed, F!CloseEnd, F!None
  <2>2. /\ trig'.at = "fill" /\ trig'.by = trig.by /\ trig' # NoTrigger
        /\ trig' = [trig EXCEPT !.at = trig'.at]
    BY <1>0, <2>1 DEF Triggers, NoTrigger, None
  <2>3. copied' = 0 /\ ~hasError'
    BY <2>1 DEF FileInv, TriggerStands
  <2>4. FileInv'
    <3>1. UNCHANGED <<recs, written, data, sections, list, loose, refused, complete, life, temp>>
      BY <2>1 DEF bufVars, histVars, diskVars
    <3> QED BY <2>1, <2>2, <2>3, <3>1, RebuildGoesOn
  <2> QED BY <2>1, <2>2, <2>4 DEF RebuildSees, bufVars, histVars
<1>3. CASE RebuildFill /\ FirstInMemory(list) = 0
  <2>1. /\ trig.at = "fill" /\ trig' = [trig EXCEPT !.at = "copy"]
        /\ UNCHANGED <<temp, list, loose, fileVars, queueVars, data, life, complete,
                       copied, hasError, sync, owed, refused>>
    BY <1>3 DEF RebuildFill
  <2>2. /\ trig'.at = "copy" /\ trig'.by = trig.by /\ trig' # NoTrigger
        /\ trig' = [trig EXCEPT !.at = trig'.at]
    BY <1>0, <2>1 DEF Triggers, NoTrigger, None
  <2>3. copied' = 0 /\ ~hasError' /\ fileLock' # "write"
    BY <2>1 DEF FileInv, TriggerStands, fileVars
  <2>4. InMemory(list) = {}
    BY <1>3, NothingLeft DEF FileInv, ListIsSorted
  <2>5. FileInv'
    <3>1. UNCHANGED <<recs, written, data, sections, list, loose, refused, complete,
                      life, temp, landed>>
      BY <2>1 DEF fileVars
    <3> QED BY <2>1, <2>2, <2>3, <2>4, <3>1, RebuildGoesOn
  <2> QED BY <2>1, <2>2, <2>5 DEF RebuildSees
<1>4. CASE RebuildFill /\ FirstInMemory(list) # 0
  <2>1. UNCHANGED <<queueVars, life, complete, sync, owed>>
    BY <1>4 DEF RebuildFill
  <2>2. trig' # NoTrigger
    BY <1>4, FillKeeps DEF NoTrigger, None
  <2> QED BY <1>4, <2>1, <2>2, FillKeeps DEF RebuildSees
<1>5. CASE RebuildCopy
  <2> DEFINE range == data[sections[copied + 1].id]
  <2>1. /\ trig.at = "copy" /\ copied < Len(sections) /\ copied' = copied + 1 /\ trig' # NoTrigger
        /\ UNCHANGED <<queueVars, data, life, complete, trig, sync, refused, loose>>
    BY <1>5 DEF RebuildCopy, NoTrigger, None
  <2>2. \/ /\ temp' = Overwrite(temp, Span(range), "wrong")
           /\ F!MarkBad(copied + 1)
           /\ list' = PunchList(list, range.start, range.end)
           /\ owed' = owed \ Span(range)
           /\ hasError' = TRUE
        \/ /\ temp' = Overwrite(temp, Span(range), "good")
           /\ UNCHANGED <<fileVars, list, hasError, owed>>
    BY <1>5 DEF RebuildCopy
  <2>3. CASE /\ temp' = Overwrite(temp, Span(range), "wrong")
             /\ F!MarkBad(copied + 1)
             /\ list' = PunchList(list, range.start, range.end)
             /\ owed' = owed \ Span(range)
             /\ hasError' = TRUE
    <3>1. /\ FileInv'
          /\ Filed(list') \union InMemory(list') =
                (Filed(list) \union InMemory(list)) \ Span(range)
          /\ InMemory(list') \subseteq InMemory(list)
      BY <2>1, <2>3, CopyBadKeeps
    <3> HIDE DEF range
    <3>2. owed \subseteq Filed(list) \union InMemory(list) =>
            owed' \subseteq Filed(list') \union InMemory(list')
      BY <2>3, <3>1
    <3> QED BY <2>1, <2>3, <3>1, <3>2 DEF RebuildSees
  <2>4. CASE /\ temp' = Overwrite(temp, Span(range), "good")
             /\ UNCHANGED <<fileVars, list, hasError, owed>>
    <3>1. FileInv'
      BY <2>1, <2>4, CopyGoodKeeps
    <3> QED BY <2>1, <2>4, <3>1 DEF RebuildSees
  <2> QED BY <2>2, <2>3, <2>4
<1>6. CASE RebuildGivesUp
  <2>1. /\ trig.at = "copy" /\ trig' = NoTrigger /\ fileLock' # "write"
        /\ UNCHANGED <<queueVars, diskVars, bufVars, copied, hasError, sync, histVars>>
        /\ UNCHANGED <<recs, written, landed, sections>>
    BY <1>6 DEF RebuildGivesUp, F!StopEmitting, F!None, F!fileVars
  <2>2. FileInv'
    BY <2>1, EndKeeps DEF diskVars, bufVars, histVars
  <2>3. InMemory(list') = {}
    BY <2>1 DEF FileInv, TriggerStands, bufVars
  <2> QED BY <2>1, <2>2, <2>3 DEF RebuildSees, bufVars, histVars
<1>7. CASE RebuildRenames
  <2>1. /\ trig.at = "copy" /\ trig' = [trig EXCEPT !.at = "destroy"]
        /\ UNCHANGED <<fileVars, queueVars, data, bufVars, copied, hasError, sync, histVars>>
    BY <1>7 DEF RebuildRenames
  <2>2. FileInv'
    BY <2>1, EndKeeps DEF fileVars, bufVars, histVars
  <2>3. trig'.by = trig.by /\ trig' # NoTrigger
    BY <1>0, <2>1 DEF Triggers, NoTrigger, None
  <2> QED BY <2>1, <2>2, <2>3 DEF RebuildSees, bufVars, histVars
<1>8. CASE RebuildCompletes
  <2>1. /\ trig.at = "destroy" /\ trig' = NoTrigger
        /\ UNCHANGED <<queueVars, life, list, sync, histVars>>
    BY <1>8 DEF RebuildCompletes
  <2>2. FileInv'
    BY <1>8, CompletesKeeps
  <2>3. InMemory(list') = {}
    BY <2>1 DEF FileInv, TriggerStands
  <2> QED BY <2>1, <2>2, <2>3 DEF RebuildSees, histVars
<1> QED BY <1>1, <1>2, <1>3, <1>4, <1>5, <1>6, <1>7, <1>8 DEF Rebuild

\* The rest of the invariant follows from what is seen of the file.
LEMMA LateStep ==
    ASSUME IInv, FileInv', life' \in {"up", "disposing", "disposed"},
           OwedIsFlushed', QueueStep
    PROVE  IInv'
<1>1. EarlyIsIdle'
  BY DEF EarlyIsIdle, Late
<1>2. QP!IInv'
  BY QueueInvStep DEF IInv
<1> QED BY <1>1, <1>2 DEF IInv

LEMMA RebuildStep == IInv /\ Rebuild => IInv'
<1> SUFFICES ASSUME IInv, Rebuild PROVE IInv'
  OBVIOUS
<1>1. FileInv /\ OwedIsFlushed /\ trig \in Triggers
  BY DEF IInv, FileInv, Typed
<1>2. trig.at # None
  BY DEF Rebuild, RebuildOpen, RebuildClosed, RebuildFill, RebuildCopy, RebuildGivesUp,
         RebuildRenames, RebuildCompletes, None
<1>3. Late /\ ~complete
  BY <1>2, LateLemma
<1>4. RebuildSees
  BY <1>1, <1>3, RebuildLemma
<1>5. KeepsCalls(Execs) /\ QueueStep
  BY <1>4, QueueStays DEF RebuildSees
<1>6. OwedIsFlushed'
  <2>1. sync.at \in {"queue", "trigger"} => owed \subseteq Filed(list) \union InMemory(list)
    BY <1>1 DEF OwedIsFlushed
  <2> QED BY <1>1, <1>4, <1>5, <2>1, OwedStays DEF RebuildSees
<1> QED BY <1>3, <1>4, <1>5, <1>6, LateStep DEF RebuildSees, Late

LEMMA FlushWrittenStep == IInv /\ FlushWritten => IInv'
<1> SUFFICES ASSUME IInv, FlushWritten PROVE IInv'
  OBVIOUS
<1>1. FileInv /\ OwedIsFlushed /\ trig \in Triggers
  BY DEF IInv, FileInv, Typed
<1>2. /\ trig.at = "write" /\ trig.at # None /\ trig' = [trig EXCEPT !.at = "flush"]
      /\ UNCHANGED <<queueVars, list, sync, owed, complete, life>>
  BY DEF FlushWritten, None, bufVars, histVars
<1>3. Late /\ ~complete
  BY <1>2, LateLemma
<1>4. FileInv'
  BY <1>1, <1>3, WrittenKeeps
<1>5. KeepsCalls(Execs) /\ QueueStep
  BY <1>2, QueueStays
<1>6. trig'.by = trig.by /\ trig' # NoTrigger
  BY <1>1, <1>2 DEF Triggers, NoTrigger, None
<1>7. OwedIsFlushed'
  <2>1. sync.at \in {"queue", "trigger"} => owed \subseteq Filed(list) \union InMemory(list)
    BY <1>1 DEF OwedIsFlushed
  <2> QED BY <1>1, <1>2, <1>5, <1>6, <2>1, OwedStays
<1> QED BY <1>2, <1>3, <1>4, <1>5, <1>7, LateStep DEF Late

\* A flush that was refused rejects sync().
LEMMA FlushStepStep == IInv /\ FlushStep => IInv'
<1> SUFFICES ASSUME IInv, FlushStep PROVE IInv'
  OBVIOUS
<1>1. FileInv /\ OwedIsFlushed /\ trig \in Triggers /\ (trig.at = None <=> trig.by = None)
  BY DEF IInv, FileInv, Typed
<1>2. /\ trig.at = "flush" /\ trig.at # None /\ FlushNext(trig.by)
      /\ UNCHANGED <<queueVars, owed>> /\ Flushing
      /\ sync' = IF Holds("sync") /\ refused' # refused THEN [sync EXCEPT !.at = "failed"] ELSE sync
  BY DEF FlushStep, None, Flushing
<1>3. Late /\ ~complete
  BY <1>2, LateLemma
<1>4. trig.by \in Execs \union {"sync", "start"}
  BY <1>1, <1>2 DEF Triggers, None
<1>5. FileInv' /\ Outcome(trig.by) /\ Flushed
  BY <1>1, <1>2, <1>3, <1>4, FlushKeeps
<1>6. KeepsCalls(Execs) /\ QueueStep
  BY <1>2, QueueStays
<1>7. life' = life /\ complete' = complete
  BY <1>2 DEF Flushing
<1>8. OwedIsFlushed'
  <2>1. sync.at \in {"queue", "trigger"} => owed' \subseteq Filed(list') \union InMemory(list')
    BY <1>1, <1>2, <1>5 DEF OwedIsFlushed, Outcome
  <2>2. CASE sync' = sync
    <3>1. Holds("sync") /\ trig' = NoTrigger => InMemory(list') = {}
      <4>1. Holds("sync") => sync.at = "trigger" /\ sync \in Syncs
        BY <1>1 DEF OwedIsFlushed
      <4>2. Holds("sync") /\ refused' # refused => sync'.at = "failed"
        BY <1>2, <4>1 DEF Syncs
      <4> QED BY <1>5, <2>2, <4>1, <4>2 DEF Flushed
    <3> QED BY <1>1, <1>2, <1>5, <1>6, <1>7, <2>1, <2>2, <3>1, OwedStays DEF Outcome
  <2>3. CASE Holds("sync") /\ refused' # refused
    <3>1. sync' \in Syncs /\ sync'.at = "failed"
      BY <1>1, <1>2, <2>3 DEF OwedIsFlushed, Syncs
    <3>2. trig' = NoTrigger /\ trig'.by = None
      BY <1>5, <2>3 DEF Outcome, NoTrigger
    <3>3. None \notin Execs /\ None # "sync" /\ None # "start"
      BY BufferAssumption DEF None
    <3> QED BY <1>3, <1>7, <3>1, <3>2, <3>3 DEF OwedIsFlushed, Holds
  <2> QED BY <1>2, <2>2, <2>3
<1> QED BY <1>3, <1>5, <1>6, <1>7, <1>8, LateStep DEF Late

\* What is pushed was missing, so sync() was not called for it.
LEMMA PushStep ==
    ASSUME IInv, NEW from \in 0..MaxSize, NEW to \in 0..MaxSize, Push(from, to)
    PROVE  IInv'
<1>1. FileInv /\ OwedIsFlushed /\ trig \in Triggers /\ QP!IInv
  BY DEF IInv, FileInv, Typed
<1>2. /\ life = "up" /\ ~complete /\ ~Rebuilding
      /\ Accepts(list, from, to) /\ list' = PushList(list, from, to, TRUE)
      /\ UNCHANGED <<fileVars, diskVars, life, timer, manual, complete, trigVars, sync, histVars>>
      /\ UNCHANGED queueVars \/ Q!PushQueue("dataRecv")
  BY DEF Push, Started
<1> DEFINE new == from .. (to - 1)
           memory == TRUE
           r == PushList(list, from, to, memory)
<1>0. from \in Nat /\ to \in Nat /\ memory \in BOOLEAN
  BY MaxSizeAssumption
<1>3. memory /\ list' = r
  BY <1>2
<1>4. Sorted(list) /\ Mergeable(list) = {}
  BY <1>1 DEF FileInv, ListIsSorted
<1> HIDE DEF new, memory
<1>5. /\ Sorted(r) /\ Mergeable(r) = {}
      /\ new \intersect (Filed(list) \union InMemory(list)) = {}
      /\ InMemory(r) = IF memory THEN InMemory(list) \union new ELSE InMemory(list)
      /\ Filed(r) = IF memory THEN Filed(list) ELSE Filed(list) \union new
  <2>1. Accepts(list, from, to)
    BY <1>2
  <2> QED BY <1>0, <1>4, <2>1, PushLemma DEF new
<1>6. /\ Sorted(list') /\ Mergeable(list') = {}
      /\ new \intersect (Filed(list) \union InMemory(list)) = {}
      /\ InMemory(list') = InMemory(list) \union new
      /\ Filed(list') = Filed(list)
  BY <1>3, <1>5
<1>7. trig.at \notin {"open", "close", "fill", "copy", "destroy"}
  BY <1>2 DEF Rebuilding
<1>8. FileInv'
  <2>0. /\ UNCHANGED <<recs, written, data, landed, sections, trig, copied, hasError,
                       fileLock, loose, refused, temp, complete, life>>
    BY <1>2 DEF fileVars, diskVars, trigVars, histVars
  <2>1. Typed' /\ ListIsSorted' /\ SectionsAreApart'
    BY <1>1, <1>6, <2>0 DEF FileInv, Typed, ListIsSorted, SectionsAreApart, IsSection
  <2>2. WriterKnowsAll'
    BY <1>1, <1>6, <2>0 DEF FileInv, WriterKnowsAll, IsSection, Late
  <2>3. SavedIsFiled'
    BY <1>1, <1>6, <2>0 DEF FileInv, SavedIsFiled, Saved, Recorded, IsSection, Writing, Late
  <2>4. TriggerStands' /\ CopiedIsGood' /\ LooseIsGood'
    BY <1>1, <1>7, <2>0 DEF FileInv, TriggerStands, CopiedIsGood, LooseIsGood
  <2> QED BY <2>1, <2>2, <2>3, <2>4 DEF FileInv
<1>9. KeepsCalls(Execs) /\ QueueStep
  BY <1>1, <1>2, QueueStays, OwnerSteps
<1>10. OwedIsFlushed'
  <2>0. UNCHANGED <<trig, sync, owed>> /\ ~complete'
    BY <1>2 DEF trigVars, histVars
  <2>1. trig.by \in Execs => pc'[trig.by] = "calling"
    BY <1>1, <1>9 DEF OwedIsFlushed, KeepsCalls
  <2>2. sync.at \in {"queue", "trigger"} => owed \subseteq Filed(list') \union InMemory(list')
    BY <1>1, <1>6 DEF OwedIsFlushed
  <2>3. sync.at = "trigger" /\ ~Holds("sync") => owed \intersect InMemory(list') = {}
    BY <1>1, <1>6 DEF OwedIsFlushed
  <2> QED BY <1>1, <2>0, <2>1, <2>2, <2>3 DEF OwedIsFlushed, Holds
<1> QED BY <1>2, <1>8, <1>9, <1>10, LateStep

\* What a step that is the owner's or the queue's leaves alone.
Untouched == UNCHANGED <<fileVars, data, temp, list, complete, trig, copied, hasError,
                         refused, loose>>

LEMMA UntouchedKeeps == FileInv /\ Untouched /\ Late' = Late => FileInv'
  BY FileStays DEF Untouched, fileVars

\* The clock and forceSync() push a task.
LEMMA TaskStep == IInv /\ (Timer \/ ForceSync) => IInv'
<1> SUFFICES ASSUME IInv, Timer \/ ForceSync PROVE IInv'
  OBVIOUS
<1>1. FileInv /\ OwedIsFlushed /\ trig \in Triggers /\ QP!IInv
  BY DEF IInv, FileInv, Typed
<1>2. /\ life' = life /\ Untouched /\ UNCHANGED <<sync, owed>>
      /\ Q!PushQueue("timer") \/ Q!PushQueue("manual")
  BY DEF Timer, ForceSync, Untouched, diskVars, bufVars, trigVars, histVars
<1>3. Late
  BY DEF Timer, ForceSync, Started, Late, IInv, EarlyIsIdle
<1>4. FileInv'
  BY <1>1, <1>2, UntouchedKeeps DEF Late
<1>5. KeepsCalls(Execs) /\ QueueStep
  BY <1>1, <1>2, OwnerSteps
<1>6. OwedIsFlushed'
  <2>1. UNCHANGED <<trig, list, complete, sync, owed>>
    BY <1>2 DEF Untouched
  <2>2. trig.by \in Execs => pc'[trig.by] = "calling"
    BY <1>1, <1>5 DEF OwedIsFlushed, KeepsCalls
  <2> QED BY <1>1, <2>1, <2>2 DEF OwedIsFlushed, Holds
<1> QED BY <1>2, <1>3, <1>4, <1>5, <1>6, LateStep DEF Late

\* sync() begins.
LEMMA SyncStep == ASSUME NEW dispose \in BOOLEAN PROVE IInv /\ Sync(dispose) => IInv'
<1> SUFFICES ASSUME IInv, Sync(dispose) PROVE IInv'
  OBVIOUS
<1>1. FileInv /\ OwedIsFlushed /\ QP!IInv
  BY DEF IInv
<1>2. /\ life = "up" /\ life' = life /\ ~Holds("start")
      /\ sync.at \in {None, "done", "failed"} /\ Untouched
  BY DEF Sync, Started, Untouched, diskVars, bufVars, trigVars
<1>3. \/ /\ complete
         /\ sync' = [at |-> "done", dispose |-> dispose] /\ UNCHANGED <<queueVars, owed>>
      \/ /\ ~complete
         /\ Q!Lock
         /\ sync' = [at |-> "queue", dispose |-> dispose]
         /\ owed' = InMemory(list)
  BY DEF Sync
<1>4. FileInv'
  BY <1>1, <1>2, UntouchedKeeps DEF Late
<1>5. KeepsCalls(Execs) /\ QueueStep
  BY <1>1, <1>3, QueueStays, OwnerSteps
<1>6. OwedIsFlushed'
  <2>1. UNCHANGED <<trig, list, complete>>
    BY <1>2 DEF Untouched
  <2>2. trig.by \in Execs => pc'[trig.by] = "calling"
    BY <1>1, <1>5 DEF OwedIsFlushed, KeepsCalls
  <2>3. ~Holds("sync")
    BY <1>1, <1>2 DEF OwedIsFlushed, None
  <2>4. sync' \in Syncs /\ sync'.at \in {"done", "queue"}
    BY <1>3 DEF Syncs
  <2>5. sync'.at = "queue" => owed' \subseteq Filed(list) \union InMemory(list)
    BY <1>3
  <2> QED BY <1>1, <1>2, <2>1, <2>2, <2>3, <2>4, <2>5 DEF OwedIsFlushed, Holds
<1> QED BY <1>2, <1>4, <1>5, <1>6, LateStep

\* A coroutine of the queue goes on: its call is the only one that is new.
LEMMA QueueCallsStep == ASSUME NEW e \in Execs PROVE IInv /\ QueueCalls(e) => IInv'
<1> SUFFICES ASSUME IInv, QueueCalls(e) PROVE IInv'
  OBVIOUS
<1>1. FileInv /\ OwedIsFlushed /\ QP!IInv /\ trig \in Triggers
  BY DEF IInv, FileInv, Typed
<1>2. /\ Q!Immediate(e)
      /\ UNCHANGED <<temp, life, complete, sync, owed, loose>>
      /\ \/ pc'[e] = "calling" /\ Trigger(task, e)
         \/ pc'[e] # "calling" /\ UNCHANGED <<fileVars, data, list, manual, trigVars, refused>>
  BY DEF QueueCalls
<1>3. QueueStep /\ pc[e] = "immediate" /\ KeepsCalls(Execs)
  BY <1>1, <1>2, ExecuteSteps
<1>4. Late
  BY <1>3 DEF IInv, EarlyIsIdle
<1>5. CASE trig # NoTrigger \/ pc'[e] # "calling"
  <2>1. UNCHANGED <<fileVars, data, list, trigVars, refused>>
    BY <1>2, <1>5 DEF Trigger
  <2>2. FileInv'
    BY <1>1, <1>2, <2>1, UntouchedKeeps DEF Untouched, trigVars, Late
  <2>3. OwedIsFlushed'
    <3>1. trig.by \in Execs => pc'[trig.by] = "calling"
      BY <1>1, <1>3 DEF OwedIsFlushed, KeepsCalls
    <3>2. UNCHANGED <<trig, list, complete, sync, owed>>
      BY <1>2, <2>1 DEF trigVars
    <3> QED BY <1>1, <3>1, <3>2 DEF OwedIsFlushed, Holds
  <2> QED BY <1>2, <1>3, <1>4, <2>2, <2>3, LateStep DEF Late
<1>6. CASE trig = NoTrigger /\ pc'[e] = "calling"
  <2>1. FileInv' /\ Outcome(e)
    <3>1. Trigger(task, e) /\ e \in Execs \union {"sync", "start"}
      BY <1>2, <1>6
    <3> QED BY <1>1, <1>2, <1>4, <1>6, <3>1, TriggerKeeps
  <2>2. e # "sync" /\ e # "start" /\ e # None /\ NoTrigger.by = None /\ None # "sync" /\ None # "start"
        /\ None \notin Execs
    BY BufferAssumption DEF None, NoTrigger
  <2>3. trig'.by \in {None, e}
    BY <2>1, <2>2 DEF Outcome
  <2>4. ~Holds("sync") /\ ~Holds("sync")' /\ ~Holds("start")'
    BY <1>6, <2>2, <2>3 DEF Holds
  <2>5. OwedIsFlushed'
    <3>1. trig'.by \in Execs => pc'[trig'.by] = "calling"
      BY <1>6, <2>2, <2>3
    <3>2. /\ Filed(list') \union InMemory(list') = Filed(list) \union InMemory(list)
          /\ InMemory(list') \subseteq InMemory(list)
      BY <2>1 DEF Outcome
    <3>3. sync.at \in {"queue", "trigger"} => owed \subseteq Filed(list) \union InMemory(list)
      BY <1>1 DEF OwedIsFlushed
    <3>4. sync.at = "trigger" => owed \intersect InMemory(list) = {}
      BY <1>1, <2>4 DEF OwedIsFlushed
    <3>5. complete => InMemory(list) = {}
      BY <1>1 DEF OwedIsFlushed
    <3>6. sync \in Syncs
      BY <1>1 DEF OwedIsFlushed
    <3> QED BY <1>2, <2>4, <3>1, <3>2, <3>3, <3>4, <3>5, <3>6 DEF OwedIsFlushed
  <2> QED BY <1>2, <1>3, <1>4, <2>1, <2>5, LateStep DEF Late
<1> QED BY <1>5, <1>6

\* A call of the queue returns once its trigger is over.
LEMMA QueueReturnsStep == ASSUME NEW e \in Execs PROVE IInv /\ QueueReturns(e) => IInv'
<1> SUFFICES ASSUME IInv, QueueReturns(e) PROVE IInv'
  OBVIOUS
<1>1. FileInv /\ OwedIsFlushed /\ QP!IInv
  BY DEF IInv
<1>2. /\ ~Holds(e) /\ Q!Settle(e)
      /\ Untouched /\ UNCHANGED <<sync, owed, life>>
  BY DEF QueueReturns, Untouched, diskVars, bufVars, trigVars, histVars
<1>3. QueueStep /\ KeepsCalls(Execs \ {e})
  BY <1>1, <1>2, ExecuteSteps
<1>4. Late
  BY <1>2 DEF IInv, EarlyIsIdle, Q!Settle
<1>5. FileInv'
  BY <1>1, <1>2, UntouchedKeeps DEF Late
<1>6. OwedIsFlushed'
  <2>1. UNCHANGED <<trig, list, complete, sync, owed>>
    BY <1>2 DEF Untouched
  <2>2. trig.by \in Execs => pc'[trig.by] = "calling"
    BY <1>1, <1>2, <1>3 DEF OwedIsFlushed, KeepsCalls, Holds
  <2> QED BY <1>1, <2>1, <2>2 DEF OwedIsFlushed, Holds
<1> QED BY <1>2, <1>3, <1>4, <1>5, <1>6, LateStep DEF Late

\* sync() finds the lock free: it is not its own yet, start() is done, and no
\* coroutine is in a call, as queue.promise would be its.
LEMMA LockIsFree ==
    ASSUME IInv, sync.at = "queue", promise # NoExec => ~Q!Live(promise)
    PROVE  trig = NoTrigger
<1>1. FileInv /\ OwedIsFlushed /\ QP!IInv
  BY DEF IInv
<1>2. /\ trig \in Triggers /\ (trig.at = None <=> trig.by = None)
      /\ trig.by \in Execs => pc[trig.by] = "calling"
  BY <1>1 DEF FileInv, Typed, OwedIsFlushed
<1>3. trig.by \notin {"sync", "start"}
  BY <1>1 DEF OwedIsFlushed, Holds, None
<1>4. trig.by \notin Execs
  <2> SUFFICES ASSUME trig.by \in Execs PROVE FALSE
    OBVIOUS
  <2>1. promise = trig.by
    BY <1>1, <1>2 DEF QP!IInv, QP!PromiseCoversWork, QP!Live
  <2>2. promise # NoExec
    BY <2>1, BufferAssumption
  <2> QED BY <1>2, <2>1, <2>2 DEF Q!Live
<1> QED BY <1>2, <1>3, <1>4 DEF Triggers, NoTrigger

\* sync() calls trigger(), which flushes or rebuilds.
LEMMA SyncTriggersStep == IInv /\ SyncTriggers => IInv'
<1> SUFFICES ASSUME IInv, SyncTriggers PROVE IInv'
  OBVIOUS
<1>1. FileInv /\ OwedIsFlushed
  BY DEF IInv
<1>2. /\ sync.at = "queue" /\ trig = NoTrigger
      /\ UNCHANGED <<queueVars, temp, life, complete, owed, loose>>
  BY LockIsFree DEF SyncTriggers
<1>3. KeepsCalls(Execs) /\ QueueStep
  BY <1>2, QueueStays
<1>4. Late
  BY <1>2 DEF IInv, EarlyIsIdle, None
<1>5. /\ sync \in Syncs /\ owed \subseteq Filed(list) \union InMemory(list)
      /\ complete => InMemory(list) = {}
  BY <1>1, <1>2 DEF OwedIsFlushed
<1>6. /\ "sync" \notin Execs /\ None \notin Execs /\ None # "sync" /\ None # "start"
      /\ NoTrigger.by = None
  BY BufferAssumption DEF None, NoTrigger
<1>7. CASE UNCHANGED <<fileVars, data, list, manual, trigVars, refused>>
           /\ (sync' = [sync EXCEPT !.at = "failed"]
               \/ (complete /\ sync' = [sync EXCEPT !.at = "trigger"]))
  <2>1. FileInv'
    BY <1>1, <1>2, <1>7, UntouchedKeeps DEF Untouched, trigVars, Late
  <2>2. sync' \in Syncs /\ (sync'.at = "failed" \/ (complete /\ sync'.at = "trigger"))
    BY <1>5, <1>7 DEF Syncs
  <2>3. OwedIsFlushed'
    <3>1. UNCHANGED <<list, complete, owed>> /\ trig'.by = None
      BY <1>2, <1>6, <1>7 DEF trigVars
    <3> QED BY <1>5, <1>6, <2>2, <3>1 DEF OwedIsFlushed, Holds
  <2> QED BY <1>2, <1>3, <1>4, <2>1, <2>3, LateStep DEF Late
<1>8. CASE /\ ~complete /\ Trigger("sync", "sync")
           /\ sync' = [sync EXCEPT !.at = IF refused' # refused THEN "failed" ELSE "trigger"]
  <2>1. FileInv' /\ Outcome("sync") /\ Flushed
    BY <1>1, <1>2, <1>4, <1>8, TriggerKeeps
  <2>2. /\ sync' \in Syncs
        /\ sync'.at = IF refused' # refused THEN "failed" ELSE "trigger"
    BY <1>5, <1>8 DEF Syncs
  <2>3. trig' = NoTrigger \/ trig'.by = "sync"
    BY <2>1 DEF Outcome
  <2>4. OwedIsFlushed'
    <3>1. trig'.by \in {None, "sync"}
      BY <1>6, <2>3
    <3>2. Holds("sync")' => sync'.at = "trigger"
      BY <1>6, <2>1, <2>2 DEF Outcome, Holds
    <3>3. owed' \subseteq Filed(list') \union InMemory(list')
      BY <1>2, <1>5, <2>1 DEF Outcome
    <3>4. sync'.at = "trigger" /\ ~Holds("sync")' => InMemory(list') = {}
      BY <2>1, <2>2, <2>3 DEF Holds, Flushed
    <3> QED BY <1>2, <1>6, <1>8, <2>2, <3>1, <3>2, <3>3, <3>4 DEF OwedIsFlushed, Holds
  <2> QED BY <1>2, <1>3, <1>4, <2>1, <2>4, LateStep DEF Late
<1>9. \/ /\ sync' = [sync EXCEPT !.at = "failed"]
         /\ UNCHANGED <<fileVars, data, list, manual, trigVars, refused>>
      \/ /\ complete /\ UNCHANGED <<fileVars, data, list, manual, trigVars, refused>>
         /\ sync' = [sync EXCEPT !.at = IF refused' # refused THEN "failed" ELSE "trigger"]
      \/ /\ ~complete /\ Trigger("sync", "sync")
         /\ sync' = [sync EXCEPT !.at = IF refused' # refused THEN "failed" ELSE "trigger"]
  BY DEF SyncTriggers
<1> QED
  <2>1. CASE /\ sync' = [sync EXCEPT !.at = "failed"]
             /\ UNCHANGED <<fileVars, data, list, manual, trigVars, refused>>
    BY <1>7, <2>1
  <2>2. CASE /\ complete /\ UNCHANGED <<fileVars, data, list, manual, trigVars, refused>>
             /\ sync' = [sync EXCEPT !.at = IF refused' # refused THEN "failed" ELSE "trigger"]
    <3>1. sync' = [sync EXCEPT !.at = "trigger"]
      BY <2>2
    <3> QED BY <1>7, <2>2, <3>1
  <2>3. CASE /\ ~complete /\ Trigger("sync", "sync")
             /\ sync' = [sync EXCEPT !.at = IF refused' # refused THEN "failed" ELSE "trigger"]
    BY <1>8, <2>3
  <2> QED BY <1>9, <2>1, <2>2, <2>3

LEMMA SyncEndStep == IInv /\ SyncEnd => IInv'
<1> SUFFICES ASSUME IInv, SyncEnd PROVE IInv'
  OBVIOUS
<1>1. FileInv /\ OwedIsFlushed /\ QP!IInv
  BY DEF IInv
<1>2. /\ sync.at = "trigger" /\ ~Holds("sync") /\ sync' = [sync EXCEPT !.at = "done"]
      /\ Q!Unlock /\ life' = life /\ Untouched
  BY DEF SyncEnd, Untouched, diskVars, bufVars, trigVars
<1>3. KeepsCalls(Execs) /\ QueueStep
  BY <1>1, <1>2, OwnerSteps
<1>4. Late
  BY <1>2 DEF IInv, EarlyIsIdle, None
<1>5. FileInv'
  BY <1>1, <1>2, UntouchedKeeps DEF Late
<1>6. OwedIsFlushed'
  <2>1. UNCHANGED <<trig, list, complete>>
    BY <1>2 DEF Untouched
  <2>2. trig.by \in Execs => pc'[trig.by] = "calling"
    BY <1>1, <1>3 DEF OwedIsFlushed, KeepsCalls
  <2>3. sync' \in Syncs /\ sync'.at = "done"
    BY <1>1, <1>2 DEF OwedIsFlushed, Syncs
  <2>4. ~Holds("start")
    BY <1>1, <1>2 DEF OwedIsFlushed, None
  <2> QED BY <1>1, <1>2, <2>1, <2>2, <2>3, <2>4 DEF OwedIsFlushed, Holds
<1> QED BY <1>2, <1>3, <1>4, <1>5, <1>6, LateStep DEF Late

\* dispose() goes on; the writes of the stream land when it is ended.
LEMMA DisposeStep == IInv /\ (Dispose \/ DisposeEnd) => IInv'
<1> SUFFICES ASSUME IInv, Dispose \/ DisposeEnd PROVE IInv'
  OBVIOUS
<1>1. FileInv /\ OwedIsFlushed /\ QP!IInv
  BY DEF IInv
<1>2. /\ life \in {"up", "disposing"} /\ life' \in {"disposing", "disposed"}
      /\ UNCHANGED <<recs, written, data, sections, trig, copied, hasError,
                     list, fileLock, loose, refused, temp, complete, sync, owed>>
      /\ landed' \in {landed, Len(recs)}
      /\ Q!Dispose \/ Q!DisposeEnd
  BY DEF Dispose, DisposeEnd, fileVars, diskVars, trigVars, histVars
<1>3. FileInv'
  BY <1>1, <1>2, FileStays DEF Late
<1>4. KeepsCalls(Execs) /\ QueueStep
  BY <1>1, <1>2, OwnerSteps
<1>5. OwedIsFlushed'
  <2>1. trig.by \in Execs => pc'[trig.by] = "calling"
    BY <1>1, <1>4 DEF OwedIsFlushed, KeepsCalls
  <2> QED BY <1>1, <1>2, <2>1 DEF OwedIsFlushed, Holds
<1> QED BY <1>2, <1>3, <1>4, <1>5, LateStep

-----------------------------------------------------------------------------
(* start(), and the end of a process. *)

\* The prefix of the file that a crash leaves.
LEMMA PrefixLemma ==
    ASSUME recs \in Seq(Records), NEW k \in 0..Len(recs)
    PROVE  /\ SubSeq(recs, 1, k) \in Seq(Records) /\ Len(SubSeq(recs, 1, k)) = k
           /\ \A i \in DOMAIN SubSeq(recs, 1, k) :
                  i \in DOMAIN recs /\ SubSeq(recs, 1, k)[i] = recs[i]
<1>1. k \in Nat /\ k <= Len(recs) /\ Len(recs) \in Nat /\ DOMAIN recs = 1..Len(recs)
  OBVIOUS
<1>2. \A i \in 1..k : recs[i] \in Records
  BY <1>1
<1> DEFINE prefix == SubSeq(recs, 1, k)
<1>3. prefix \in Seq(Records) /\ Len(prefix) = k /\ \A i \in 1..k : prefix[i] = recs[i]
  BY <1>1, <1>2, SubSeqProperties
<1> HIDE DEF prefix
<1>4. DOMAIN prefix = 1..k
  BY <1>3
<1> QED BY <1>1, <1>3, <1>4 DEF prefix

\* What is known of the file alone.
FileTyped ==
    /\ recs \in Seq(Records)
    /\ written \in Nat /\ data \in Seq(Ranges) /\ Len(data) = written
    /\ landed \in 0..Len(recs)

\* A new process, or a new instance in the same one.
LEMMA RestartKeeps ==
    ASSUME FileTyped', SectionsAreApart', RestartedBuffer, F!Restarted
    PROVE  IInv'
<1>1. /\ life' = "new" /\ list' = <<>> /\ trig' = NoTrigger /\ copied' = 0
      /\ timer' = FALSE /\ complete' = FALSE
      /\ sync' = [at |-> None, dispose |-> FALSE]
      /\ loose' = {} /\ refused' = {} /\ owed' = {}
      /\ pc' = [e \in Execs |-> "free"]
  BY DEF RestartedBuffer
<1>2. sections' = <<>> /\ meta' = FALSE /\ fileLock' # "write"
  BY DEF F!Restarted, F!None
<1>3. trig'.at = None /\ trig'.by = None /\ trig' \in Triggers
  BY <1>1 DEF NoTrigger, Triggers
<1>4. sync' \in Syncs /\ sync'.at = None
  BY <1>1 DEF Syncs
<1>5. FileInv'
  <2>1. Typed'
    BY <1>1, <1>2, <1>3 DEF Typed, FileTyped
  <2>2. ListIsSorted'
    BY <1>1, EmptyLemma DEF ListIsSorted
  <2>3. WriterKnowsAll' /\ SavedIsFiled' /\ LooseIsGood'
    BY <1>1, <1>2 DEF WriterKnowsAll, SavedIsFiled, LooseIsGood, Late
  <2>4. TriggerStands' /\ CopiedIsGood'
    BY <1>1, <1>3 DEF TriggerStands, CopiedIsGood, None
  <2> QED BY <2>1, <2>2, <2>3, <2>4 DEF FileInv
<1>6. EarlyIsIdle'
  BY <1>1, <1>2, <1>4 DEF EarlyIsIdle
<1>7. OwedIsFlushed'
  BY <1>1, <1>3, <1>4, BufferAssumption DEF OwedIsFlushed, Holds, None
<1>8. QP!IInv'
  BY DEF RestartedBuffer, QP!IInv, QP!TypeOK, QP!States, QP!PromiseCoversWork, QP!Live,
         QP!DisposeState, QP!DisposedMeansQuiet
<1> QED BY <1>5, <1>6, <1>7, <1>8 DEF IInv

LEMMA CrashStep == IInv /\ Crash => IInv'
<1> SUFFICES ASSUME IInv, Crash PROVE IInv'
  OBVIOUS
<1>1. Typed /\ SectionsAreApart
  BY DEF IInv, FileInv
<1>2. PICK k \in landed..Len(recs) : recs' = SubSeq(recs, 1, k) /\ landed' = k
  BY DEF Crash, F!Crash, F!Survives
<1>3. written' = written /\ data' = data
  BY DEF Crash, F!Crash
<1>4. k \in 0..Len(recs)
  BY <1>1 DEF Typed
<1>5. /\ recs' \in Seq(Records) /\ Len(recs') = k
      /\ \A i \in DOMAIN recs' : i \in DOMAIN recs /\ recs'[i] = recs[i]
  BY <1>1, <1>2, <1>4, PrefixLemma DEF Typed
<1>6. FileTyped'
  BY <1>1, <1>2, <1>3, <1>4, <1>5 DEF Typed, FileTyped
<1>7. SectionsAreApart'
  BY <1>1, <1>3, <1>5 DEF SectionsAreApart, IsSection
<1>8. RestartedBuffer /\ F!Restarted
  BY DEF Crash, F!Crash
<1> QED BY <1>6, <1>7, <1>8, RestartKeeps

LEMMA RenewStep == IInv /\ Renew => IInv'
<1> SUFFICES ASSUME IInv, Renew PROVE IInv'
  OBVIOUS
<1>1. Typed /\ SectionsAreApart
  BY DEF IInv, FileInv
<1>2. UNCHANGED <<recs, landed, written, data>> /\ RestartedBuffer /\ F!Restarted
  BY DEF Renew, diskVars
<1>3. FileTyped' /\ SectionsAreApart'
  BY <1>1, <1>2 DEF Typed, FileTyped, SectionsAreApart, IsSection
<1> QED BY <1>2, <1>3, RestartKeeps

LEMMA InitIInv == Init => IInv
<1> SUFFICES ASSUME Init PROVE IInv
  OBVIOUS
<1>1. /\ life = "new" /\ list = <<>> /\ trig = NoTrigger /\ copied = 0
      /\ timer = FALSE /\ complete = FALSE
      /\ sync = [at |-> None, dispose |-> FALSE]
      /\ loose = {} /\ refused = {} /\ owed = {} /\ data = <<>>
  BY DEF Init, FreshBuffer
<1>2. /\ sections = <<>> /\ meta = FALSE /\ fileLock # "write"
      /\ recs = <<>> /\ landed = 0 /\ written = 0
  BY DEF Init, F!Init, F!FreshInstance, F!None
<1>3. trig.at = None /\ trig.by = None /\ trig \in Triggers
  BY <1>1 DEF NoTrigger, Triggers
<1>4. sync \in Syncs /\ sync.at = None
  BY <1>1 DEF Syncs
<1>5. FileInv
  <2>1. Typed /\ SectionsAreApart
    BY <1>1, <1>2, <1>3 DEF Typed, SectionsAreApart, IsSection
  <2>2. ListIsSorted
    BY <1>1, EmptyLemma DEF ListIsSorted
  <2>3. WriterKnowsAll /\ SavedIsFiled /\ LooseIsGood
    BY <1>1, <1>2 DEF WriterKnowsAll, SavedIsFiled, LooseIsGood, Late
  <2>4. TriggerStands /\ CopiedIsGood
    BY <1>1, <1>3 DEF TriggerStands, CopiedIsGood, None
  <2> QED BY <2>1, <2>2, <2>3, <2>4 DEF FileInv
<1>6. QP!IInv
  BY DEF Init, Q!Init, QP!IInv, QP!TypeOK, QP!States, QP!PromiseCoversWork, QP!Live,
         QP!DisposeState, QP!DisposedMeansQuiet
<1>7. EarlyIsIdle
  BY <1>1, <1>2, <1>4 DEF EarlyIsIdle, Init, Q!Init
<1>8. OwedIsFlushed
  BY <1>1, <1>3, <1>4, BufferAssumption DEF OwedIsFlushed, Holds, None
<1> QED BY <1>5, <1>6, <1>7, <1>8 DEF IInv

\* What openRead() finds in the file: every section, as nothing is ever erased.
LEMMA ParseFinds ==
    ASSUME recs \in Seq(Records)
    PROVE  /\ F!Parse(recs) \in Seq(Parts)
           /\ Recorded(F!Parse(recs))
           /\ \A i \in DOMAIN recs : IsSection(i) =>
                  \E k \in DOMAIN F!Parse(recs) : F!Parse(recs)[k].at = i
<1> DEFINE parts == F!Parse(recs)
<1>1. recs \in Seq(CS!Records)
  <2>1. Records \subseteq CS!Records
    BY DEF Records, CS!Records, F!Header, CS!Header
  <2>2. Len(recs) \in Nat /\ recs = [i \in 1..Len(recs) |-> recs[i]]
        /\ \A i \in 1..Len(recs) : recs[i] \in Records
    OBVIOUS
  <2> QED BY <2>1, <2>2
<1>2. parts = CS!Parse(recs)
  <2>1. \A S : F!InOrder(S) = CS!InOrder(S)
    BY DEF F!InOrder, CS!InOrder, F!Cardinality, CS!Cardinality
  <2>2. F!Alive(recs) = CS!Alive(recs)
    BY DEF F!Alive, CS!Alive
  <2> QED BY <2>1, <2>2 DEF F!Parse, CS!Parse, F!Part, CS!Part
<1> HIDE DEF parts
<1>4. /\ parts \in Seq([at : Nat, id : Nat])
      /\ \A k \in DOMAIN parts :
             parts[k].at \in CS!Alive(recs) /\ parts[k].id = recs[parts[k].at].id
      /\ \A i \in CS!Alive(recs) : \E k \in DOMAIN parts : parts[k].at = i
      /\ \A k, l \in DOMAIN parts : parts[k].at = parts[l].at => k = l
  <2>1. /\ CS!Parse(recs) \in Seq([at : Nat, id : Nat])
        /\ \A k \in DOMAIN CS!Parse(recs) :
               /\ CS!Parse(recs)[k].at \in CS!Alive(recs)
               /\ CS!Parse(recs)[k].id = recs[CS!Parse(recs)[k].at].id
        /\ \A i \in CS!Alive(recs) : \E k \in DOMAIN CS!Parse(recs) : CS!Parse(recs)[k].at = i
        /\ \A k, l \in DOMAIN CS!Parse(recs) :
               CS!Parse(recs)[k].at = CS!Parse(recs)[l].at => k = l
    BY <1>1, CS!ParseLemma, BufferAssumption DEF CS!CacheFileAssumption
  <2> QED BY <1>2, <2>1
<1>5. \A i : i \in CS!Alive(recs) <=> IsSection(i)
  <2>1. \A i \in DOMAIN recs : recs[i].kind # "erase"
    <3>1. \A i \in DOMAIN recs : recs[i] \in Records
      OBVIOUS
    <3> QED BY <3>1 DEF Records, F!Header
  <2> QED BY <2>1 DEF CS!Alive, IsSection
<1>6. Recorded(parts)
  BY <1>4, <1>5 DEF Recorded
<1> QED BY <1>4, <1>5, <1>6 DEF parts, Parts

\* Until start() is done, the list is empty and nothing is triggered.
LEMMA EarlyKeeps ==
    ASSUME IInv, ~Late, ~Late', FileTyped', SectionsAreApart', sections' \in Seq(Parts),
           UNCHANGED <<list, complete, trig, copied, hasError, loose, refused,
                       queueVars, sync, owed>>
    PROVE  FileInv' /\ OwedIsFlushed' /\ QP!IInv'
<1>1. FileInv /\ OwedIsFlushed
  BY DEF IInv
<1>2. list = <<>> /\ trig = NoTrigger /\ loose = {}
  BY DEF IInv, EarlyIsIdle
<1>3. trig.at = None /\ trig.by = None
  BY <1>2 DEF NoTrigger
<1>4. Typed' /\ ListIsSorted'
  BY <1>1 DEF FileInv, Typed, FileTyped, ListIsSorted
<1>5. WriterKnowsAll' /\ SavedIsFiled' /\ LooseIsGood'
  BY <1>2 DEF WriterKnowsAll, SavedIsFiled, LooseIsGood
<1>6. TriggerStands' /\ CopiedIsGood'
  BY <1>3 DEF TriggerStands, CopiedIsGood, None
<1>7. OwedIsFlushed'
  BY <1>1 DEF OwedIsFlushed, Holds, queueVars
<1>8. QP!IInv'
  BY QueueStays, QueueInvStep DEF IInv
<1> QED BY <1>4, <1>5, <1>6, <1>7, <1>8 DEF FileInv

LEMMA StartOpenStep == IInv /\ StartOpen => IInv'
<1> SUFFICES ASSUME IInv, StartOpen PROVE IInv'
  OBVIOUS
<1>1. Typed /\ SectionsAreApart /\ EarlyIsIdle
  BY DEF IInv, FileInv
<1>2. /\ life = "new" /\ F!OpenRead
      /\ life' = IF inst' = "ready" THEN "opened" ELSE "failed"
      /\ UNCHANGED <<queueVars, data, list, timer, complete, trig, copied, hasError,
                     sync, owed, refused, loose>>
  BY DEF StartOpen, diskVars, trigVars, histVars
<1>3. UNCHANGED <<recs, landed, written, fileLock>>
  BY <1>2 DEF F!OpenRead
<1>4. ~Late /\ ~Late' /\ life' \in {"opened", "failed"}
  BY <1>2 DEF Late
<1>5. /\ list = <<>> /\ trig = NoTrigger /\ ~complete /\ loose = {} /\ refused = {}
      /\ ~timer /\ sync.at = None /\ \A e \in Execs : pc[e] = "free"
      /\ fileLock # "write" /\ ~meta /\ sections = <<>>
  BY <1>1, <1>2, <1>4 DEF EarlyIsIdle
<1>6. CASE UNCHANGED <<meta, sections>>
  <2>1. FileTyped' /\ SectionsAreApart' /\ sections' \in Seq(Parts)
    BY <1>1, <1>2, <1>3, <1>6 DEF Typed, FileTyped, SectionsAreApart, IsSection
  <2>2. FileInv' /\ OwedIsFlushed' /\ QP!IInv'
    BY <1>2, <1>4, <2>1, EarlyKeeps
  <2>3. EarlyIsIdle'
    BY <1>2, <1>3, <1>4, <1>5, <1>6 DEF EarlyIsIdle, queueVars
  <2> QED BY <2>2, <2>3 DEF IInv
<1>7. CASE F!OpenSections
  <2> DEFINE found == F!Parse(recs)
             cut == IF tail = "data" THEN <<F!Part(Len(recs) + 1, 0)>> ELSE <<>>
  <2>1. /\ meta' = TRUE /\ sections' = sections \o found \o cut
        /\ inst' = IF tail = "none" THEN "ready" ELSE "failed"
    BY <1>7 DEF F!OpenSections, F!None
  <2>2. /\ found \in Seq(Parts) /\ Recorded(found)
        /\ \A i \in DOMAIN recs : IsSection(i) => \E k \in DOMAIN found : found[k].at = i
    BY <1>1, ParseFinds DEF Typed
  <2>3. cut \in Seq(Parts) /\ (tail = "none" => cut = <<>>)
    <3>1. F!Part(Len(recs) + 1, 0) \in Parts
      BY <1>1 DEF Typed, F!Part, Parts
    <3> QED BY <3>1
  <2> HIDE DEF found, cut
  <2>4. sections' = found \o cut
    BY <1>5, <2>1, <2>2
  <2>5. sections' \in Seq(Parts)
    BY <2>2, <2>3, <2>4
  <2>6. FileTyped' /\ SectionsAreApart'
    BY <1>1, <1>2, <1>3 DEF Typed, FileTyped, SectionsAreApart, IsSection
  <2>7. FileInv' /\ OwedIsFlushed' /\ QP!IInv'
    BY <1>2, <1>4, <2>5, <2>6, EarlyKeeps
  <2>8. life' = "opened" => sections' = found
    BY <1>2, <2>1, <2>2, <2>3, <2>4
  <2>9. life' = "opened" => Recorded(sections)' /\
            \A i \in DOMAIN recs' : IsSection(i)' => \E k \in DOMAIN sections' : sections'[k].at = i
    BY <1>3, <2>2, <2>8 DEF Recorded, IsSection
  <2>10. EarlyIsIdle'
    BY <1>2, <1>3, <1>4, <1>5, <2>1, <2>9 DEF EarlyIsIdle, queueVars
  <2> QED BY <2>7, <2>10 DEF IInv
<1> QED BY <1>2, <1>6, <1>7 DEF F!OpenRead, F!OpenNothing, F!OpenBroken

LEMMA StartCreateStep == IInv /\ StartCreate => IInv'
<1> SUFFICES ASSUME IInv, StartCreate PROVE IInv'
  OBVIOUS
<1>1. Typed /\ SectionsAreApart /\ EarlyIsIdle
  BY DEF IInv, FileInv
<1>2. /\ life = "opened" /\ ~meta /\ F!PrepareCreate
      /\ life' = IF inst' = "failed" THEN "failed" ELSE "creating"
      /\ UNCHANGED <<queueVars, data, list, timer, complete, trig, copied, hasError,
                     sync, owed, refused, loose>>
  BY DEF StartCreate, diskVars, trigVars, histVars
<1>3. /\ UNCHANGED <<sections, written, meta>>
      /\ \/ inst' = "failed" /\ UNCHANGED <<recs, landed, fileLock>>
         \/ inst' = inst /\ recs' = <<>> /\ landed' = 0 /\ fileLock' = "write"
  BY <1>2 DEF F!PrepareCreate
<1>4. ~Late /\ ~Late' /\ life' \in {"creating", "failed"}
  BY <1>2 DEF Late
<1>5. /\ list = <<>> /\ trig = NoTrigger /\ ~complete /\ loose = {} /\ refused = {}
      /\ ~timer /\ sync.at = None /\ \A e \in Execs : pc[e] = "free"
      /\ fileLock # "write" /\ sections = <<>> /\ inst = "ready"
  BY <1>1, <1>2, <1>4 DEF EarlyIsIdle
<1>6. FileTyped' /\ SectionsAreApart' /\ sections' \in Seq(Parts)
  <2>1. CASE UNCHANGED <<recs, landed, fileLock>>
    BY <1>1, <1>2, <1>3, <2>1 DEF Typed, FileTyped, SectionsAreApart, IsSection
  <2>2. CASE recs' = <<>> /\ landed' = 0
    BY <1>1, <1>2, <1>3, <2>2 DEF Typed, FileTyped, SectionsAreApart, IsSection
  <2> QED BY <1>3, <2>1, <2>2
<1>7. FileInv' /\ OwedIsFlushed' /\ QP!IInv'
  BY <1>2, <1>4, <1>6, EarlyKeeps
<1>8. EarlyIsIdle'
  <2>1. CASE life' = "failed"
    <3>1. fileLock' # "write"
      BY <1>2, <1>3, <1>5, <2>1
    <3> QED BY <1>2, <1>3, <1>5, <2>1, <3>1 DEF EarlyIsIdle, queueVars
  <2>2. CASE life' = "creating"
    <3>1. recs' = <<>>
      BY <1>2, <1>3, <2>2
    <3> QED BY <1>2, <1>3, <1>5, <2>2, <3>1 DEF EarlyIsIdle, queueVars
  <2> QED BY <1>4, <2>1, <2>2
<1> QED BY <1>7, <1>8 DEF IInv

LEMMA StartCreatedStep == IInv /\ StartCreated => IInv'
<1> SUFFICES ASSUME IInv, StartCreated PROVE IInv'
  OBVIOUS
<1>1. Typed /\ EarlyIsIdle /\ OwedIsFlushed
  BY DEF IInv, FileInv
<1>2. /\ life = "creating" /\ life' = "up" /\ F!CreateEnd
      /\ UNCHANGED <<queueVars, data, list, complete, trig, copied, hasError,
                     sync, owed, refused, loose, temp>>
  BY DEF StartCreated, diskVars, trigVars, histVars
<1>3. /\ recs' = Append(recs, F!Header)
      /\ UNCHANGED <<landed, sections, written, fileLock>>
  BY <1>2 DEF F!CreateEnd, F!Append1
<1>4. /\ list = <<>> /\ trig = NoTrigger /\ ~complete /\ loose = {} /\ refused = {}
      /\ sync.at = None /\ recs = <<>> /\ sections = <<>>
  BY <1>1, <1>2 DEF EarlyIsIdle, Late
<1>5. /\ recs' \in Seq(Records) /\ Len(recs') = 1 /\ DOMAIN recs' = 1..1
      /\ recs'[1].kind # "section" /\ Len(recs) = 0
  <2>1. F!Header \in Records /\ F!Header.kind # "section"
    BY DEF Records, F!Header
  <2>2. recs' = <<F!Header>> /\ Len(recs) = 0
    BY <1>3, <1>4
  <2> QED BY <2>1, <2>2
<1>6. trig'.at = None /\ trig'.by = None
  BY <1>2, <1>4 DEF NoTrigger
<1>7. \A i : ~IsSection(i)'
  <2>1. \A i \in DOMAIN recs' : i = 1
    BY <1>5
  <2> QED BY <1>5, <2>1 DEF IsSection
<1>8. FileInv'
  <2>1. Typed'
    BY <1>1, <1>2, <1>3, <1>5 DEF Typed
  <2>2. ListIsSorted'
    BY <1>2, <1>4, EmptyLemma DEF ListIsSorted
  <2>3. SectionsAreApart'
    BY <1>7 DEF SectionsAreApart
  <2>4. WriterKnowsAll' /\ LooseIsGood'
    BY <1>2, <1>4, <1>7 DEF WriterKnowsAll, LooseIsGood
  <2>5. SavedIsFiled'
    <3>1. sections' = <<>> /\ DOMAIN sections' = {}
      BY <1>3, <1>4
    <3>2. Recorded(sections)' /\ Saved(sections)' = {}
      BY <3>1 DEF Recorded, Saved
    <3>3. Filed(list') = {}
      BY <1>2, <1>4, EmptyLemma
    <3> QED BY <1>2, <1>4, <3>2, <3>3 DEF SavedIsFiled
  <2>6. TriggerStands' /\ CopiedIsGood'
    BY <1>6 DEF TriggerStands, CopiedIsGood, None
  <2> QED BY <2>1, <2>2, <2>3, <2>4, <2>5, <2>6 DEF FileInv
<1>9. OwedIsFlushed'
  BY <1>1, <1>2 DEF OwedIsFlushed, Holds, queueVars
<1>10. QueueStep
  BY <1>2, QueueStays
<1> QED BY <1>2, <1>8, <1>9, <1>10, LateStep

\* The parts of the file are loaded: the list holds what the file holds.
LEMMA StartAppendStep == IInv /\ StartAppend => IInv'
<1> SUFFICES ASSUME IInv, StartAppend PROVE IInv'
  OBVIOUS
<1>1. FileInv /\ Typed /\ EarlyIsIdle /\ OwedIsFlushed
  BY DEF IInv, FileInv
<1>2. /\ life = "opened" /\ life' = "up" /\ meta /\ F!PrepareAppend
      /\ list' = Loaded(sections)
      /\ \/ IsFullfilled(list') /\ trig' = [at |-> "open", by |-> "start"]
         \/ trig' = trig
      /\ UNCHANGED <<queueVars, data, complete, copied, hasError,
                     sync, owed, refused, loose, temp>>
  BY DEF StartAppend, diskVars, histVars
<1>3. UNCHANGED <<recs, landed, sections, written>>
  BY <1>2 DEF F!PrepareAppend
<1>4. /\ list = <<>> /\ trig = NoTrigger /\ ~complete /\ loose = {} /\ refused = {}
      /\ sync.at = None /\ Recorded(sections)
      /\ \A i \in DOMAIN recs : IsSection(i) => \E k \in DOMAIN sections : sections[k].at = i
  BY <1>1, <1>2 DEF EarlyIsIdle, Late
<1>5. /\ Sorted(list') /\ Mergeable(list') = {}
      /\ InMemory(list') = {} /\ Filed(list') = Saved(sections)
  <2>1. sections \in Seq([at : Nat, id : Nat])
    BY <1>1 DEF Typed, Parts
  <2>2. \A i \in DOMAIN sections : data[sections[i].id] \in Ranges
    BY <1>1, <1>4, DataLemma
  <2>3. \A i, j \in DOMAIN sections :
            i # j => Span(data[sections[i].id]) \intersect Span(data[sections[j].id]) = {}
    BY <1>1, <1>4, PartsApart
  <2> QED BY <1>2, <2>1, <2>2, <2>3, LoadedLemma
<1>6. /\ trig' \in Triggers /\ trig'.at \in {None, "open"} /\ trig'.by \in {None, "start"}
      /\ trig'.at = None <=> trig'.by = None
      /\ trig'.at = "open" => IsFullfilled(list')
  BY <1>2, <1>4 DEF NoTrigger, Triggers, None
<1>7. FileInv'
  <2>1. Typed' /\ ListIsSorted' /\ SectionsAreApart'
    BY <1>1, <1>2, <1>3, <1>5, <1>6
       DEF FileInv, Typed, ListIsSorted, SectionsAreApart, IsSection
  <2>2. WriterKnowsAll'
    <3>1. \A i \in DOMAIN recs : IsSection(i) => Span(data[recs[i].id]) \subseteq Saved(sections)
      BY <1>4 DEF Recorded, Saved
    <3> QED BY <1>2, <1>3, <1>4, <1>5, <3>1 DEF WriterKnowsAll, IsSection
  <2>3. SavedIsFiled'
    BY <1>2, <1>3, <1>4, <1>5 DEF SavedIsFiled, Recorded, IsSection, Saved
  <2>4. TriggerStands'
    <3>1. trig'.at = "open" => Full'
      BY <1>5, <1>6, NothingMissing DEF Full
    <3> QED BY <1>2, <1>4, <1>6, <3>1 DEF TriggerStands, None
  <2>5. CopiedIsGood' /\ LooseIsGood'
    BY <1>2, <1>4, <1>6 DEF CopiedIsGood, LooseIsGood, None
  <2> QED BY <2>1, <2>2, <2>3, <2>4, <2>5 DEF FileInv
<1>8. OwedIsFlushed'
  <2>1. "start" \notin Execs /\ None \notin Execs /\ None # "sync" /\ None # "start"
    BY BufferAssumption DEF None
  <2>2. sync.at \notin {"queue", "trigger"}
    BY <1>4 DEF None
  <2> QED BY <1>1, <1>2, <1>4, <1>5, <1>6, <2>1, <2>2 DEF OwedIsFlushed, Holds, queueVars
<1>9. QueueStep
  BY <1>2, QueueStays
<1> QED BY <1>2, <1>7, <1>8, <1>9, LateStep

-----------------------------------------------------------------------------
(* The invariant holds. *)

LEMMA IInvStep == IInv /\ [Next]_vars => IInv'
<1> SUFFICES ASSUME IInv, [Next]_vars PROVE IInv'
  OBVIOUS
<1>1. CASE Start
  BY <1>1, StartOpenStep, StartCreateStep, StartCreatedStep, StartAppendStep DEF Start
<1>2. CASE \E from, to \in 0..MaxSize : Push(from, to)
  BY <1>2, PushStep
<1>3. CASE Timer \/ ForceSync
  BY <1>3, TaskStep
<1>4. CASE \E dispose \in BOOLEAN : Sync(dispose)
  BY <1>4, SyncStep
<1>5. CASE \E e \in Execs : QueueCalls(e) \/ QueueReturns(e)
  BY <1>5, QueueCallsStep, QueueReturnsStep
<1>6. CASE FlushStep \/ FlushWritten
  BY <1>6, FlushStepStep, FlushWrittenStep
<1>7. CASE SyncTriggers \/ SyncEnd
  BY <1>7, SyncTriggersStep, SyncEndStep
<1>8. CASE Rebuild
  BY <1>8, RebuildStep
<1>9. CASE Dispose \/ DisposeEnd
  BY <1>9, DisposeStep
<1>10. CASE Crash \/ Renew
  BY <1>10, CrashStep, RenewStep
<1>11. CASE UNCHANGED vars
  <2>1. FileInv /\ EarlyIsIdle /\ OwedIsFlushed /\ QP!IInv
    BY DEF IInv
  <2>2. /\ UNCHANGED <<queueVars, sync, owed, life, timer, meta, inst>> /\ Untouched
        /\ UNCHANGED <<fileLock, recs, sections, list, trig, complete, loose, refused, pc>>
    BY <1>11 DEF vars, queueVars, fileVars, diskVars, bufVars, trigVars, histVars, Untouched
  <2>3. FileInv'
    BY <2>1, <2>2, UntouchedKeeps DEF Late
  <2>4. EarlyIsIdle'
    BY <2>1, <2>2 DEF EarlyIsIdle, Late, Recorded, IsSection
  <2>5. OwedIsFlushed'
    BY <2>1, <2>2 DEF OwedIsFlushed, Holds
  <2>6. QP!IInv'
    BY <2>1, <2>2, QueueStays, QueueInvStep
  <2> QED BY <2>3, <2>4, <2>5, <2>6 DEF IInv
<1> QED
  BY <1>1, <1>2, <1>3, <1>4, <1>5, <1>6, <1>7, <1>8, <1>9, <1>10, <1>11 DEF Next

LEMMA IInvHolds == Spec => []IInv
  BY InitIInv, IInvStep, PTL DEF Spec

-----------------------------------------------------------------------------
(* The calls of the cache file. *)

\* The call that is awaited is that of the trigger.
Awaiting ==
    IF trig.at = "write" THEN "writing" ELSE IF trig.at = "close" THEN "closing" ELSE None

\* start() calls the file itself.
StartCalls ==
    ~Late =>
        /\ ~writer /\ bad = <<>>
        /\ life = "creating" => op.call = "creating" /\ fileLock = "write" /\ exists
        /\ life # "creating" => op.call = None /\ fileLock = None
        /\ life = "opened" /\ meta => recs # <<>>

\* Afterwards only the trigger does, and the lock of the file tells whether it
\* reads or the writer is open.
TriggerCalls ==
    Late =>
        /\ op.call = Awaiting
        /\ trig.at = "close" => op.emit
        /\ writer => bad = <<>> /\ fileLock = "write"
        /\ life # "disposed" /\ fileLock = "write" => writer
        /\ ~complete => exists /\ recs # <<>>
        /\ fileLock = "emit" <=> trig.at \in {"fill", "copy", "destroy"}
        /\ fileLock \in {None, "write", "emit"}

FileIsThere == ~exists => recs = <<>>

CallInv == FileIsThere /\ StartCalls /\ TriggerCalls

\* dispose() has awaited sync() and the queue.
DisposeIsLast ==
    /\ life \in {"disposing", "disposed"} => sync.at = "done" /\ disposing # "no"
    /\ QuietAfterDispose

LEMMA CallsStay ==
    ASSUME CallInv, UNCHANGED <<fileVars, trig, life, complete>>
    PROVE  CallInv'
BY DEF CallInv, FileIsThere, StartCalls, TriggerCalls, Awaiting, Late, fileVars

\* start() opens or makes the file, and nobody else is there.
LEMMA StartCallsStep == IInv /\ CallInv /\ Start => CallInv'
<1> SUFFICES ASSUME IInv, CallInv, Start PROVE CallInv'
  OBVIOUS
<1>1. Typed /\ EarlyIsIdle
  BY DEF IInv, FileInv
<1> USE DEF CallInv, FileIsThere, StartCalls, TriggerCalls, Awaiting, Late
<1>2. CASE StartOpen
  <2>1. /\ life = "new" /\ life' \in {"opened", "failed"} /\ F!OpenRead
        /\ UNCHANGED <<trig, complete>> /\ ~meta
    BY <1>1, <1>2 DEF StartOpen, trigVars, EarlyIsIdle
  <2>2. UNCHANGED <<exists, recs, fileLock, writer, bad, op>> /\ (meta' => recs # <<>>)
    BY <2>1 DEF F!OpenRead, F!OpenNothing, F!OpenBroken, F!OpenSections
  <2> QED BY <2>1, <2>2
<1>3. CASE StartCreate
  <2>1. /\ life = "opened" /\ F!PrepareCreate /\ ~meta /\ inst = "ready"
        /\ life' = IF inst' = "failed" THEN "failed" ELSE "creating"
    BY <1>1, <1>3 DEF StartCreate, EarlyIsIdle
  <2>2. /\ UNCHANGED <<writer, meta>> /\ bad' = <<>>
        /\ \/ inst' = "failed" /\ UNCHANGED <<exists, recs, fileLock, op>>
           \/ /\ inst' = inst /\ exists' /\ recs' = <<>> /\ fileLock' = "write"
              /\ op'.call = "creating"
    BY <2>1 DEF F!PrepareCreate, F!Idle
  <2> QED BY <2>1, <2>2
<1>4. CASE StartCreated
  <2>1. /\ life = "creating" /\ life' = "up" /\ F!CreateEnd /\ UNCHANGED <<trig, complete>>
        /\ trig.at = None
    BY <1>1, <1>4 DEF StartCreated, trigVars, EarlyIsIdle, NoTrigger
  <2>2. /\ UNCHANGED <<exists, fileLock, bad>> /\ writer' /\ op'.call = None /\ recs' # <<>>
    BY <1>1, <2>1 DEF F!CreateEnd, F!Append1, F!Idle, F!None, None, Typed
  <2> QED BY <2>1, <2>2 DEF None
<1>5. CASE StartAppend
  <2>1. /\ life = "opened" /\ meta /\ life' = "up" /\ F!PrepareAppend /\ UNCHANGED complete
        /\ trig'.at \in {None, "open"}
    BY <1>1, <1>5 DEF StartAppend, EarlyIsIdle, NoTrigger
  <2>2. UNCHANGED <<exists, recs, bad, op>> /\ fileLock' = "write" /\ writer'
    BY <2>1 DEF F!PrepareAppend, F!NothingThere
  <2> QED BY <2>1, <2>2 DEF None
<1> QED BY <1>2, <1>3, <1>4, <1>5 DEF Start

\* A trigger that goes on with its flush.
LEMMA FlushCalls ==
    ASSUME CallInv, Typed, Late, ~complete, trig.at \in {None, "flush"}, NEW by,
           FlushNext(by), UNCHANGED <<life, complete>>
    PROVE  CallInv'
<1> USE DEF CallInv, FileIsThere, StartCalls, TriggerCalls, Awaiting, Late
<1>1. CASE UNCHANGED fileVars /\ trig' = NoTrigger
  BY <1>1 DEF NoTrigger, fileVars, None
<1>2. CASE F!WritePart /\ trig' = [at |-> "write", by |-> by]
  <2>1. /\ UNCHANGED <<exists, fileLock, writer, bad>> /\ fileLock = "write" /\ writer
        /\ recs' # <<>> /\ op'.call = "writing"
    BY <1>2 DEF F!WritePart, F!Append1, F!Idle, Typed
  <2> QED BY <1>2, <2>1 DEF None
<1> QED BY <1>1, <1>2 DEF FlushNext

LEMMA TriggerCallsStep ==
    ASSUME IInv, CallInv, Late, NEW kind, NEW by, Trigger(kind, by), UNCHANGED <<life, complete>>
    PROVE  CallInv'
<1>1. Typed
  BY DEF IInv, FileInv
<1>2. CASE UNCHANGED <<fileVars, trig>>
  BY <1>2, CallsStay
<1>3. CASE ~complete /\ trig = NoTrigger /\ FlushNext(by)
  BY <1>1, <1>3, FlushCalls DEF NoTrigger
<1>4. CASE ~complete /\ trig = NoTrigger /\ trig' = [at |-> "open", by |-> by] /\ UNCHANGED fileVars
  BY <1>4 DEF CallInv, FileIsThere, StartCalls, TriggerCalls, Awaiting, Late, fileVars,
              NoTrigger, None
<1> QED BY <1>2, <1>3, <1>4 DEF Trigger, trigVars

\* The rebuild calls the file in the order of its awaits.
LEMMA RebuildCalls == IInv /\ CallInv /\ Rebuild => CallInv'
<1> SUFFICES ASSUME IInv, CallInv, Rebuild PROVE CallInv'
  OBVIOUS
<1>1. trig.at # None
  BY DEF Rebuild, RebuildOpen, RebuildClosed, RebuildFill, RebuildCopy, RebuildGivesUp,
         RebuildRenames, RebuildCompletes, None
<1>2. Late /\ ~complete /\ Typed /\ trig \in Triggers
  BY <1>1, LateLemma DEF IInv, FileInv, Typed
<1>3. /\ op.call = Awaiting /\ (trig.at = "close" => op.emit)
      /\ writer => bad = <<>> /\ fileLock = "write"
      /\ life # "disposed" /\ fileLock = "write" => writer
      /\ exists /\ recs # <<>>
      /\ fileLock = "emit" <=> trig.at \in {"fill", "copy", "destroy"}
      /\ fileLock \in {None, "write", "emit"}
  BY <1>2 DEF CallInv, TriggerCalls
<1> DEFINE Next1 ==
      /\ FileIsThere'
      /\ op'.call = Awaiting' /\ (trig'.at = "close" => op'.emit)
      /\ writer' => bad' = <<>> /\ fileLock' = "write"
      /\ life' # "disposed" /\ fileLock' = "write" => writer'
      /\ ~complete' => exists' /\ recs' # <<>>
      /\ fileLock' = "emit" <=> trig'.at \in {"fill", "copy", "destroy"}
      /\ fileLock' \in {None, "write", "emit"}
<1>4. SUFFICES Next1 /\ life' = life
  BY <1>2 DEF CallInv, StartCalls, TriggerCalls, Late
<1> USE DEF Awaiting, FileIsThere, None
<1>5. CASE RebuildOpen
  <2>1. trig.at = "open" /\ UNCHANGED <<life, complete>>
    BY <1>5 DEF RebuildOpen, bufVars
  <2>2. CASE writer
    <3>1. F!CloseWriter(TRUE) /\ trig' = [trig EXCEPT !.at = "close"]
      BY <1>5, <2>2 DEF RebuildOpen
    <3>2. /\ UNCHANGED <<exists, recs, fileLock, writer, bad>>
          /\ op'.call = "closing" /\ op'.emit
      BY <1>3, <2>2, <3>1 DEF F!CloseWriter, F!fileVars
    <3> QED BY <1>2, <1>3, <2>1, <2>2, <3>1, <3>2 DEF Triggers
  <2>3. CASE ~writer
    <3>1. F!StartEmitting /\ trig' = [trig EXCEPT !.at = "fill"]
      BY <1>5, <2>3 DEF RebuildOpen
    <3>2. UNCHANGED <<exists, recs, writer, bad, op>> /\ fileLock' = "emit"
      BY <3>1 DEF F!StartEmitting, F!fileVars
    <3> QED BY <1>2, <1>3, <2>1, <2>3, <3>1, <3>2 DEF Triggers
  <2> QED BY <2>2, <2>3
<1>6. CASE RebuildClosed
  <2>1. trig.at = "close" /\ UNCHANGED <<life, complete>> /\ trig' = [trig EXCEPT !.at = "fill"]
    BY <1>6 DEF RebuildClosed, bufVars
  <2>2. UNCHANGED <<exists, recs, bad>> /\ ~writer' /\ fileLock' = "emit" /\ op'.call = None
    BY <1>3, <1>6, <2>1 DEF RebuildClosed, F!CloseEnd, F!Idle, F!None
  <2> QED BY <1>2, <1>3, <2>1, <2>2 DEF Triggers
<1>7. CASE RebuildFill
  <2>1. /\ trig.at = "fill" /\ UNCHANGED <<life, complete, fileVars>>
        /\ trig' = trig \/ trig' = [trig EXCEPT !.at = "copy"]
    BY <1>7 DEF RebuildFill
  <2> QED BY <1>2, <1>3, <2>1 DEF Triggers, fileVars
<1>8. CASE RebuildCopy
  <2>1. /\ trig.at = "copy" /\ UNCHANGED <<life, complete, trig>>
        /\ F!MarkBad(copied + 1) \/ UNCHANGED fileVars
    BY <1>8 DEF RebuildCopy
  <2>2. UNCHANGED <<exists, recs, fileLock, writer, op>> /\ ~writer
    BY <1>3, <2>1 DEF F!MarkBad, F!fileVars, fileVars
  <2> QED BY <1>2, <1>3, <2>1, <2>2
<1>9. CASE RebuildGivesUp
  <2>1. /\ trig.at = "copy" /\ trig' = NoTrigger /\ UNCHANGED <<life, complete>>
        /\ F!StopEmitting
    BY <1>9 DEF RebuildGivesUp, bufVars
  <2>2. UNCHANGED <<exists, recs, writer, bad, op>> /\ fileLock' = None /\ ~writer
    BY <1>3, <2>1 DEF F!StopEmitting, F!fileVars, F!None
  <2> QED BY <1>2, <1>3, <2>1, <2>2 DEF NoTrigger
<1>10. CASE RebuildRenames
  <2>1. /\ trig.at = "copy" /\ trig' = [trig EXCEPT !.at = "destroy"]
        /\ UNCHANGED <<life, complete, fileVars>>
    BY <1>10 DEF RebuildRenames, bufVars
  <2> QED BY <1>2, <1>3, <2>1 DEF Triggers, fileVars
<1>11. CASE RebuildCompletes
  <2>1. trig.at = "destroy" /\ trig' = NoTrigger /\ UNCHANGED life /\ complete' /\ F!Destroy
    BY <1>11 DEF RebuildCompletes
  <2>2. /\ UNCHANGED <<bad, op>> /\ ~exists' /\ recs' = <<>> /\ ~writer' /\ fileLock' = None
    BY <2>1 DEF F!Destroy, F!None
  <2> QED BY <1>2, <1>3, <2>1, <2>2 DEF NoTrigger
<1> QED BY <1>5, <1>6, <1>7, <1>8, <1>9, <1>10, <1>11 DEF Rebuild

LEMMA RestartCalls ==
    ASSUME RestartedBuffer, F!Restarted, FileIsThere'
    PROVE  CallInv' /\ DisposeIsLast'
<1>1. /\ life' = "new" /\ ~writer' /\ bad' = <<>> /\ op'.call = None /\ fileLock' = None
  BY DEF RestartedBuffer, F!Restarted, F!Idle, F!None, None
<1> QED BY <1>1 DEF CallInv, StartCalls, TriggerCalls, Late, DisposeIsLast, QuietAfterDispose

LEMMA CallInvInit == Init => CallInv /\ DisposeIsLast
<1> SUFFICES ASSUME Init PROVE CallInv /\ DisposeIsLast
  OBVIOUS
<1>1. /\ life = "new" /\ ~writer /\ bad = <<>> /\ op.call = None /\ fileLock = None
      /\ recs = <<>>
  BY DEF Init, FreshBuffer, F!Init, F!FreshInstance, F!Idle, F!None, None
<1> QED BY <1>1 DEF CallInv, FileIsThere, StartCalls, TriggerCalls, Late,
                    DisposeIsLast, QuietAfterDispose

LEMMA CrashCalls == IInv /\ CallInv /\ (Crash \/ Renew) => CallInv' /\ DisposeIsLast'
<1> SUFFICES ASSUME IInv, CallInv, Crash \/ Renew PROVE CallInv' /\ DisposeIsLast'
  OBVIOUS
<1>1. RestartedBuffer /\ F!Restarted
  BY DEF Crash, F!Crash, Renew
<1>2. FileIsThere'
  <2>1. CASE Crash
    <3>1. PICK k \in landed..Len(recs) : recs' = SubSeq(recs, 1, k)
      BY <2>1 DEF Crash, F!Crash, F!Survives
    <3>2. exists' = exists
      BY <2>1 DEF Crash, F!Crash
    <3>3. recs = <<>> => recs' = <<>>
      <4> SUFFICES ASSUME recs = <<>> PROVE recs' = <<>>
        OBVIOUS
      <4>1. k \in 0..Len(recs) /\ Len(recs) = 0
        BY DEF IInv, FileInv, Typed
      <4>2. recs' \in Seq(Records) /\ Len(recs') = 0
        BY <3>1, <4>1, PrefixLemma DEF IInv, FileInv, Typed
      <4> QED BY <4>2
    <3> QED BY <3>2, <3>3 DEF CallInv, FileIsThere
  <2>2. CASE Renew
    BY <2>2 DEF Renew, CallInv, FileIsThere
  <2> QED BY <2>1, <2>2
<1> QED BY <1>1, <1>2, RestartCalls

\* When no coroutine is alive and sync() has ended, nobody holds the lock.
LEMMA NobodyHolds ==
    ASSUME IInv, sync.at = "done", \A e \in Execs : ~Q!Live(e)
    PROVE  trig = NoTrigger
<1>1. /\ trig \in Triggers /\ (trig.at = None <=> trig.by = None)
      /\ trig.by \in Execs => pc[trig.by] = "calling"
  BY DEF IInv, FileInv, Typed, OwedIsFlushed
<1>2. trig.by \notin {"sync", "start"}
  BY DEF IInv, OwedIsFlushed, Holds, None
<1>3. trig.by \notin Execs
  BY <1>1 DEF Q!Live
<1> QED BY <1>1, <1>2, <1>3 DEF Triggers, NoTrigger

LEMMA DisposeCalls ==
    ASSUME IInv, CallInv, DisposeIsLast, Dispose \/ DisposeEnd
    PROVE  CallInv' /\ DisposeIsLast'
<1>1. CASE Dispose
  <2>1. /\ life = "up" /\ life' = "disposing" /\ sync.at = "done" /\ UNCHANGED sync
        /\ UNCHANGED <<fileVars, trig, complete>> /\ disposing' = "waiting"
    BY <1>1 DEF Dispose, trigVars, Q!Dispose
  <2>2. CallInv'
    BY <2>1 DEF CallInv, FileIsThere, StartCalls, TriggerCalls, Awaiting, Late, fileVars
  <2> QED BY <2>1, <2>2 DEF DisposeIsLast, QuietAfterDispose
<1>2. CASE DisposeEnd
  <2>1. /\ life = "disposing" /\ life' = "disposed" /\ Q!DisposeEnd
        /\ landed' = Len(recs) /\ ~writer' /\ UNCHANGED <<sync, trig, complete>>
        /\ UNCHANGED <<exists, recs, fileLock, bad, op>>
    BY <1>2 DEF DisposeEnd, trigVars
  <2>2. /\ \A e \in Execs : ~Q!Live(e)
        /\ UNCHANGED pc /\ disposing' # "no"
    <3>1. /\ \A e \in Execs : Q!Live(e) => promise = e
          /\ NoExec \notin Execs
      BY BufferAssumption DEF IInv, QP!IInv, QP!PromiseCoversWork, QP!Live, Q!Live
    <3>2. /\ promise # NoExec => ~Q!Live(promise)
          /\ UNCHANGED pc /\ disposing' # "no"
      BY <2>1 DEF Q!DisposeEnd
    <3> QED BY <3>1, <3>2
  <2>3. sync.at = "done"
    BY <2>1 DEF DisposeIsLast
  <2>4. trig = NoTrigger
    BY <2>2, <2>3, NobodyHolds
  <2>5. CallInv'
    BY <2>1, <2>4
       DEF CallInv, FileIsThere, StartCalls, TriggerCalls, Awaiting, Late, NoTrigger, None
  <2>6. (\A e \in Execs : ~Q!Live(e))'
    BY <2>2 DEF Q!Live
  <2> QED BY <2>1, <2>2, <2>3, <2>4, <2>5, <2>6 DEF DisposeIsLast, QuietAfterDispose
<1> QED BY <1>1, <1>2

\* Once dispose() is on its way no other step comes after it.
LEMMA QuietStays ==
    ASSUME DisposeIsLast, UNCHANGED <<life, sync, disposing>>,
           life = "disposed" => UNCHANGED <<trig, pc, landed, recs>>
    PROVE  DisposeIsLast'
BY DEF DisposeIsLast, QuietAfterDispose, Q!Live

LEMMA CallInvStep ==
    IInv /\ CallInv /\ DisposeIsLast /\ [Next]_vars => CallInv' /\ DisposeIsLast'
<1> SUFFICES ASSUME IInv, CallInv, DisposeIsLast, [Next]_vars
             PROVE  CallInv' /\ DisposeIsLast'
  OBVIOUS
<1>0. /\ EarlyIsIdle /\ OwedIsFlushed
      /\ life \in {"disposing", "disposed"} => sync.at = "done" /\ disposing # "no"
      /\ life = "disposed" => trig.at = None /\ \A e \in Execs : ~Q!Live(e)
  BY DEF IInv, DisposeIsLast, QuietAfterDispose, NoTrigger
<1>1. CASE Start
  <2>1. life' \notin {"disposing", "disposed"}
    BY <1>1 DEF Start, StartOpen, StartCreate, StartCreated, StartAppend
  <2> QED BY <1>1, <2>1, StartCallsStep DEF DisposeIsLast, QuietAfterDispose
<1>2. ASSUME NEW from \in 0..MaxSize, NEW to \in 0..MaxSize, Push(from, to)
      PROVE  CallInv' /\ DisposeIsLast'
  <2>1. UNCHANGED <<fileVars, trig, life, complete>> /\ life = "up"
    BY <1>2 DEF Push, trigVars, Started
  <2> QED BY <2>1, CallsStay DEF DisposeIsLast, QuietAfterDispose
<1>3. CASE Timer
  <2>1. /\ UNCHANGED <<fileVars, trig, life, complete, sync, disposing>> /\ disposing = "no"
    BY <1>3 DEF Timer, trigVars, bufVars, Q!PushQueue
  <2> QED BY <1>0, <2>1, CallsStay DEF DisposeIsLast, QuietAfterDispose
<1>4. CASE ForceSync
  <2>1. UNCHANGED <<fileVars, trig, life, complete>> /\ life = "up"
    BY <1>4 DEF ForceSync, trigVars, Started
  <2> QED BY <2>1, CallsStay DEF DisposeIsLast, QuietAfterDispose
<1>5. ASSUME NEW dispose \in BOOLEAN, Sync(dispose) PROVE CallInv' /\ DisposeIsLast'
  <2>1. UNCHANGED <<fileVars, trig, life, complete>> /\ life = "up"
    BY <1>5 DEF Sync, trigVars, bufVars, Started
  <2> QED BY <2>1, CallsStay DEF DisposeIsLast, QuietAfterDispose
<1>6. ASSUME NEW e \in Execs, QueueCalls(e) PROVE CallInv' /\ DisposeIsLast'
  <2>1. /\ Q!Immediate(e) /\ UNCHANGED <<life, complete, sync, disposing>>
        /\ Trigger(task, e) \/ UNCHANGED <<fileVars, trig>>
    BY <1>6 DEF QueueCalls, Q!Immediate, trigVars
  <2>2. Q!Live(e)
    BY <2>1 DEF Q!Immediate, Q!Live
  <2>3. Late /\ life # "disposed"
    BY <1>0, <2>2 DEF EarlyIsIdle, Q!Live
  <2>4. CallInv'
    BY <2>1, <2>3, CallsStay, TriggerCallsStep
  <2> QED BY <2>1, <2>3, <2>4, QuietStays
<1>7. ASSUME NEW e \in Execs, QueueReturns(e) PROVE CallInv' /\ DisposeIsLast'
  <2>1. Q!Settle(e) /\ UNCHANGED <<fileVars, trig, life, complete, sync, disposing>>
    BY <1>7 DEF QueueReturns, Q!Settle, trigVars, bufVars
  <2>2. life # "disposed"
    BY <1>0, <2>1 DEF Q!Settle, Q!Live
  <2> QED BY <2>1, <2>2, CallsStay, QuietStays
<1>8. CASE FlushStep
  <2>1. /\ trig.at = "flush" /\ FlushNext(trig.by) /\ UNCHANGED <<queueVars, life, complete>>
        /\ sync' = sync \/ Holds("sync")
    BY <1>8 DEF FlushStep
  <2>2. Late /\ ~complete /\ Typed
    BY <2>1, LateLemma DEF IInv, FileInv, None
  <2>3. CallInv'
    BY <2>1, <2>2, FlushCalls
  <2>4. life # "disposed" /\ (life = "disposing" => sync' = sync)
    BY <1>0, <2>1 DEF None, OwedIsFlushed
  <2> QED BY <2>1, <2>3, <2>4 DEF DisposeIsLast, QuietAfterDispose, queueVars
<1>9. CASE FlushWritten
  <2>1. /\ trig.at = "write" /\ trig' = [trig EXCEPT !.at = "flush"] /\ F!WriteEnd
        /\ UNCHANGED <<queueVars, life, complete, sync>>
    BY <1>9 DEF FlushWritten, bufVars
  <2>2. Late /\ trig \in Triggers /\ life # "disposed"
    BY <1>0, <2>1, LateLemma DEF IInv, FileInv, Typed, None
  <2>3. UNCHANGED <<exists, recs, fileLock, writer, bad>> /\ op'.call = None
    BY <2>1 DEF F!WriteEnd, F!fileVars, F!Idle, F!None, None
  <2>4. CallInv'
    BY <2>1, <2>2, <2>3 DEF CallInv, FileIsThere, StartCalls, TriggerCalls, Awaiting, Late,
                            Triggers, None
  <2> QED BY <2>1, <2>2, <2>4, QuietStays DEF queueVars
<1>10. CASE SyncTriggers
  <2>1. /\ sync.at = "queue" /\ UNCHANGED <<life, complete>>
        /\ UNCHANGED <<fileVars, trig>> \/ Trigger("sync", "sync")
    BY <1>10 DEF SyncTriggers, trigVars
  <2>2. Late
    BY <1>0, <2>1 DEF EarlyIsIdle, None
  <2>3. CallInv'
    BY <2>1, <2>2, CallsStay, TriggerCallsStep
  <2>4. life' \notin {"disposing", "disposed"}
    BY <1>0, <2>1
  <2> QED BY <2>3, <2>4 DEF DisposeIsLast, QuietAfterDispose
<1>11. CASE SyncEnd
  <2>1. sync.at = "trigger" /\ UNCHANGED <<fileVars, trig, life, complete>>
    BY <1>11 DEF SyncEnd, trigVars, bufVars
  <2>2. life' \notin {"disposing", "disposed"}
    BY <1>0, <2>1
  <2> QED BY <2>1, <2>2, CallsStay DEF DisposeIsLast, QuietAfterDispose
<1>12. CASE Rebuild
  <2>1. trig.at # None /\ UNCHANGED <<life, sync, disposing>>
    BY <1>12 DEF Rebuild, RebuildOpen, RebuildClosed, RebuildFill, RebuildCopy, RebuildGivesUp,
         RebuildRenames, RebuildCompletes, None, bufVars, queueVars
  <2>2. life # "disposed"
    BY <1>0, <2>1
  <2> QED BY <1>12, <2>1, <2>2, RebuildCalls, QuietStays
<1>13. CASE Dispose \/ DisposeEnd
  BY <1>13, DisposeCalls
<1>14. CASE Crash \/ Renew
  BY <1>14, CrashCalls
<1>15. CASE UNCHANGED vars
  <2>1. UNCHANGED <<fileVars, trig, life, complete, sync, disposing, pc, landed, recs>>
    BY <1>15 DEF vars, fileVars, queueVars, bufVars, trigVars
  <2> QED BY <2>1, CallsStay, QuietStays
<1> QED
  BY <1>1, <1>2, <1>3, <1>4, <1>5, <1>6, <1>7, <1>8, <1>9, <1>10, <1>11, <1>12, <1>13,
     <1>14, <1>15 DEF Next

LEMMA CallInvHolds == Spec => [](CallInv /\ DisposeIsLast)
  BY CallInvInit, CallInvStep, IInvHolds, PTL DEF Spec

\* While sync() or start() holds the lock, the queue has no coroutine, and gets
\* none: it is locked, or nobody can push to it yet.
HolderIsAlone ==
    /\ sync.at \in {"queue", "trigger"} => queueLock
    /\ Holds("sync") \/ Holds("start") => \A e \in Execs : ~Q!Live(e)
    /\ Holds("start") => ~timer

\* What is known of a step when the lock is held, or when it is not.
Holders ==
    /\ Holds("sync") => sync.at = "trigger"
    /\ Holds("start") => sync.at = None

\* A locked queue starts no coroutine.
LEMMA AloneStays ==
    ASSUME HolderIsAlone, UNCHANGED <<trig, sync, timer>>, NEW t,
           Q!PushQueue(t), Holders, ~Holds("start")
    PROVE  HolderIsAlone'
<1>1. queueLock' = queueLock /\ (queueLock => pc' = pc)
  BY DEF Q!PushQueue
<1> QED BY <1>1 DEF HolderIsAlone, Holds, Holders, Q!Live

\* A trigger is taken over by nobody.
LEMMA SameHolder ==
    ASSUME HolderIsAlone, UNCHANGED queueVars, trig'.by \in {trig.by, None},
           sync'.at \in {sync.at, "failed", "done"}, timer' => timer
    PROVE  HolderIsAlone'
<1>1. UNCHANGED <<pc, queueLock>>
  BY DEF queueVars
<1>2. Holds("sync")' => Holds("sync")
  BY DEF Holds, None
<1>3. Holds("start")' => Holds("start")
  BY DEF Holds, None
<1> QED BY <1>1, <1>2, <1>3 DEF HolderIsAlone, Q!Live

LEMMA HolderOfTrigger ==
    ASSUME NEW kind, NEW by, Trigger(kind, by)
    PROVE  trig'.by \in {trig.by, None, by}
<1>1. CASE FlushNext(by)
  BY <1>1 DEF FlushNext, NoTrigger
<1> QED BY <1>1 DEF Trigger, trigVars

LEMMA AloneStep ==
    IInv /\ DisposeIsLast /\ HolderIsAlone /\ [Next]_vars => HolderIsAlone'
<1> SUFFICES ASSUME IInv, DisposeIsLast, HolderIsAlone, [Next]_vars PROVE HolderIsAlone'
  OBVIOUS
<1>0. EarlyIsIdle /\ Typed /\ OwedIsFlushed /\ Holders
  BY DEF IInv, FileInv, OwedIsFlushed, Holders
<1>1. CASE Start
  <2>1. /\ ~Late /\ UNCHANGED <<queueVars, sync>>
        /\ trig' = trig \/ (trig' = [at |-> "open", by |-> "start"] /\ timer' = timer)
    BY <1>1 DEF Start, StartOpen, StartCreate, StartCreated, StartAppend, Late, trigVars
  <2>2. /\ trig = NoTrigger /\ ~timer /\ sync.at = None /\ \A e \in Execs : pc[e] = "free"
    BY <1>0, <2>1 DEF EarlyIsIdle
  <2> QED BY <2>1, <2>2 DEF HolderIsAlone, Holds, NoTrigger, None, Q!Live, queueVars
<1>2. ASSUME NEW from \in 0..MaxSize, NEW to \in 0..MaxSize, Push(from, to)
      PROVE  HolderIsAlone'
  <2>1. /\ UNCHANGED <<trig, sync, timer>> /\ ~Holds("start")
        /\ UNCHANGED queueVars \/ Q!PushQueue("dataRecv")
    BY <1>2 DEF Push, Started, trigVars
  <2> QED BY <1>0, <2>1, AloneStays, SameHolder
<1>3. CASE Timer \/ ForceSync
  <2>1. /\ UNCHANGED <<trig, sync, timer>> /\ ~Holds("start")
        /\ Q!PushQueue("timer") \/ Q!PushQueue("manual")
    BY <1>3 DEF Timer, ForceSync, Started, trigVars, bufVars, HolderIsAlone
  <2> QED BY <1>0, <2>1, AloneStays
<1>4. ASSUME NEW dispose \in BOOLEAN, Sync(dispose) PROVE HolderIsAlone'
  <2>1. /\ ~Holds("start") /\ sync.at \in {None, "done", "failed"} /\ UNCHANGED trig
        /\ sync'.at = "done" \/ (sync'.at = "queue" /\ queueLock')
    BY <1>4 DEF Sync, Started, trigVars, Q!Lock
  <2>2. ~Holds("sync")' /\ ~Holds("start")'
    BY <1>0, <2>1 DEF Holders, Holds, None
  <2> QED BY <2>1, <2>2 DEF HolderIsAlone
<1>5. ASSUME NEW e \in Execs, QueueCalls(e) PROVE HolderIsAlone'
  <2>1. /\ Q!Immediate(e) /\ UNCHANGED <<sync, timer, queueLock>>
        /\ Trigger(task, e) \/ UNCHANGED trig
    BY <1>5 DEF QueueCalls, Q!Immediate, trigVars
  <2>2. ~Holds("sync") /\ ~Holds("start")
    BY <2>1 DEF HolderIsAlone, Q!Live, Q!Immediate
  <2>3. trig'.by \in {trig.by, None, e}
    BY <2>1, HolderOfTrigger
  <2>4. ~Holds("sync")' /\ ~Holds("start")'
    BY <2>2, <2>3, BufferAssumption DEF Holds, None
  <2> QED BY <2>1, <2>4 DEF HolderIsAlone
<1>6. ASSUME NEW e \in Execs, QueueReturns(e) PROVE HolderIsAlone'
  <2>1. Q!Settle(e) /\ UNCHANGED <<trig, sync, timer, queueLock>>
    BY <1>6 DEF QueueReturns, Q!Settle, trigVars, bufVars
  <2>2. ~Holds("sync")' /\ ~Holds("start")'
    BY <2>1 DEF HolderIsAlone, Q!Live, Q!Settle, Holds
  <2> QED BY <2>1, <2>2 DEF HolderIsAlone
<1>7. CASE FlushStep
  <2>1. /\ FlushNext(trig.by) /\ UNCHANGED <<queueVars, timer>>
        /\ sync' = sync \/ sync' = [sync EXCEPT !.at = "failed"]
    BY <1>7 DEF FlushStep
  <2>2. trig'.by \in {trig.by, None}
    BY <2>1 DEF FlushNext, NoTrigger
  <2>3. sync'.at \in {sync.at, "failed"}
    BY <1>0, <2>1 DEF OwedIsFlushed, Syncs
  <2> QED BY <2>1, <2>2, <2>3, SameHolder
<1>8. CASE FlushWritten
  <2>1. trig' = [trig EXCEPT !.at = "flush"] /\ UNCHANGED <<queueVars, timer, sync>>
    BY <1>8 DEF FlushWritten, bufVars
  <2>2. trig'.by = trig.by
    BY <1>0, <2>1 DEF Typed, Triggers
  <2> QED BY <2>1, <2>2, SameHolder
<1>9. CASE SyncTriggers
  <2>1. /\ sync.at = "queue" /\ (promise # NoExec => ~Q!Live(promise))
        /\ UNCHANGED <<queueVars, timer>>
        /\ Trigger("sync", "sync") \/ UNCHANGED trig
    BY <1>9 DEF SyncTriggers, trigVars
  <2>2. trig'.by \in {trig.by, None, "sync"}
    BY <2>1, HolderOfTrigger
  <2>3. ~Holds("start")'
    BY <1>0, <2>1, <2>2 DEF Holders, Holds, None
  <2>4. \A e \in Execs : ~Q!Live(e)
    BY <2>1, BufferAssumption DEF IInv, QP!IInv, QP!PromiseCoversWork, QP!Live, Q!Live
  <2>5. (\A e \in Execs : ~Q!Live(e))' /\ queueLock'
    BY <2>1, <2>4 DEF queueVars, Q!Live, HolderIsAlone
  <2> QED BY <2>3, <2>5 DEF HolderIsAlone
<1>10. CASE SyncEnd
  <2>1. /\ sync.at = "trigger" /\ ~Holds("sync") /\ UNCHANGED trig
        /\ sync' = [sync EXCEPT !.at = "done"]
    BY <1>10 DEF SyncEnd, trigVars
  <2>2. ~Holds("sync")' /\ ~Holds("start")'
    BY <1>0, <2>1 DEF Holders, Holds, None
  <2>3. sync'.at = "done"
    BY <1>0, <2>1 DEF OwedIsFlushed, Syncs
  <2> QED BY <2>2, <2>3 DEF HolderIsAlone
<1>11. CASE Rebuild
  <2>1. UNCHANGED <<queueVars, sync>> /\ (timer' = timer \/ ~timer')
    <3>1. UNCHANGED <<queueVars, sync>>
      BY <1>11 DEF Rebuild, RebuildOpen, RebuildClosed, RebuildFill, RebuildCopy,
         RebuildGivesUp, RebuildRenames, RebuildCompletes
    <3>2. timer' = timer \/ ~timer'
      <4>1. RebuildCompletes => timer' = FALSE
        BY DEF RebuildCompletes
      <4>2. Rebuild /\ ~RebuildCompletes => timer' = timer
        BY DEF Rebuild, RebuildOpen, RebuildClosed, RebuildFill, RebuildCopy,
           RebuildGivesUp, RebuildRenames, bufVars
      <4> QED BY <1>11, <4>1, <4>2
    <3> QED BY <3>1, <3>2
  <2>2. trig'.by \in {trig.by, None}
    <3>1. trig \in Triggers
      BY <1>0 DEF Typed
    <3>2. \/ trig' \in {trig, NoTrigger}
          \/ trig' = [trig EXCEPT !.at = "close"] \/ trig' = [trig EXCEPT !.at = "fill"]
          \/ trig' = [trig EXCEPT !.at = "copy"] \/ trig' = [trig EXCEPT !.at = "destroy"]
      BY <1>11 DEF Rebuild, RebuildOpen, RebuildClosed, RebuildFill, RebuildCopy,
         RebuildGivesUp, RebuildRenames, RebuildCompletes
    <3> QED BY <3>1, <3>2 DEF Triggers, NoTrigger
  <2> QED BY <2>1, <2>2, SameHolder
<1>12. CASE Dispose \/ DisposeEnd
  <2>1. sync.at = "done" /\ UNCHANGED <<sync, trig>>
    BY <1>12 DEF Dispose, DisposeEnd, DisposeIsLast, trigVars
  <2>2. ~Holds("sync")' /\ ~Holds("start")'
    BY <1>0, <2>1 DEF Holders, Holds, None
  <2> QED BY <2>1, <2>2 DEF HolderIsAlone
<1>13. CASE Crash \/ Renew
  <2>1. RestartedBuffer
    BY <1>13 DEF Crash, Renew
  <2> QED BY <2>1 DEF RestartedBuffer, HolderIsAlone, Holds, NoTrigger, None
<1>14. CASE UNCHANGED vars
  BY <1>14, SameHolder DEF vars, queueVars, trigVars, bufVars
<1> QED
  BY <1>1, <1>2, <1>3, <1>4, <1>5, <1>6, <1>7, <1>8, <1>9, <1>10, <1>11, <1>12, <1>13,
     <1>14 DEF Next

LEMMA AloneHolds == Spec => []HolderIsAlone
<1>1. Init => HolderIsAlone
  BY DEF Init, FreshBuffer, HolderIsAlone, Holds, NoTrigger, None
<1> QED BY <1>1, AloneStep, IInvHolds, CallInvHolds, PTL DEF Spec

-----------------------------------------------------------------------------
(* The types of what the invariant leaves open. *)

FileTypes ==
    /\ exists \in BOOLEAN /\ tail \in {None, "head", "data"}
    /\ inst \in {"new", "ready", "failed", "gone"} /\ meta \in BOOLEAN
    /\ fileLock \in {None, "write", "emit"} /\ writer \in BOOLEAN
    /\ op \in [call : F!Calls, emit : BOOLEAN]
    /\ written \in 0..MaxSections /\ crashes \in 0..MaxCrashes

Flags ==
    /\ timer \in BOOLEAN /\ manual \in BOOLEAN /\ complete \in BOOLEAN
    /\ hasError \in BOOLEAN

BufferTypes ==
    /\ rotten \subseteq 1..written
    /\ life \in {"new", "opened", "creating", "up", "failed", "disposing", "disposed"}
    /\ Flags
    /\ owed \subseteq Bytes /\ refused \subseteq Bytes /\ loose \subseteq Bytes

\* What the steps of SectionBuffer call of the cache file.
FileCall ==
    \/ F!OpenRead \/ F!PrepareCreate \/ F!CreateEnd \/ F!PrepareAppend
    \/ F!WritePart \/ F!WriteEnd \/ \E i \in Nat : F!MarkBad(i)
    \/ F!CloseWriter(TRUE) \/ F!CloseEnd \/ F!StartEmitting \/ F!StopEmitting \/ F!Destroy

LEMMA FileCallTypes ==
    ASSUME FileTypes, FileCall
    PROVE  FileTypes' /\ (written' = written \/ written' = written + 1)
<1> USE BufferAssumption DEF FileTypes, F!None, None, F!Calls, F!Idle, F!fileVars
<1>1. CASE F!OpenRead
  BY <1>1 DEF F!OpenRead, F!OpenNothing, F!OpenBroken, F!OpenSections
<1>2. CASE F!PrepareCreate
  <2>1. op' = op \/ op' = [call |-> "creating", emit |-> FALSE]
    BY <1>2 DEF F!PrepareCreate
  <2>2. op' \in [call : F!Calls, emit : BOOLEAN]
    <3>1. [call |-> "creating", emit |-> FALSE] \in [call : F!Calls, emit : BOOLEAN]
      OBVIOUS
    <3> QED BY <2>1, <3>1
  <2> QED BY <1>2, <2>2 DEF F!PrepareCreate
<1>3. CASE F!CreateEnd
  <2>1. op' = [call |-> "none", emit |-> FALSE]
    BY <1>3 DEF F!CreateEnd
  <2>2. op' \in [call : F!Calls, emit : BOOLEAN]
    BY <2>1
  <2> QED BY <1>3, <2>2 DEF F!CreateEnd
<1>4. CASE F!PrepareAppend
  BY <1>4 DEF F!PrepareAppend
<1>5. CASE F!WritePart
  <2>1. op' = [call |-> "writing", emit |-> FALSE]
    BY <1>5 DEF F!WritePart
  <2>2. op' \in [call : F!Calls, emit : BOOLEAN]
    BY <2>1
  <2>3. written' = written + 1 /\ written' \in 0..MaxSections
    BY <1>5 DEF F!WritePart
  <2> QED BY <1>5, <2>2, <2>3 DEF F!WritePart
<1>6. CASE F!WriteEnd
  <2>1. op' = [call |-> "none", emit |-> FALSE]
    BY <1>6 DEF F!WriteEnd
  <2>2. op' \in [call : F!Calls, emit : BOOLEAN]
    BY <2>1
  <2> QED BY <1>6, <2>2 DEF F!WriteEnd
<1>7. CASE \E i \in Nat : F!MarkBad(i)
  BY <1>7 DEF F!MarkBad
<1>8. CASE F!CloseWriter(TRUE)
  <2>1. op' \in {[call |-> "closing", emit |-> TRUE], [call |-> "erasing", emit |-> TRUE]}
    BY <1>8 DEF F!CloseWriter
  <2>2. op' \in [call : F!Calls, emit : BOOLEAN]
    <3>1. [call |-> "closing", emit |-> TRUE] \in [call : F!Calls, emit : BOOLEAN]
      OBVIOUS
    <3>2. [call |-> "erasing", emit |-> TRUE] \in [call : F!Calls, emit : BOOLEAN]
      OBVIOUS
    <3> QED BY <2>1, <3>1, <3>2
  <2> QED BY <1>8, <2>2 DEF F!CloseWriter
<1>9. CASE F!CloseEnd
  <2>1. op' = [call |-> "none", emit |-> FALSE]
    BY <1>9 DEF F!CloseEnd
  <2>2. op' \in [call : F!Calls, emit : BOOLEAN]
    BY <2>1
  <2> QED BY <1>9, <2>2 DEF F!CloseEnd
<1>10. CASE F!StartEmitting \/ F!StopEmitting \/ F!Destroy
  BY <1>10 DEF F!StartEmitting, F!StopEmitting, F!Destroy
<1> QED BY <1>1, <1>2, <1>3, <1>4, <1>5, <1>6, <1>7, <1>8, <1>9, <1>10 DEF FileCall

\* Every byte of the list is one of the download.
LEMMA ListBytes ==
    ASSUME IInv
    PROVE  /\ Filed(list) \subseteq Bytes /\ InMemory(list) \subseteq Bytes
           /\ \A i \in DOMAIN list : Span(list[i]) \subseteq Bytes
<1>1. Sorted(list)
  BY DEF IInv, FileInv, ListIsSorted
<1>2. Filed(list) \subseteq Bytes /\ InMemory(list) \subseteq Bytes
  BY <1>1, PlaceLemma
<1>3. \A i \in DOMAIN list : Span(list[i]) \subseteq Filed(list) \union InMemory(list)
  BY DEF Filed, InMemory
<1> QED BY <1>2, <1>3

\* The steps of a process.
LEMMA FileTypesStep ==
    IInv /\ FileTypes /\ [Next]_vars =>
        FileTypes' /\ (written' = written \/ written' = written + 1)
<1> SUFFICES ASSUME IInv, FileTypes, [Next]_vars
             PROVE  FileTypes' /\ (written' = written \/ written' = written + 1)
  OBVIOUS
<1>1. CASE FileCall \/ UNCHANGED fileVars
  BY <1>1, FileCallTypes DEF FileTypes, fileVars
<1>2. CASE DisposeEnd
  BY <1>2 DEF DisposeEnd, FileTypes
<1>3. CASE Crash \/ Renew
  <2>1. /\ inst' = "new" /\ meta' = FALSE /\ fileLock' = None /\ writer' = FALSE
        /\ op' = F!Idle /\ exists' = exists /\ written' = written
    BY <1>3 DEF Crash, Renew, F!Crash, F!Restarted, F!None, None
  <2>2. crashes' \in 0..MaxCrashes
    BY <1>3, BufferAssumption DEF Crash, Renew, F!Crash, FileTypes
  <2>3. tail' \in {None, "head", "data"}
    BY <1>3 DEF Crash, Renew, F!Crash, F!Survives, F!TornEnds, F!TornHeader, FileTypes, F!None, None
  <2> QED BY <2>1, <2>2, <2>3 DEF FileTypes, F!Idle, F!Calls, F!None, None
<1>4. FileCall \/ UNCHANGED fileVars \/ DisposeEnd \/ Crash \/ Renew
  <2>1. CASE Start
    BY <2>1 DEF Start, StartOpen, StartCreate, StartCreated, StartAppend, FileCall
  <2>2. ASSUME NEW by, FlushNext(by) PROVE FileCall \/ UNCHANGED fileVars
    BY <2>2 DEF FlushNext, FileCall
  <2>3. ASSUME NEW kind, NEW by, Trigger(kind, by) PROVE FileCall \/ UNCHANGED fileVars
    BY <2>2, <2>3 DEF Trigger
  <2>4. CASE FlushStep \/ FlushWritten \/ SyncTriggers \/ SyncEnd
    BY <2>2, <2>3, <2>4 DEF FlushStep, FlushWritten, SyncTriggers, SyncEnd, FileCall
  <2>5. ASSUME NEW e \in Execs, QueueCalls(e) \/ QueueReturns(e)
        PROVE  FileCall \/ UNCHANGED fileVars
    BY <2>3, <2>5 DEF QueueCalls, QueueReturns
  <2>6. CASE Rebuild
    <3>1. copied \in Nat
      BY DEF IInv, FileInv, Typed
    <3>2. CASE RebuildCopy
      <4>1. copied + 1 \in Nat /\ (F!MarkBad(copied + 1) \/ UNCHANGED fileVars)
        BY <3>1, <3>2 DEF RebuildCopy
      <4> QED BY <4>1 DEF FileCall
    <3> QED
      BY <2>6, <3>2 DEF Rebuild, RebuildOpen, RebuildClosed, RebuildFill, RebuildGivesUp,
         RebuildRenames, RebuildCompletes, FileCall
  <2>7. ASSUME NEW from \in 0..MaxSize, NEW to \in 0..MaxSize, Push(from, to)
        PROVE  UNCHANGED fileVars
    BY <2>7 DEF Push
  <2>8. ASSUME NEW dispose \in BOOLEAN, Sync(dispose) PROVE UNCHANGED fileVars
    BY <2>8 DEF Sync
  <2>9. CASE Timer \/ ForceSync \/ Dispose \/ UNCHANGED vars
    BY <2>9 DEF Timer, ForceSync, Dispose, vars
  <2> QED BY <2>1, <2>4, <2>5, <2>6, <2>7, <2>8, <2>9 DEF Next
<1> QED BY <1>1, <1>2, <1>3, <1>4

\* What a flush takes out of memory are bytes of the download.
LEMMA FlushTypes ==
    ASSUME IInv, BufferTypes, FileTypes, NEW by, FlushNext(by)
    PROVE  refused' \subseteq Bytes
<1>1. CASE refused' = refused
  BY <1>1 DEF BufferTypes, Flags
<1>2. CASE refused' # refused
  <2>1. FirstInMemory(list) \in DOMAIN list
    BY <1>2, FirstLemma DEF FlushNext, IInv, FileInv, ListIsSorted, Sorted
  <2> QED BY <1>2, <2>1, ListBytes DEF FlushNext, BufferTypes, Flags
<1> QED BY <1>1, <1>2

LEMMA TriggerTypes ==
    ASSUME IInv, BufferTypes, FileTypes, NEW kind, NEW by, Trigger(kind, by)
    PROVE  refused' \subseteq Bytes /\ manual' \in BOOLEAN /\ UNCHANGED hasError
<1>1. CASE FlushNext(by)
  BY <1>1, FlushTypes DEF Trigger, BufferTypes, Flags, trigVars
<1> QED BY <1>1 DEF Trigger, BufferTypes, Flags, trigVars

LEMMA DamagedTypes ==
    ASSUME IInv, BufferTypes, RebuildCopy
    PROVE  rotten' \subseteq 1..written /\ written' = written
<1>1. copied \in Nat /\ sections \in Seq(Parts) /\ trig.at = "copy"
  BY DEF IInv, FileInv, Typed, RebuildCopy
<1>2. copied + 1 \in DOMAIN sections
  BY <1>1 DEF RebuildCopy
<1>3. sections[copied + 1].id \in 1..written
  <2>1. Late /\ ~complete
    BY <1>1, LateLemma DEF None
  <2>2. sections[copied + 1].at \in DOMAIN recs /\ IsSection(sections[copied + 1].at)
        /\ recs[sections[copied + 1].at].id = sections[copied + 1].id
    BY <1>2, <2>1 DEF IInv, FileInv, SavedIsFiled, Recorded, IsSection
  <2> QED BY <2>2 DEF IInv, FileInv, SectionsAreApart
<1>4. rotten' = rotten \/ rotten' = rotten \union {sections[copied + 1].id}
  BY DEF RebuildCopy, Damaged
<1>5. written' = written
  BY DEF RebuildCopy, F!MarkBad, fileVars
<1> QED BY <1>3, <1>4, <1>5 DEF BufferTypes, Flags

LEMMA BufferTypesStep == IInv /\ FileTypes /\ BufferTypes /\ [Next]_vars => BufferTypes'
<1> SUFFICES ASSUME IInv, FileTypes, BufferTypes, [Next]_vars PROVE BufferTypes'
  OBVIOUS
<1>0. rotten \subseteq 1..written /\ (written' = written \/ written' = written + 1)
      /\ written \in Nat
  BY FileTypesStep DEF BufferTypes, Flags, FileTypes
<1>1. CASE UNCHANGED vars
  BY <1>1 DEF vars, bufVars, histVars, diskVars, fileVars, trigVars, BufferTypes, Flags
<1>2. CASE Start
  <2>1. /\ UNCHANGED <<rotten, owed, refused, loose, manual, complete, hasError>>
        /\ timer' \in {timer, TRUE}
        /\ life' \in {"new", "opened", "creating", "up", "failed"}
    BY <1>2 DEF Start, StartOpen, StartCreate, StartCreated, StartAppend, trigVars, diskVars,
                histVars
  <2>2. timer' \in BOOLEAN
    BY <2>1 DEF BufferTypes, Flags
  <2> QED BY <1>0, <2>1, <2>2 DEF BufferTypes, Flags
<1>3. ASSUME NEW from \in 0..MaxSize, NEW to \in 0..MaxSize, Push(from, to) PROVE BufferTypes'
  BY <1>0, <1>3 DEF Push, BufferTypes, Flags, trigVars, diskVars, histVars
<1>4. CASE Timer \/ ForceSync
  <2>1. /\ UNCHANGED <<rotten, owed, refused, loose, life, timer, complete, hasError>>
        /\ manual' \in {manual, TRUE}
    BY <1>4 DEF Timer, ForceSync, trigVars, diskVars, histVars, bufVars
  <2>2. manual' \in BOOLEAN
    BY <2>1 DEF BufferTypes, Flags
  <2> QED BY <1>0, <2>1, <2>2 DEF BufferTypes, Flags
<1>5. ASSUME NEW dispose \in BOOLEAN, Sync(dispose) PROVE BufferTypes'
  <2>1. owed' \subseteq Bytes
    BY <1>5, ListBytes DEF Sync, BufferTypes, Flags
  <2> QED BY <1>0, <1>5, <2>1 DEF Sync, BufferTypes, Flags, trigVars, diskVars, bufVars
<1>6. ASSUME NEW e \in Execs, QueueCalls(e) PROVE BufferTypes'
  <2>1. refused' \subseteq Bytes /\ manual' \in BOOLEAN /\ UNCHANGED hasError
    BY <1>6, TriggerTypes DEF QueueCalls, BufferTypes, Flags, trigVars
  <2> QED BY <1>0, <1>6, <2>1 DEF QueueCalls, BufferTypes, Flags
<1>7. ASSUME NEW e \in Execs, QueueReturns(e) PROVE BufferTypes'
  BY <1>0, <1>7 DEF QueueReturns, BufferTypes, Flags, trigVars, diskVars, histVars, bufVars
<1>8. CASE FlushStep
  BY <1>0, <1>8, FlushTypes DEF FlushStep, BufferTypes, Flags
<1>9. CASE FlushWritten \/ SyncEnd
  BY <1>0, <1>9 DEF FlushWritten, SyncEnd, BufferTypes, Flags, trigVars, diskVars, histVars, bufVars
<1>10. CASE SyncTriggers
  <2>1. refused' \subseteq Bytes /\ manual' \in BOOLEAN /\ UNCHANGED hasError
    BY <1>10, TriggerTypes DEF SyncTriggers, BufferTypes, Flags, trigVars
  <2> QED BY <1>0, <1>10, <2>1 DEF SyncTriggers, BufferTypes, Flags
<1>11. CASE Rebuild
  <2>1. CASE RebuildCopy
    <3>1. rotten' \subseteq 1..written'
      BY <2>1, DamagedTypes
    <3>2. owed' \subseteq Bytes /\ hasError' \in BOOLEAN
      BY <2>1 DEF RebuildCopy, BufferTypes, Flags
    <3> QED BY <2>1, <3>1, <3>2 DEF RebuildCopy, BufferTypes, Flags
  <2>2. CASE RebuildFill
    <3>1. loose' \subseteq Bytes
      <4>1. CASE FirstInMemory(list) = 0
        BY <2>2, <4>1 DEF RebuildFill, BufferTypes, Flags
      <4>2. CASE FirstInMemory(list) # 0
        <5>1. FirstInMemory(list) \in DOMAIN list
          BY <4>2, FirstLemma DEF IInv, FileInv, ListIsSorted, Sorted
        <5> QED BY <2>2, <4>2, <5>1, ListBytes DEF RebuildFill, BufferTypes, Flags
      <4> QED BY <4>1, <4>2
    <3> QED BY <1>0, <2>2, <3>1 DEF RebuildFill, BufferTypes, Flags
  <2>3. CASE RebuildOpen
    <3>1. hasError' \in BOOLEAN
      BY <2>3 DEF RebuildOpen
    <3> QED BY <1>0, <2>3, <3>1 DEF RebuildOpen, BufferTypes, Flags, histVars, bufVars
  <2>4. CASE RebuildClosed \/ RebuildGivesUp \/ RebuildRenames \/ RebuildCompletes
    <3>1. /\ UNCHANGED <<rotten, owed, refused, loose, life, manual, hasError>>
          /\ timer' \in {timer, FALSE} /\ complete' \in {complete, TRUE}
      BY <2>4 DEF RebuildClosed, RebuildGivesUp, RebuildRenames, RebuildCompletes, histVars,
                  bufVars, diskVars
    <3>2. timer' \in BOOLEAN /\ complete' \in BOOLEAN
      BY <3>1 DEF BufferTypes, Flags
    <3> QED BY <1>0, <3>1, <3>2 DEF BufferTypes, Flags
  <2> QED BY <1>11, <2>1, <2>2, <2>3, <2>4 DEF Rebuild
<1>12. CASE Dispose \/ DisposeEnd
  <2>1. /\ UNCHANGED <<rotten, owed, refused, loose, manual, complete, hasError>>
        /\ timer' \in {timer, FALSE} /\ life' \in {"disposing", "disposed"}
    BY <1>12 DEF Dispose, DisposeEnd, trigVars, diskVars, histVars
  <2>2. timer' \in BOOLEAN
    BY <2>1 DEF BufferTypes, Flags
  <2> QED BY <1>0, <2>1, <2>2 DEF BufferTypes, Flags
<1>13. CASE Crash \/ Renew
  <2>1. RestartedBuffer /\ rotten' = rotten
    BY <1>13 DEF Crash, Renew, diskVars
  <2>2. Flags'
    BY <2>1 DEF RestartedBuffer, Flags
  <2>3. /\ life' = "new" /\ owed' = {} /\ refused' = {} /\ loose' = {}
    BY <2>1 DEF RestartedBuffer
  <2> QED BY <1>0, <2>1, <2>2, <2>3 DEF BufferTypes, Flags
<1> QED
  BY <1>1, <1>2, <1>3, <1>4, <1>5, <1>6, <1>7, <1>8, <1>9, <1>10, <1>11, <1>12, <1>13 DEF Next

-----------------------------------------------------------------------------
(* The theorems. *)

\* What push() received and the list calls written is never forgotten silently
\* (index.ts, writeCache(), __rebuildFinalFile()).
THEOREM NothingForgotten == Spec => []FiledIsKept
<1>1. IInv => FiledIsKept
  BY DEF IInv, FileInv, SavedIsFiled, Late, Writing, FiledIsKept
<1> QED BY <1>1, IInvHolds, PTL

\* A byte of the final file is wrong only if its write was refused (index.ts,
\* __rebuildFinalFile()): when the rebuild ends without a bad part, every byte is
\* in a part that was copied, or was put into the new file from memory.
THEOREM FinalFileIsRight == Spec => WrongOnlyIfRefused
<1> DEFINE Correct == target' # target => \A b \in Bytes : target'[b] = "good" \/ b \in refused
<1>1. IInv /\ [Next]_vars => [Correct]_vars
  <2> SUFFICES ASSUME IInv, [Next]_vars, target' # target
               PROVE  \A b \in Bytes : target'[b] = "good" \/ b \in refused
    OBVIOUS
  <2>1. RebuildRenames
    <3>1. ~UNCHANGED vars
      BY DEF vars, diskVars
    <3> QED
      BY <3>1 DEF Next, Start, StartOpen, StartCreate, StartCreated, StartAppend, Push, Timer,
         ForceSync, Sync, QueueCalls, QueueReturns, FlushStep, FlushWritten, SyncTriggers,
         SyncEnd, Rebuild, RebuildOpen, RebuildClosed, RebuildFill, RebuildCopy,
         RebuildGivesUp, RebuildCompletes, Dispose, DisposeEnd, Crash, Renew, diskVars
  <2>2. trig.at = "copy" /\ copied >= Len(sections) /\ ~hasError /\ target' = temp
    BY <2>1 DEF RebuildRenames
  <2>3. FileInv /\ Late /\ ~complete
    BY <2>2, LateLemma DEF IInv, None
  <2>4. Bytes \subseteq Filed(list) /\ loose \subseteq Bytes
    <3>1. Full /\ InMemory(list) = {}
      BY <2>2, <2>3 DEF FileInv, TriggerStands
    <3>2. Filed(list) \subseteq Bytes /\ loose \subseteq Filed(list)
      BY <2>3, PlaceLemma DEF FileInv, ListIsSorted, SavedIsFiled
    <3> QED BY <3>1, <3>2 DEF Full
  <2>5. Filed(list) \subseteq Saved(sections) \union refused \union loose
    <3>1. Writing = {}
      BY <2>2 DEF Writing
    <3> QED BY <2>3, <3>1 DEF FileInv, SavedIsFiled
  <2>6. \A b \in Saved(sections) : temp[b] = "good"
    <3>1. \A k \in DOMAIN sections : k <= copied
      BY <2>2, <2>3 DEF FileInv, Typed
    <3>2. \A k \in DOMAIN sections : \A b \in Span(data[sections[k].id]) : temp[b] = "good"
      BY <2>2, <2>3, <3>1 DEF FileInv, CopiedIsGood
    <3> QED BY <3>2 DEF Saved
  <2>7. \A b \in loose : temp[b] = "good"
    BY <2>2, <2>3 DEF FileInv, LooseIsGood
  <2> QED BY <2>2, <2>4, <2>5, <2>6, <2>7
<1>2. Spec => [][Correct]_vars
  BY <1>1, IInvHolds, PTL DEF Spec
<1> QED BY <1>2 DEF WrongOnlyIfRefused

\* sync() resolves with nothing left in memory of what was there when it was called
\* (index.ts, sync()).
THEOREM SyncIsDone == Spec => SyncFlushes
<1> DEFINE Done == sync.at # "done" /\ sync'.at = "done" => owed \intersect InMemory(list) = {}
<1>1. IInv /\ [Next]_vars => [Done]_vars
  <2> SUFFICES ASSUME IInv, [Next]_vars, sync.at # "done", sync'.at = "done"
               PROVE  owed \intersect InMemory(list) = {}
    OBVIOUS
  <2>1. OwedIsFlushed
    BY DEF IInv
  <2>2. SyncEnd \/ \E dispose \in BOOLEAN : Sync(dispose)
    <3>1. ~UNCHANGED vars
      BY DEF vars
    <3>2. sync' # sync
      OBVIOUS
    <3>3. ~FlushStep /\ ~SyncTriggers
      <4>1. sync \in Syncs
        BY <2>1 DEF OwedIsFlushed
      <4> QED BY <4>1 DEF FlushStep, SyncTriggers, Syncs
    <3>4. ~Crash /\ ~Renew
      BY DEF Crash, Renew, RestartedBuffer, None
    <3> QED
      BY <3>1, <3>2, <3>3, <3>4 DEF Next, Start, StartOpen, StartCreate, StartCreated,
         StartAppend, Push, Timer, ForceSync, QueueCalls, QueueReturns, FlushWritten,
         Rebuild, RebuildOpen, RebuildClosed, RebuildFill, RebuildCopy,
         RebuildGivesUp, RebuildRenames, RebuildCompletes, Dispose, DisposeEnd
  <2>3. CASE SyncEnd
    BY <2>1, <2>3 DEF SyncEnd, OwedIsFlushed
  <2>4. CASE \E dispose \in BOOLEAN : Sync(dispose)
    <3>1. complete
      BY <2>4 DEF Sync
    <3> QED BY <2>1, <3>1 DEF OwedIsFlushed
  <2> QED BY <2>2, <2>3, <2>4
<1>2. Spec => [][Done]_vars
  BY <1>1, IInvHolds, PTL DEF Spec
<1> QED BY <1>2 DEF SyncFlushes

\* AsyncLock never throws for what start(), a flush or a rebuild calls, and each of
\* them is resumed by the end of its own call (AsyncLock.ts, index.ts).
THEOREM LocksAreFree == Spec => []CallsFindTheFile
<1>1. IInv /\ CallInv /\ DisposeIsLast => CallsFindTheFile
  <2> SUFFICES ASSUME IInv, CallInv, DisposeIsLast PROVE CallsFindTheFile
    OBVIOUS
  <2>1. trig.at # None => Late /\ ~complete /\ life # "disposed"
    BY LateLemma DEF DisposeIsLast, QuietAfterDispose, NoTrigger
  <2>2. FileIsThere /\ StartCalls /\ TriggerCalls
    BY DEF CallInv
  <2>3. trig.at # None =>
            /\ op.call = Awaiting /\ ~F!NothingThere /\ exists
            /\ fileLock = "write" => writer
            /\ fileLock = "emit" <=> trig.at \in {"fill", "copy", "destroy"}
            /\ fileLock \in {None, "write", "emit"}
    BY <2>1, <2>2 DEF TriggerCalls, F!NothingThere
  <2>4. life = "opened" => fileLock = None /\ op.call = None /\ (meta => ~F!NothingThere)
    BY <2>2 DEF FileIsThere, StartCalls, Late, F!NothingThere
  <2>5. life = "up" /\ fileLock = "write" /\ trig.at \in {None, "flush"} =>
            writer /\ op.call = None
    BY <2>2 DEF TriggerCalls, Late, Awaiting, None
  <2> QED BY <2>3, <2>4, <2>5 DEF CallsFindTheFile, Awaiting, None
<1> QED BY <1>1, IInvHolds, CallInvHolds, PTL

\* dispose() awaits the flush that is on its way, and nothing begins after it.
THEOREM DisposedIsQuiet == Spec => []QuietAfterDispose
  BY CallInvHolds, PTL DEF DisposeIsLast

\* In all the processes no byte is written to the cache file twice.
THEOREM WrittenOnce == Spec => []SectionsAreApart
<1>1. IInv => SectionsAreApart
  BY DEF IInv, FileInv
<1> QED BY <1>1, IInvHolds, PTL

\* Every byte that was found in the cache file is known to the list, so that it
\* is not asked for again, and an instance that writes has lost nothing.
THEOREM FoundAgain ==
    Spec => [](life = "up" /\ fileLock = "write" =>
                   /\ \A i \in DOMAIN recs :
                          recs[i].kind = "section" => Span(data[recs[i].id]) \subseteq Filed(list)
                   /\ refused = {})
<1> DEFINE Known == life = "up" /\ fileLock = "write" =>
                   /\ \A i \in DOMAIN recs :
                          recs[i].kind = "section" => Span(data[recs[i].id]) \subseteq Filed(list)
                   /\ refused = {}
<1>1. IInv => Known
  BY DEF IInv, FileInv, WriterKnowsAll, Late, IsSection
<1>2. Spec => []Known
  BY <1>1, IInvHolds, PTL
<1> QED BY <1>2

\* The queue keeps its promises in the hands of SectionBuffer: two triggers are
\* never called at once, and queue.promise is the one that runs.
THEOREM OneTriggerAtATime == Spec => [](Q!OneCallAtATime /\ Q!PromiseCoversWork)
<1>1. IInv => Q!OneCallAtATime /\ Q!PromiseCoversWork
  BY DEF IInv, QP!IInv, QP!PromiseCoversWork, QP!Live, Q!OneCallAtATime, Q!PromiseCoversWork,
         Q!Live
<1> QED BY <1>1, IInvHolds, PTL

\* No call of trigger() is skipped because of another one (index.ts, trigger(), whose
\* lock is weak): the queue serialises the flushes, and sync() locks and awaits it.
THEOREM LockIsNeverMet == Spec => []TriggersNeverMeet
<1>1. IInv /\ HolderIsAlone => TriggersNeverMeet
  <2> SUFFICES ASSUME IInv, HolderIsAlone PROVE TriggersNeverMeet
    OBVIOUS
  <2>1. ASSUME NEW e \in Execs, pc[e] = "immediate" PROVE trig = NoTrigger
    <3>1. /\ trig \in Triggers /\ (trig.at = None <=> trig.by = None)
          /\ trig.by \in Execs => pc[trig.by] = "calling"
      BY DEF IInv, FileInv, Typed, OwedIsFlushed
    <3>2. trig.by \notin {"sync", "start"}
      BY <2>1 DEF HolderIsAlone, Holds, Q!Live
    <3>3. trig.by \notin Execs
      BY <2>1, <3>1 DEF IInv, QP!IInv, QP!PromiseCoversWork, QP!Live
    <3> QED BY <3>1, <3>2, <3>3 DEF Triggers, NoTrigger
  <2> QED BY <2>1, LockIsFree DEF TriggersNeverMeet
<1> QED BY <1>1, IInvHolds, AloneHolds, PTL

\* Every variable keeps its type.
THEOREM TypeCorrect == Spec => []TypeOK
<1>1. Init => FileTypes /\ BufferTypes
  <2> SUFFICES ASSUME Init PROVE FileTypes /\ BufferTypes
    OBVIOUS
  <2>1. op = [call |-> None, emit |-> FALSE]
    BY DEF Init, F!Init, F!FreshInstance, F!Idle, F!None, None
  <2>2. op \in [call : F!Calls, emit : BOOLEAN]
    BY <2>1 DEF F!Calls, F!None, None
  <2>3. /\ exists = FALSE /\ tail = None /\ inst = "new" /\ meta = FALSE
        /\ fileLock = None /\ writer = FALSE /\ written = 0 /\ crashes = 0
    BY DEF Init, F!Init, F!FreshInstance, F!None, None
  <2>4. FileTypes
    <3>1. exists \in BOOLEAN /\ meta \in BOOLEAN /\ writer \in BOOLEAN
      BY <2>3
    <3>2. 0 \in 0..MaxSections /\ 0 \in 0..MaxCrashes
      BY BufferAssumption
    <3> QED BY <2>2, <2>3, <3>1, <3>2 DEF FileTypes
  <2>5. Flags
    BY DEF Init, FreshBuffer, Flags
  <2> QED BY <2>4, <2>5 DEF Init, FreshBuffer, BufferTypes
<1>2. IInv /\ FileTypes /\ BufferTypes /\ [Next]_vars => (FileTypes /\ BufferTypes)'
  BY FileTypesStep, BufferTypesStep
<1>3. IInv /\ FileTypes /\ BufferTypes => TypeOK
  <2> SUFFICES ASSUME IInv, FileTypes, BufferTypes PROVE TypeOK
    OBVIOUS
  <2>1. F!TypeOK
    BY DEF IInv, FileInv, Typed, FileTypes, F!TypeOK, F!None, None
  <2>2. Q!TypeOK
    BY DEF IInv, QP!IInv, QP!TypeOK, QP!States, Q!TypeOK, Q!States
  <2> QED
    BY <2>1, <2>2 DEF IInv, FileInv, Typed, OwedIsFlushed, BufferTypes, Flags, Triggers, Syncs, TypeOK
<1> QED BY <1>1, <1>2, <1>3, IInvHolds, PTL DEF Spec

=============================================================================
