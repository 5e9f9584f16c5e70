------------------------------ MODULE MemoryList ------------------------------
(***************************************************************************)
(* @idlebox/section-buffer, common/MemoryCacheController.ts: the list of   *)
(* the received ranges of a download, as operators on the list.  A range   *)
(* is held in memory (`buffers' is set) or written to the cache file; the  *)
(* bytes themselves are left out, positions are cells.                     *)
(***************************************************************************)
EXTENDS Integers, Sequences, SequencesExt

CONSTANT MaxSize        \* this.maxSize

ASSUME MaxSizeAssumption == MaxSize \in Nat

Range2(from, to) == from .. (to - 1)

Item(from, to, inMemory) == [start |-> from, end |-> to, memory |-> inMemory]

\* The merge of an item with its successor, at 1-based position i; a position
\* outside the list is ignored.
Merge(l, i) ==
    IF /\ i >= 1
       /\ i < Len(l)
       /\ l[i].end = l[i + 1].start
       /\ l[i].memory = l[i + 1].memory
    THEN SubSeq(l, 1, i - 1) \o <<[l[i] EXCEPT !.end = l[i + 1].end]>>
            \o SubSeq(l, i + 2, Len(l))
    ELSE l

\* The position a new range goes after: the last item that ends before it.
Before(l, from) ==
    LET below == {i \in DOMAIN l : l[i].end <= from}
    IN  IF below = {} THEN 0 ELSE Max(below)

IsFirst(l, to) == IF l = <<>> THEN TRUE ELSE l[1].start >= to

\* The calls push() takes without throwing, for a buffer of (to - from) bytes.
Accepts(l, from, to) ==
    /\ 0 <= from /\ from < to /\ to <= MaxSize
    /\ \/ IsFirst(l, to)
       \/ LET i == Before(l, from)
          IN  i > 0 /\ (i < Len(l) => to <= l[i + 1].start)

\* Mutant: only the new range's successor is merged.
PushListOneSide(l, from, to, inMemory) ==
    LET new == Item(from, to, inMemory)
        i == Before(l, from)
    IN  IF IsFirst(l, to)
        THEN Merge(<<new>> \o l, 1)
        ELSE Merge(InsertAt(l, i + 1, new), i + 1)

\* push() of an accepted range: before the first item or after item i, merged
\* with the right neighbour, then with the left one.
PushList(l, from, to, inMemory) ==
    LET new == Item(from, to, inMemory)
        i == Before(l, from)
    IN  IF IsFirst(l, to)
        THEN Merge(<<new>> \o l, 1)
        ELSE Merge(Merge(InsertAt(l, i + 1, new), i + 1), i)

FirstInMemory(l) == SelectInSeq(l, LAMBDA item : item.memory)

\* shift(): the first range in memory becomes a written one.
ShiftList(l) ==
    LET i == FirstInMemory(l)
    IN  Merge(Merge([l EXCEPT ![i].memory = FALSE], i), i - 1)

\* What a hole leaves of one item: all of it, nothing, the part behind the hole,
\* the part in front of it, or both.
Cut(item, from, to) ==
    LET front == [item EXCEPT !.end = from]
        back == [item EXCEPT !.start = to]
    IN  IF item.start >= to \/ item.end <= from THEN <<item>>
        ELSE IF from <= item.start /\ to >= item.end THEN <<>>
        ELSE IF from <= item.start THEN <<back>>
        ELSE IF to >= item.end THEN <<front>>
        ELSE <<front, back>>

\* splice(): pieces take the place of the i-th item.
Spliced(l, i, pieces) == SubSeq(l, 1, i - 1) \o pieces \o SubSeq(l, i + 1, Len(l))

\* Mutant: the walk goes forward, past what moves up when an item is taken out.
PunchListForward(l, from, to) ==
    LET walk[n \in 0..Len(l)] ==
            IF n = 0 THEN l
            ELSE IF n > Len(walk[n - 1]) THEN walk[n - 1]
            ELSE Spliced(walk[n - 1], n, Cut(walk[n - 1][n], from, to))
    IN  walk[Len(l)]

\* punchHole() takes a range out of the written items; it throws on one that is
\* in memory.
CanPunch(l, from, to) ==
    \A i \in DOMAIN l :
        l[i].start < to /\ from < l[i].end => ~l[i].memory

\* The loop goes from the last item to the first and changes the list it walks;
\* walk[n] is the list when the first n items are left to look at.
PunchList(l, from, to) ==
    LET walk[n \in 0..Len(l)] ==
            IF n = Len(l) THEN l
            ELSE Spliced(walk[n + 1], n + 1, Cut(walk[n + 1][n + 1], from, to))
    IN  walk[0]

\* isFullfilled(): the items follow each other from 0 to the end.
IsFullfilled(l) ==
    /\ l # <<>> => l[1].start = 0 /\ l[Len(l)].end = MaxSize
    /\ \A i \in 1..(Len(l) - 1) : l[i].end = l[i + 1].start
    /\ l = <<>> => MaxSize = 0

ItemSize(item) == item.end - item.start

\* _calculateUsage(): all bytes received, and those of them in memory, summed up
\* item by item.
Usage(l) ==
    LET upTo[n \in 0..Len(l)] ==
            IF n = 0 THEN [size |-> 0, memory |-> 0]
            ELSE [size   |-> upTo[n - 1].size + ItemSize(l[n]),
                  memory |-> upTo[n - 1].memory + (IF l[n].memory THEN ItemSize(l[n]) ELSE 0)]
    IN  upTo[Len(l)]
=============================================================================
