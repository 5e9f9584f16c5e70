------------------------------ MODULE MemoryCache ------------------------------
(***************************************************************************)
(* MemoryCacheController as a machine: its list and the figures it caches, *)
(* under any sequence of the calls SectionBuffer makes.                    *)
(***************************************************************************)
EXTENDS MemoryList

VARIABLES
    list,       \* this.list
    usage,      \* this._size and this._memoryUsage
    answer      \* what the last call returned or did, or that it threw

vars == <<list, usage, answer>>

Init ==
    /\ list = <<>>
    /\ usage = Usage(<<>>)
    /\ answer = <<"none">>

\* push(): every check comes before the first assignment.
Push(from, to, inMemory) ==
    \/ /\ Accepts(list, from, to)
       /\ list' = PushList(list, from, to, inMemory)
       /\ usage' = Usage(list')
       /\ answer' = <<"taken">>
    \/ /\ ~Accepts(list, from, to)
       /\ answer' = <<"thrown">>
       /\ UNCHANGED <<list, usage>>

\* Mutant: the figures are those from before the chunk was taken out.
ShiftStale ==
    \/ /\ FirstInMemory(list) = 0
       /\ answer' = <<"empty">>
       /\ UNCHANGED <<list, usage>>
    \/ /\ FirstInMemory(list) # 0
       /\ LET item == list[FirstInMemory(list)] IN answer' = <<"chunk", item.start, item.end>>
       /\ list' = ShiftList(list)
       /\ UNCHANGED usage

\* shift()
Shift ==
    \/ /\ FirstInMemory(list) = 0
       /\ answer' = <<"empty">>
       /\ UNCHANGED <<list, usage>>
    \/ /\ FirstInMemory(list) # 0
       /\ LET item == list[FirstInMemory(list)] IN answer' = <<"chunk", item.start, item.end>>
       /\ list' = ShiftList(list)
       /\ usage' = Usage(list')

\* punchHole(), as the owner may call it: nothing in the hole is in memory.
PunchHole(from, to) ==
    /\ CanPunch(list, from, to)
    /\ list' = PunchList(list, from, to)
    /\ usage' = Usage(list')
    /\ answer' = <<"hole", from, to>>

Next ==
    \/ \E from \in 0..MaxSize, to \in 0..(MaxSize + 1), inMemory \in BOOLEAN :
           Push(from, to, inMemory)
    \/ Shift
    \/ \E from, to \in 0..MaxSize : from < to /\ PunchHole(from, to)

Spec == Init /\ [][Next]_vars

-----------------------------------------------------------------------------
(* Properties. *)

\* The list stays sorted, without overlaps and empty items, and neighbours that
\* could be one item are one: check() never throws, and a chunk that is flushed
\* is as long as it can be.
Canonical ==
    /\ \A i \in DOMAIN list : 0 <= list[i].start /\ list[i].start < list[i].end
                              /\ list[i].end <= MaxSize
    /\ \A i \in 1..(Len(list) - 1) :
           \/ list[i].end < list[i + 1].start
           \/ list[i].end = list[i + 1].start /\ list[i].memory # list[i + 1].memory

WhereIs(b) ==
    IF \E i \in DOMAIN list : b \in Range2(list[i].start, list[i].end)
    THEN IF \E i \in DOMAIN list :
                b \in Range2(list[i].start, list[i].end) /\ list[i].memory
         THEN "memory" ELSE "file"
    ELSE "missing"

\* The cached figures, which decide when the cache is flushed, and isFullfilled(),
\* which decides when the final file is built, count each byte once.
FiguresAreRight ==
    LET received == {b \in 0..(MaxSize - 1) : WhereIs(b) # "missing"}
    IN  /\ usage.size = Cardinality(received)
        /\ usage.memory = Cardinality({b \in received : WhereIs(b) = "memory"})
        /\ IsFullfilled(list) <=> received = 0..(MaxSize - 1)

\* The list implements the map from bytes to places: a push is refused exactly
\* when it overlaps what is there, and no byte is lost or taken twice.
Map == INSTANCE MemoryMap WITH
    where <- [b \in 0..(MaxSize - 1) |-> WhereIs(b)]

ImplementsMap == Map!Spec
=============================================================================
