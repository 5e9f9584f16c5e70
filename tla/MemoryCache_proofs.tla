-------------------------- MODULE MemoryCache_proofs --------------------------
(***************************************************************************)
(* What MemoryCacheController promises, for downloads of any size: its     *)
(* list stays canonical, its figures count every byte once, and it is the  *)
(* map from bytes to places that MemoryMap describes.                      *)
(***************************************************************************)
EXTENDS MemoryCache, MemoryList_proofs

IInv ==
    /\ Sorted(list)
    /\ Mergeable(list) = {}

-----------------------------------------------------------------------------
(* The machine. *)

LEMMA InitIInv == Init => IInv
<1> SUFFICES ASSUME Init PROVE IInv
  OBVIOUS
<1>1. list = <<>>
  BY DEF Init
<1>2. list \in Seq(Items) /\ Len(list) = 0 /\ DOMAIN list = {}
  BY <1>1
<1>3. Sorted(list)
  BY <1>2 DEF Sorted
<1>4. Mergeable(list) = {}
  BY <1>2 DEF Mergeable
<1> QED BY <1>3, <1>4 DEF IInv

LEMMA NextIInv == IInv /\ [Next]_vars => IInv'
<1> SUFFICES ASSUME IInv, [Next]_vars PROVE Sorted(list') /\ Mergeable(list') = {}
  BY DEF IInv, Sorted, Mergeable
<1>1. Sorted(list) /\ Mergeable(list) = {}
  BY DEF IInv
<1>2. CASE list' = list
  BY <1>1, <1>2
<1>3. ASSUME NEW from \in 0..MaxSize, NEW to \in 0..(MaxSize + 1), NEW inMemory \in BOOLEAN,
             Push(from, to, inMemory)
      PROVE  Sorted(list') /\ Mergeable(list') = {}
  <2>1. CASE Accepts(list, from, to)
    <3>1. list' = PushList(list, from, to, inMemory)
      BY <1>3, <2>1 DEF Push
    <3>2. from \in Nat /\ to \in Nat
      BY MaxSizeAssumption
    <3> QED BY <1>1, <2>1, <3>1, <3>2, PushKeeps
  <2>2. CASE ~Accepts(list, from, to)
    BY <1>2, <1>3, <2>2 DEF Push
  <2> QED BY <2>1, <2>2
<1>4. ASSUME Shift PROVE Sorted(list') /\ Mergeable(list') = {}
  <2>1. CASE FirstInMemory(list) # 0
    <3>1. list' = ShiftList(list)
      BY <1>4, <2>1 DEF Shift
    <3> QED BY <1>1, <2>1, <3>1, ShiftKeeps
  <2>2. CASE FirstInMemory(list) = 0
    BY <1>2, <1>4, <2>2 DEF Shift
  <2> QED BY <2>1, <2>2
<1>5. ASSUME NEW from \in 0..MaxSize, NEW to \in 0..MaxSize, from < to, PunchHole(from, to)
      PROVE  Sorted(list') /\ Mergeable(list') = {}
  <2>1. list' = PunchList(list, from, to)
    BY <1>5 DEF PunchHole
  <2>2. from \in Nat /\ to \in Nat
    BY MaxSizeAssumption
  <2> QED BY <1>1, <1>5, <2>1, <2>2, PunchKeeps
<1>6. CASE UNCHANGED vars
  BY <1>2, <1>6 DEF vars
<1> QED BY <1>3, <1>4, <1>5, <1>6 DEF Next

LEMMA IInvCanonical == IInv => Canonical
<1> SUFFICES ASSUME IInv PROVE Canonical
  OBVIOUS
<1>1. list \in Seq(Items) /\ Len(list) \in Nat /\ DOMAIN list = 1..Len(list)
  BY DEF IInv, Sorted
<1>2. \A i \in DOMAIN list : 0 <= list[i].start /\ list[i].start < list[i].end
                             /\ list[i].end <= MaxSize
  <2> SUFFICES ASSUME NEW i \in DOMAIN list
               PROVE  0 <= list[i].start /\ list[i].start < list[i].end
                      /\ list[i].end <= MaxSize
    OBVIOUS
  <2>1. list[i] \in Items
    BY <1>1
  <2>2. list[i].start \in Nat
    BY <2>1, ItemLemma
  <2>3. list[i].start < list[i].end /\ list[i].end <= MaxSize
    BY DEF IInv, Sorted
  <2> QED BY <2>2, <2>3
<1>3. ASSUME NEW i \in 1..(Len(list) - 1)
      PROVE  \/ list[i].end < list[i + 1].start
             \/ list[i].end = list[i + 1].start /\ list[i].memory # list[i + 1].memory
  <2>1. i \in DOMAIN list /\ i + 1 \in DOMAIN list /\ i < i + 1
    BY <1>1
  <2>2. list[i].end <= list[i + 1].start
    BY <2>1 DEF IInv, Sorted
  <2>3. list[i].end \in Nat /\ list[i + 1].start \in Nat
    <3>1. list[i] \in Items /\ list[i + 1] \in Items
      BY <1>1, <2>1
    <3> QED BY <3>1, ItemLemma
  <2>4. ~(list[i].end = list[i + 1].start /\ list[i].memory = list[i + 1].memory)
    BY DEF IInv, Mergeable
  <2> QED BY <2>2, <2>3, <2>4
<1> QED BY <1>2, <1>3 DEF Canonical

LEMMA Invariance == Spec => []IInv
<1> QED BY InitIInv, NextIInv, PTL DEF Spec

\* The list of a download of any size is sorted, without overlaps, and as short
\* as it can be: no call of push(), shift() or punchHole() leaves two neighbours
\* that could be one item, whatever the order of the calls.
THEOREM CanonicalList == Spec => []Canonical
<1> QED BY Invariance, IInvCanonical, PTL

-----------------------------------------------------------------------------
(* The map. *)

Where(l, b) ==
    IF Has(l, b, TRUE) THEN "memory" ELSE IF Has(l, b, FALSE) THEN "file" ELSE "missing"

LEMMA WhereNow ==
    ASSUME Sorted(list), NEW b \in Int
    PROVE  WhereIs(b) = Where(list, b)
BY InItem DEF WhereIs, Where

LEMMA WhereThen ==
    ASSUME Sorted(list'), NEW b \in Int
    PROVE  WhereIs(b)' = Where(list', b)
BY InItem DEF WhereIs, Where

-----------------------------------------------------------------------------
(* The figures. *)

\* Every call that changes the list computes the figures again.
Cached == usage = Usage(list)

LEMMA CachedStep == Cached /\ [Next]_vars => Cached'
<1> SUFFICES ASSUME Cached, [Next]_vars PROVE usage' = Usage(list')
  BY DEF Cached
<1>1. usage = Usage(list)
  BY DEF Cached
<1>2. (usage' = usage /\ list' = list) \/ usage' = Usage(list')
  BY DEF Next, Push, Shift, PunchHole, vars
<1> QED BY <1>1, <1>2

LEMMA FiguresLemma == IInv /\ Cached => FiguresAreRight
<1> SUFFICES ASSUME IInv, Cached PROVE FiguresAreRight
  OBVIOUS
<1> DEFINE received == {b \in 0..(MaxSize - 1) : WhereIs(b) # "missing"}
           held == {b \in received : WhereIs(b) = "memory"}
<1>1. Sorted(list)
  BY DEF IInv
<1>2. ASSUME NEW b \in 0..(MaxSize - 1)
      PROVE  /\ WhereIs(b) # "missing" <=> b \in Got(list, Len(list))
             /\ WhereIs(b) = "memory" <=> b \in GotInMemory(list, Len(list))
  <2>1. b \in Int
    BY MaxSizeAssumption
  <2> QED BY <1>1, <2>1, WhereNow, GotLemma DEF Where
<1>3. received = Got(list, Len(list)) /\ held = GotInMemory(list, Len(list))
  BY <1>2 DEF Got, GotInMemory
<1>4. usage = Right(list, Len(list))
  BY <1>1, UsageLemma DEF Cached
<1>5. usage.size = Cardinality(received) /\ usage.memory = Cardinality(held)
  BY <1>3, <1>4 DEF Right
<1>6. IsFullfilled(list) <=> received = 0..(MaxSize - 1)
  BY <1>1, <1>3, FullLemma
<1> QED BY <1>5, <1>6 DEF FiguresAreRight

\* The size and the memory usage that are cached are the numbers of bytes that are
\* there and in memory, and isFullfilled() is true exactly when no byte is missing,
\* for a download of any size and after any sequence of calls.
THEOREM FiguresRight == Spec => []FiguresAreRight
<1>1. Init => Cached
  BY DEF Init, Cached
<1>2. Spec => []Cached
  BY <1>1, CachedStep, PTL DEF Spec
<1> QED BY <1>2, Invariance, FiguresLemma, PTL

-----------------------------------------------------------------------------
(* The refinement. *)

LEMMA MapInit == Init => Map!Init
<1> SUFFICES ASSUME Init PROVE Map!Init
  OBVIOUS
<1>1. DOMAIN list = {}
  BY DEF Init
<1>2. \A b \in 0..(MaxSize - 1) : WhereIs(b) = "missing"
  BY <1>1 DEF WhereIs
<1> QED BY <1>2 DEF Init, Map!Init, Map!Bytes

\* What a step changes on the map is what it changes of the list.
LEMMA PushMaps ==
    ASSUME IInv, IInv', NEW from \in 0..MaxSize, NEW to \in 0..(MaxSize + 1),
           NEW inMemory \in BOOLEAN, Push(from, to, inMemory)
    PROVE  Map!Receive(from, to, IF inMemory THEN "memory" ELSE "file")
<1> DEFINE kind == IF inMemory THEN "memory" ELSE "file"
<1>1. Sorted(list) /\ Mergeable(list) = {} /\ Sorted(list')
  BY DEF IInv
<1>2. from \in Nat /\ to \in Nat
  BY MaxSizeAssumption
<1>3. \A b \in 0..(MaxSize - 1) :
          b \in Int /\ WhereIs(b) = Where(list, b) /\ WhereIs(b)' = Where(list', b)
  BY <1>1, WhereNow, WhereThen
<1>4. CASE Accepts(list, from, to)
  <2>1. 0 <= from /\ from < to /\ to <= MaxSize /\ list' = PushList(list, from, to, inMemory)
        /\ answer' = <<"taken">>
    BY <1>4 DEF Accepts, Push
  <2>2. \A b \in from..(to - 1), m \in BOOLEAN : ~Has(list, b, m)
    BY <1>1, <1>2, <1>4, <2>1, AcceptsMissing
  <2>3. \A b \in Int, m \in BOOLEAN :
            Has(list', b, m) <=> Has(list, b, m) \/ (from <= b /\ b < to /\ m = inMemory)
    BY <1>1, <1>2, <1>4, <2>1, PushKeeps
  <2>4. \A b \in from..(to - 1) : b \in 0..(MaxSize - 1) /\ WhereIs(b) = "missing"
    <3>1. \A b \in from..(to - 1) : b \in 0..(MaxSize - 1)
      BY <1>2, <2>1, MaxSizeAssumption
    <3>2. \A b \in from..(to - 1) : Where(list, b) = "missing"
      BY <2>2 DEF Where
    <3> QED BY <1>3, <3>1, <3>2
  <2>5. ASSUME NEW b \in 0..(MaxSize - 1)
        PROVE  WhereIs(b)' = IF b \in from..(to - 1) THEN kind ELSE WhereIs(b)
    <3>1. b \in Int /\ (b \in from..(to - 1) <=> from <= b /\ b < to)
      BY <1>2
    <3>2. CASE b \in from..(to - 1)
      <4>1. ~Has(list, b, TRUE) /\ ~Has(list, b, FALSE)
        BY <2>2, <3>2
      <4>2. Has(list', b, inMemory) /\ \A m \in BOOLEAN : Has(list', b, m) => m = inMemory
        BY <2>3, <3>1, <3>2, <4>1
      <4>3. Where(list', b) = kind
        <5>1. CASE inMemory = TRUE
          BY <4>2, <5>1 DEF Where
        <5>2. CASE inMemory = FALSE
          BY <4>2, <5>2 DEF Where
        <5> QED BY <5>1, <5>2
      <4> QED BY <1>3, <3>2, <4>3
    <3>3. CASE b \notin from..(to - 1)
      <4>1. \A m \in BOOLEAN : Has(list', b, m) <=> Has(list, b, m)
        BY <2>3, <3>1, <3>3
      <4>2. Where(list', b) = Where(list, b)
        BY <4>1 DEF Where
      <4> QED BY <1>3, <3>3, <4>2
    <3> QED BY <3>2, <3>3
  <2> HIDE DEF kind
  <2> QED BY <2>1, <2>4, <2>5 DEF Map!Receive, Map!Bytes, kind
<1>5. CASE ~Accepts(list, from, to)
  <2>1. list' = list /\ answer' = <<"thrown">>
    BY <1>5 DEF Push
  <2>2. \A b \in 0..(MaxSize - 1) : WhereIs(b)' = WhereIs(b)
    BY <1>3, <2>1
  <2>3. ASSUME 0 <= from, from < to, to <= MaxSize
        PROVE  \E b \in from..(to - 1) : b \in 0..(MaxSize - 1) /\ WhereIs(b) # "missing"
    <3>1. PICK b \in from..(to - 1), m \in BOOLEAN : Has(list, b, m)
      BY <1>1, <1>2, <1>5, <2>3, AcceptsMissing
    <3>2. b \in 0..(MaxSize - 1)
      BY <1>2, <2>3, MaxSizeAssumption
    <3>3. Where(list, b) # "missing"
      BY <3>1 DEF Where
    <3> QED BY <1>3, <3>2, <3>3
  <2> QED BY <2>1, <2>2, <2>3 DEF Map!Receive
<1> QED BY <1>4, <1>5

LEMMA ShiftMaps ==
    ASSUME IInv, IInv', Shift
    PROVE  Map!HandOut
<1>1. Sorted(list) /\ Mergeable(list) = {} /\ Sorted(list') /\ list \in Seq(Items)
  BY DEF IInv, Sorted
<1>2. \A b \in 0..(MaxSize - 1) :
          b \in Int /\ WhereIs(b) = Where(list, b) /\ WhereIs(b)' = Where(list', b)
  BY <1>1, WhereNow, WhereThen
<1>3. \A b \in 0..(MaxSize - 1) : WhereIs(b) = "memory" <=> Has(list, b, TRUE)
  BY <1>2 DEF Where
<1>4. CASE FirstInMemory(list) = 0
  <2>1. list' = list /\ answer' = <<"empty">>
    BY <1>4 DEF Shift
  <2>2. \A b \in 0..(MaxSize - 1) : WhereIs(b)' = WhereIs(b)
    BY <1>2, <2>1
  <2>3. \A i \in DOMAIN list : ~list[i].memory
    BY <1>1, <1>4, FirstLemma
  <2>4. \A b \in 0..(MaxSize - 1) : ~Has(list, b, TRUE)
    BY <2>3 DEF Has
  <2>5. \A b \in 0..(MaxSize - 1) : WhereIs(b) # "memory"
    BY <1>3, <2>4
  <2> QED BY <2>1, <2>2, <2>5 DEF Map!HandOut, Map!InMemory, Map!Bytes
<1>5. CASE FirstInMemory(list) # 0
  <2> DEFINE item == list[FirstInMemory(list)]
             from == item.start
             to == item.end
  <2>1. list' = ShiftList(list) /\ answer' = <<"chunk", from, to>>
    BY <1>5 DEF Shift
  <2>2. /\ from \in Nat /\ to \in Nat /\ from < to /\ to <= MaxSize
        /\ \A b \in Int : from <= b /\ b < to => Has(list, b, TRUE)
        /\ \A b \in Int : Has(list, b, TRUE) => from <= b
        /\ ~Has(list, to, TRUE)
    BY <1>1, <1>5, FirstIsRun
  <2>3. \A b \in Int, m \in BOOLEAN :
            Has(list', b, m) <=> IF from <= b /\ b < to THEN m = FALSE ELSE Has(list, b, m)
    BY <1>1, <1>5, <2>1, ShiftKeeps
  <2> HIDE DEF from, to, item
  <2>4. from \in 0..(MaxSize - 1) /\ to \in (from + 1)..MaxSize
    BY <2>2, MaxSizeAssumption
  <2>5. \A b \in from..(to - 1) : b \in 0..(MaxSize - 1) /\ WhereIs(b) = "memory"
    <3>1. \A b \in from..(to - 1) : b \in 0..(MaxSize - 1) /\ b \in Int /\ from <= b /\ b < to
      BY <2>2, MaxSizeAssumption
    <3> QED BY <1>3, <2>2, <3>1
  <2>6. \A b \in 0..(MaxSize - 1) : WhereIs(b) = "memory" => from <= b /\ b # to
    BY <1>2, <1>3, <2>2
  <2>7. from \in from..(to - 1)
    BY <2>2
  <2>8. Map!FirstRun(from, to)
    BY <2>4, <2>5, <2>6, <2>7 DEF Map!FirstRun, Map!InMemory, Map!Bytes
  <2>9. ASSUME NEW b \in 0..(MaxSize - 1)
        PROVE  WhereIs(b)' = IF b \in from..(to - 1) THEN "file" ELSE WhereIs(b)
    <3>1. b \in Int /\ (b \in from..(to - 1) <=> from <= b /\ b < to)
      BY <2>2
    <3>2. CASE b \in from..(to - 1)
      <4>1. Has(list', b, FALSE) /\ ~Has(list', b, TRUE)
        BY <2>3, <3>1, <3>2
      <4> QED BY <1>2, <3>2, <4>1 DEF Where
    <3>3. CASE b \notin from..(to - 1)
      <4>1. \A m \in BOOLEAN : Has(list', b, m) <=> Has(list, b, m)
        BY <2>3, <3>1, <3>3
      <4>2. Where(list', b) = Where(list, b)
        BY <4>1 DEF Where
      <4> QED BY <1>2, <3>3, <4>2
    <3> QED BY <3>2, <3>3
  <2>10. [b \in 0..(MaxSize - 1) |-> WhereIs(b)]'
             = [b \in 0..(MaxSize - 1) |->
                    IF b \in from..(to - 1) THEN "file"
                    ELSE [x \in 0..(MaxSize - 1) |-> WhereIs(x)][b]]
    BY <2>9
  <2> QED BY <2>1, <2>4, <2>8, <2>10 DEF Map!HandOut, Map!Bytes
<1> QED BY <1>4, <1>5

LEMMA HoleMaps ==
    ASSUME IInv, IInv', NEW from \in 0..MaxSize, NEW to \in 0..MaxSize, from < to,
           PunchHole(from, to)
    PROVE  Map!Forget(from, to)
<1>1. Sorted(list) /\ Mergeable(list) = {} /\ Sorted(list')
  BY DEF IInv
<1>2. \A b \in 0..(MaxSize - 1) :
          b \in Int /\ WhereIs(b) = Where(list, b) /\ WhereIs(b)' = Where(list', b)
  BY <1>1, WhereNow, WhereThen
<1>3. from \in Nat /\ to \in Nat
  BY MaxSizeAssumption
<1>4. /\ CanPunch(list, from, to) /\ list' = PunchList(list, from, to)
      /\ answer' = <<"hole", from, to>>
  BY DEF PunchHole
<1>5. \A b \in Int, m \in BOOLEAN :
          Has(list', b, m) <=> Has(list, b, m) /\ ~(from <= b /\ b < to)
  BY <1>1, <1>3, <1>4, PunchKeeps
<1>6. ASSUME NEW b \in from..(to - 1)
      PROVE  b \in 0..(MaxSize - 1) /\ WhereIs(b) # "memory"
  <2>1. b \in 0..(MaxSize - 1) /\ b \in Int /\ from <= b /\ b < to
    BY <1>3, MaxSizeAssumption
  <2>2. ~Has(list, b, TRUE)
    <3> SUFFICES ASSUME NEW i \in DOMAIN list,
                        list[i].start <= b, b < list[i].end, list[i].memory = TRUE
                 PROVE  FALSE
      BY DEF Has
    <3>1. list[i] \in Items
      BY <1>1 DEF Sorted
    <3>2. list[i].start \in Nat /\ list[i].end \in Nat
      BY <3>1, ItemLemma
    <3>3. list[i].start < to /\ from < list[i].end
      BY <1>3, <2>1, <3>2
    <3> QED BY <1>4, <3>3 DEF CanPunch
  <2> QED BY <1>2, <2>1, <2>2 DEF Where
<1>7. ASSUME NEW b \in 0..(MaxSize - 1)
      PROVE  WhereIs(b)' = IF b \in from..(to - 1) THEN "missing" ELSE WhereIs(b)
  <2>1. b \in Int /\ (b \in from..(to - 1) <=> from <= b /\ b < to)
    BY <1>3
  <2>2. CASE b \in from..(to - 1)
    <3>1. ~Has(list', b, TRUE) /\ ~Has(list', b, FALSE)
      BY <1>5, <2>1, <2>2
    <3> QED BY <1>2, <2>2, <3>1 DEF Where
  <2>3. CASE b \notin from..(to - 1)
    <3>1. \A m \in BOOLEAN : Has(list', b, m) <=> Has(list, b, m)
      BY <1>5, <2>1, <2>3
    <3>2. Where(list', b) = Where(list, b)
      BY <3>1 DEF Where
    <3> QED BY <1>2, <2>3, <3>2
  <2> QED BY <2>2, <2>3
<1> QED BY <1>4, <1>6, <1>7 DEF Map!Forget, Map!Bytes

LEMMA MapStep == IInv /\ IInv' /\ [Next]_vars => [Map!Next]_(Map!mapVars)
<1> SUFFICES ASSUME IInv, IInv', [Next]_vars PROVE [Map!Next]_(Map!mapVars)
  OBVIOUS
<1>1. ASSUME NEW from \in 0..MaxSize, NEW to \in 0..(MaxSize + 1), NEW inMemory \in BOOLEAN,
             Push(from, to, inMemory)
      PROVE  Map!Next
  <2> DEFINE kind == IF inMemory THEN "memory" ELSE "file"
  <2>1. Map!Receive(from, to, kind)
    BY <1>1, PushMaps
  <2>2. kind \in {"memory", "file"}
    OBVIOUS
  <2> HIDE DEF kind
  <2> QED BY <2>1, <2>2 DEF Map!Next
<1>2. ASSUME Shift PROVE Map!Next
  BY <1>2, ShiftMaps DEF Map!Next
<1>3. ASSUME NEW from \in 0..MaxSize, NEW to \in 0..MaxSize, from < to, PunchHole(from, to)
      PROVE  Map!Next
  BY <1>3, HoleMaps DEF Map!Next
<1>4. CASE UNCHANGED vars
  <2>1. list' = list /\ answer' = answer
    BY <1>4 DEF vars
  <2>2. \A b \in 0..(MaxSize - 1) : WhereIs(b)' = WhereIs(b)
    BY <2>1 DEF WhereIs
  <2> QED BY <2>1, <2>2 DEF Map!mapVars
<1> QED BY <1>1, <1>2, <1>3, <1>4 DEF Next

\* The list is the map from bytes to places, for a download of any size: push()
\* takes exactly what is missing, shift() hands out the first run of bytes in
\* memory as a whole, and punchHole() forgets the hole and nothing else.
THEOREM ListIsMap == Spec => ImplementsMap
<1>1. Init => Map!Init
  BY MapInit
<1>2. IInv /\ IInv' /\ [Next]_vars => [Map!Next]_(Map!mapVars)
  BY MapStep
<1> QED BY <1>1, <1>2, Invariance, PTL DEF Spec, ImplementsMap, Map!Spec
=============================================================================
