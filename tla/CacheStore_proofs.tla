--------------------------- MODULE CacheStore_proofs ---------------------------
(***************************************************************************)
(* What the cache file promises, for any number of sections, records and   *)
(* processes that end anywhere: what was in the file when it was closed is *)
(* found again, what was erased stays erased, and what is offered for      *)
(* reading is what was written.                                            *)
(*                                                                         *)
(* The argument is that the alive records of the file are, each of them,   *)
(* one of this.sections, or one of this.badSections, or being written;     *)
(* and that a process that ends cuts off nothing before `landed'.          *)
(***************************************************************************)
EXTENDS CacheStore, FiniteSetTheorems, SequenceTheorems, TLAPS

Records ==
    {Header} \union [kind : {"section"}, id : Nat] \union [kind : {"erase"}, at : Nat]

IsSection(i) == i \in DOMAIN recs /\ recs[i].kind = "section"
IsErase(i) == i \in DOMAIN recs /\ recs[i].kind = "erase"

Types ==
    /\ TypeOK
    /\ recs \in Seq(Records)
    /\ sections \in Seq([at : Nat, id : Nat])
    /\ bad \in Seq(Nat)

\* A section is known by its identity, as these are never used again ...
IdsGrow ==
    /\ \A i \in DOMAIN recs : IsSection(i) => recs[i].id \in 1..written
    /\ \A i, j \in DOMAIN recs :
           IsSection(i) /\ IsSection(j) /\ i < j => recs[i].id < recs[j].id

\* ... and an erasure follows the section it names.
ErasuresFollow ==
    \A j \in DOMAIN recs : IsErase(j) => recs[j].at < j /\ IsSection(recs[j].at)

\* Who has opened the file for writing is the only one, and the file exists.
WriterIsReady ==
    /\ writer \/ op.call # None => inst = "ready" /\ lock = "write" /\ exists
    /\ ~exists => recs = <<>>
    /\ op.call = "creating" => recs = <<>>
    /\ op.call = "writing" => IsSection(Len(recs)) /\ landed < Len(recs)
    /\ op.call \in {"committing", "erasing"} => bad # <<>>
    /\ op.call = "closing" => bad = <<>>
    /\ inst = "new" => sections = <<>> /\ bad = <<>>

\* The record whose section is not known yet.
Pending(i) == op.call = "writing" /\ i = Len(recs)

IsBad(i) == \E k \in DOMAIN bad : bad[k] = i
IsKnown(i) == \E k \in DOMAIN sections : sections[k].at = i

\* The alive records are the known, the bad and the pending ones, each of them
\* one of the three, and in its list once.
AliveIsKnown ==
    inst = "ready" =>
        /\ \A i \in Alive(recs) : IsKnown(i) \/ IsBad(i) \/ Pending(i)
        /\ \A k \in DOMAIN sections :
               /\ sections[k].at \in Alive(recs)
               /\ sections[k].id = recs[sections[k].at].id
               /\ ~IsBad(sections[k].at) /\ ~Pending(sections[k].at)
        /\ \A k \in DOMAIN bad : bad[k] \in Alive(recs) /\ ~Pending(bad[k])
        /\ \A k, l \in DOMAIN sections : sections[k].at = sections[l].at => k = l
        /\ \A k, l \in DOMAIN bad : bad[k] = bad[l] => k = l

\* What was stored has landed, is alive, and nobody is about to erase it.
StoredHasLanded ==
    \A id \in stored :
        \E i \in 1..landed :
            /\ i \in Alive(recs) /\ recs[i].id = id
            /\ inst = "ready" => ~IsBad(i)

\* The erasure of what was erased has landed, unless the section itself is gone.
ErasedHasLanded ==
    \A id \in erased :
        /\ id \in 1..written
        /\ \A i \in DOMAIN recs :
               IsSection(i) /\ recs[i].id = id =>
                   \E j \in 1..landed : IsErase(j) /\ recs[j].at = i

IInv ==
    /\ Types
    /\ IdsGrow
    /\ ErasuresFollow
    /\ WriterIsReady
    /\ AliveIsKnown
    /\ StoredHasLanded
    /\ ErasedHasLanded

-----------------------------------------------------------------------------
(* The file. *)

\* How many of the positions stand before p, and p itself.
Smaller(S, p) == {q \in S : q < p}
Rank(S) == [p \in S |-> Cardinality(Smaller(S, p)) + 1]

LEMMA RankGrows ==
    ASSUME NEW S \in SUBSET Nat, IsFiniteSet(S)
    PROVE  /\ Rank(S) \in [S -> 1..Cardinality(S)]
           /\ \A p \in S : Cardinality(Smaller(S, p)) \in Nat
           /\ \A p, q \in S : p < q => Rank(S)[p] < Rank(S)[q]
<1>1. Cardinality(S) \in Nat
  BY FS_CardinalityType
<1>2. ASSUME NEW p \in S
      PROVE  /\ IsFiniteSet(Smaller(S, p)) /\ Cardinality(Smaller(S, p)) \in Nat
             /\ Cardinality(Smaller(S, p)) < Cardinality(S)
  <2>1. p \notin Smaller(S, p) /\ Smaller(S, p) \subseteq S
    BY DEF Smaller
  <2>2. Smaller(S, p) \in SUBSET S /\ Smaller(S, p) # S
    BY <2>1
  <2>3. /\ IsFiniteSet(Smaller(S, p)) /\ Cardinality(Smaller(S, p)) <= Cardinality(S)
        /\ Cardinality(Smaller(S, p)) # Cardinality(S)
    BY <2>2, FS_Subset
  <2>4. Cardinality(Smaller(S, p)) \in Nat
    BY <2>3, FS_CardinalityType
  <2> QED BY <1>1, <2>3, <2>4
<1>3. ASSUME NEW p \in S, NEW q \in S, p < q
      PROVE  Cardinality(Smaller(S, p)) < Cardinality(Smaller(S, q))
  <2>0. p \in Nat /\ q \in Nat /\ \A o \in S : o \in Nat
    OBVIOUS
  <2>1. /\ Smaller(S, p) \subseteq Smaller(S, q)
        /\ p \in Smaller(S, q) /\ p \notin Smaller(S, p)
    <3>1. \A o \in Smaller(S, p) : o \in Smaller(S, q)
      BY <1>3, <2>0 DEF Smaller
    <3>2. p \in Smaller(S, q)
      BY <1>3 DEF Smaller
    <3>3. p \notin Smaller(S, p)
      BY <2>0 DEF Smaller
    <3> QED BY <3>1, <3>2, <3>3
  <2>2. Smaller(S, p) # Smaller(S, q)
    BY <2>1
  <2>3. IsFiniteSet(Smaller(S, q))
    BY <1>2
  <2>4. /\ Cardinality(Smaller(S, p)) <= Cardinality(Smaller(S, q))
        /\ Cardinality(Smaller(S, p)) # Cardinality(Smaller(S, q))
    BY <2>1, <2>2, <2>3, FS_Subset
  <2> QED BY <1>2, <2>4
<1> QED BY <1>1, <1>2, <1>3 DEF Rank

\* Different numbers up to n for n members are all the numbers up to n.
LEMMA AllRanks ==
    ASSUME NEW S, IsFiniteSet(S), NEW r \in [S -> 1..Cardinality(S)],
           \A p, q \in S : r[p] = r[q] => p = q
    PROVE  \A k \in 1..Cardinality(S) : \E p \in S : r[p] = k
<1>1. Cardinality(S) \in Nat
  BY FS_CardinalityType
<1>2. IsFiniteSet(1..Cardinality(S)) /\ Cardinality(1..Cardinality(S)) = Cardinality(S)
  BY <1>1, FS_Interval
<1>3. r \in Injection(S, 1..Cardinality(S))
  BY DEF Injection, IsInjective
<1>4. r \in Surjection(S, 1..Cardinality(S))
  BY <1>2, <1>3, FS_Injection
<1> QED BY <1>4 DEF Surjection

\* Sorting the positions keeps each of them, once.
LEMMA InOrderLemma ==
    ASSUME NEW S \in SUBSET Nat, IsFiniteSet(S)
    PROVE  /\ InOrder(S) \in Seq(S)
           /\ \A p \in S : \E k \in DOMAIN InOrder(S) : InOrder(S)[k] = p
           /\ \A k, l \in DOMAIN InOrder(S) : InOrder(S)[k] = InOrder(S)[l] => k = l
<1> DEFINE n == Cardinality(S)
           r == Rank(S)
           s == InOrder(S)
<1>1. n \in Nat
  BY FS_CardinalityType
<1>2. /\ r \in [S -> 1..n] /\ \A p, q \in S : p < q => r[p] < r[q]
      /\ \A p \in S : Cardinality(Smaller(S, p)) \in Nat
  BY RankGrows
<1>3. \A p, q \in S : r[p] = r[q] => p = q
  <2> SUFFICES ASSUME NEW p \in S, NEW q \in S, r[p] = r[q] PROVE p = q
    OBVIOUS
  <2>1. r[p] \in Nat /\ p \in Nat /\ q \in Nat
    BY <1>1, <1>2
  <2>2. ~(p < q) /\ ~(q < p)
    BY <1>2, <2>1
  <2> QED BY <2>1, <2>2
<1>4. \A k \in 1..n : \E p \in S : r[p] = k
  BY <1>2, <1>3, AllRanks
<1>5. ASSUME NEW k \in 1..n PROVE s[k] \in S /\ r[s[k]] = k
  <2>1. s[k] = CHOOSE p \in S : Cardinality(Smaller(S, p)) = k - 1
    BY DEF InOrder, Smaller
  <2>2. \A p \in S : r[p] = k <=> Cardinality(Smaller(S, p)) = k - 1
    <3>1. \A p \in S : r[p] = Cardinality(Smaller(S, p)) + 1
      BY DEF Rank
    <3> QED BY <1>2, <3>1
  <2>3. \E p \in S : Cardinality(Smaller(S, p)) = k - 1
    BY <1>4, <2>2
  <2> HIDE DEF n, r, s
  <2>4. s[k] \in S /\ Cardinality(Smaller(S, s[k])) = k - 1
    BY <2>1, <2>3
  <2> QED BY <2>2, <2>4
<1>6. s \in [1..n -> S]
  <2>1. s = [k \in 1..n |-> CHOOSE p \in S : Cardinality(Smaller(S, p)) = k - 1]
    BY DEF InOrder, Smaller
  <2> HIDE DEF n, s
  <2> QED BY <1>5, <2>1
<1> HIDE DEF n, r, s
<1>7. s \in Seq(S) /\ Len(s) = n
  BY <1>1, <1>6
<1>8. \A p \in S : s[r[p]] = p
  <2> TAKE p \in S
  <2>1. r[p] \in 1..n
    BY <1>2
  <2>2. s[r[p]] \in S /\ r[s[r[p]]] = r[p]
    BY <1>5, <2>1
  <2> QED BY <1>3, <2>2
<1>9. \A k, l \in 1..n : s[k] = s[l] => k = l
  BY <1>1, <1>5
<1>10. \A p \in S : \E k \in 1..n : s[k] = p
  BY <1>2, <1>8
<1> QED BY <1>6, <1>7, <1>9, <1>10 DEF s

\* What openRead() makes of the records: every alive section, once.
LEMMA ParseLemma ==
    ASSUME NEW rs \in Seq(Records)
    PROVE  /\ Parse(rs) \in Seq([at : Nat, id : Nat])
           /\ \A k \in DOMAIN Parse(rs) :
                  Parse(rs)[k].at \in Alive(rs) /\ Parse(rs)[k].id = rs[Parse(rs)[k].at].id
           /\ \A i \in Alive(rs) : \E k \in DOMAIN Parse(rs) : Parse(rs)[k].at = i
           /\ \A k, l \in DOMAIN Parse(rs) : Parse(rs)[k].at = Parse(rs)[l].at => k = l
<1> DEFINE order == InOrder(Alive(rs))
           parts == Parse(rs)
<1>1. /\ Alive(rs) \in SUBSET (1..Len(rs)) /\ Len(rs) \in Nat
      /\ \A i \in Alive(rs) : i \in DOMAIN rs /\ i \in Nat /\ rs[i].kind = "section"
  BY DEF Alive
<1>2. Alive(rs) \in SUBSET Nat /\ IsFiniteSet(Alive(rs))
  <2>1. IsFiniteSet(1..Len(rs))
    BY <1>1, FS_Interval
  <2>2. IsFiniteSet(Alive(rs))
    BY <1>1, <2>1, FS_Subset
  <2> QED BY <1>1, <2>2
<1>3. /\ order \in Seq(Alive(rs))
      /\ \A i \in Alive(rs) : \E k \in DOMAIN order : order[k] = i
      /\ \A k, l \in DOMAIN order : order[k] = order[l] => k = l
  BY <1>2, InOrderLemma
<1>4. parts = [k \in DOMAIN order |-> Part(order[k], rs[order[k]].id)]
  BY DEF Parse
<1> HIDE DEF order, parts
<1>5. \A i \in Alive(rs) : i \in Nat /\ rs[i].id \in Nat
  BY <1>1 DEF Records, Header
<1>6. DOMAIN order = 1..Len(order) /\ Len(order) \in Nat /\ \A k \in DOMAIN order : order[k] \in Alive(rs)
  BY <1>3
<1>7. \A k \in DOMAIN order :
          /\ parts[k] \in [at : Nat, id : Nat]
          /\ parts[k].at = order[k] /\ parts[k].id = rs[order[k]].id
  BY <1>4, <1>5, <1>6 DEF Part
<1>8. parts \in Seq([at : Nat, id : Nat]) /\ DOMAIN parts = DOMAIN order
  <2> DEFINE T == [at : Nat, id : Nat]
             n == Len(order)
  <2>1. parts \in [1..n -> T] /\ n \in Nat
    BY <1>4, <1>6, <1>7
  <2> HIDE DEF T, n
  <2>2. parts \in Seq(T) /\ DOMAIN parts = 1..n
    BY <2>1
  <2> QED BY <1>6, <2>2 DEF T, n
<1> QED BY <1>3, <1>6, <1>7, <1>8 DEF parts

\* A record at the end adds a section, or takes one away.
LEMMA AliveAppend ==
    ASSUME NEW rs \in Seq(Records), NEW x \in Records, NEW i
    PROVE  i \in Alive(Append(rs, x)) <=>
                \/ i \in Alive(rs) /\ ~(x.kind = "erase" /\ x.at = i)
                \/ i = Len(rs) + 1 /\ x.kind = "section"
<1> DEFINE longer == Append(rs, x)
<1>1. /\ Len(rs) \in Nat /\ DOMAIN rs = 1..Len(rs) /\ DOMAIN longer = 1..(Len(rs) + 1)
      /\ \A j \in 1..Len(rs) : longer[j] = rs[j]
      /\ longer[Len(rs) + 1] = x
  BY AppendProperties
<1> HIDE DEF longer
<1>2. CASE i \in 1..Len(rs)
  <2>1. i # Len(rs) + 1 /\ Len(rs) + 1 > i
    BY <1>1, <1>2
  <2>2. (\A j \in DOMAIN longer : j > i /\ longer[j].kind = "erase" => longer[j].at # i) <=>
            /\ \A j \in DOMAIN rs : j > i /\ rs[j].kind = "erase" => rs[j].at # i
            /\ ~(x.kind = "erase" /\ x.at = i)
    BY <1>1, <2>1
  <2> QED BY <1>1, <1>2, <2>1, <2>2 DEF Alive, longer
<1>3. CASE i = Len(rs) + 1
  <2>1. i \notin Alive(rs)
    BY <1>1, <1>3 DEF Alive
  <2>2. \A j \in DOMAIN longer : ~(j > i)
    BY <1>1, <1>3
  <2> QED BY <1>1, <1>3, <2>1, <2>2 DEF Alive, longer
<1>4. CASE i \notin 1..(Len(rs) + 1)
  BY <1>1, <1>4 DEF Alive, longer
<1> QED BY <1>1, <1>2, <1>3, <1>4

\* What is cut off erases nothing any more.
LEMMA AlivePrefix ==
    ASSUME NEW rs \in Seq(Records), NEW k \in 0..Len(rs)
    PROVE  /\ SubSeq(rs, 1, k) \in Seq(Records) /\ Len(SubSeq(rs, 1, k)) = k
           /\ DOMAIN SubSeq(rs, 1, k) = 1..k
           /\ \A i \in 1..k : SubSeq(rs, 1, k)[i] = rs[i]
           /\ \A i \in 1..k : i \in Alive(rs) => i \in Alive(SubSeq(rs, 1, k))
<1>1. k \in Nat /\ k <= Len(rs) /\ DOMAIN rs = 1..Len(rs) /\ Len(rs) \in Nat
  OBVIOUS
<1>2. \A i \in 1..k : rs[i] \in Records
  BY <1>1
<1> DEFINE prefix == SubSeq(rs, 1, k)
<1>3. /\ prefix \in Seq(Records) /\ Len(prefix) = k
      /\ \A i \in 1..k : prefix[i] = rs[i]
  BY <1>1, <1>2, SubSeqProperties
<1> HIDE DEF prefix
<1>4. DOMAIN prefix = 1..k
  BY <1>3
<1>5. \A i \in 1..k : i \in Alive(rs) => i \in Alive(prefix)
  BY <1>1, <1>3, <1>4 DEF Alive
<1> QED BY <1>3, <1>4, <1>5 DEF prefix

-----------------------------------------------------------------------------
(* The lists. *)

\* The places of a list with one more item ...
LEMMA Longer ==
    ASSUME NEW S, NEW l \in Seq(S), NEW x \in S
    PROVE  /\ Append(l, x) \in Seq(S)
           /\ \A k \in DOMAIN l : k \in DOMAIN Append(l, x) /\ Append(l, x)[k] = l[k]
           /\ \E last \in DOMAIN Append(l, x) :
                  /\ Append(l, x)[last] = x
                  /\ \A k \in DOMAIN Append(l, x) : k = last \/ k \in DOMAIN l
<1>1. /\ Append(l, x) \in Seq(S) /\ Len(Append(l, x)) = Len(l) + 1 /\ Len(l) \in Nat
      /\ \A k \in 1..Len(l) : Append(l, x)[k] = l[k]
      /\ Append(l, x)[Len(l) + 1] = x
  BY AppendProperties
<1>2. DOMAIN Append(l, x) = 1..(Len(l) + 1) /\ DOMAIN l = 1..Len(l)
  BY <1>1
<1> QED BY <1>1, <1>2

\* ... without its first one ...
LEMMA Shorter ==
    ASSUME NEW S, NEW l \in Seq(S), l # <<>>
    PROVE  /\ Tail(l) \in Seq(S) /\ Head(l) \in S /\ Head(l) = l[1] /\ 1 \in DOMAIN l
           /\ Len(l) = 1 <=> Tail(l) = <<>>
           /\ \A k \in DOMAIN Tail(l) :
                  k \in Int /\ k + 1 \in DOMAIN l /\ k + 1 # 1 /\ Tail(l)[k] = l[k + 1]
           /\ \A k \in DOMAIN l :
                  k = 1 \/ \E j \in DOMAIN Tail(l) : Tail(l)[j] = l[k]
<1>1. /\ Head(l) \in S /\ Tail(l) \in Seq(S) /\ Len(Tail(l)) = Len(l) - 1
      /\ \A k \in 1..Len(Tail(l)) : Tail(l)[k] = l[k + 1]
  BY HeadTailProperties
<1>2. /\ Len(l) \in Nat /\ Len(l) # 0 /\ DOMAIN l = 1..Len(l) /\ Head(l) = l[1]
      /\ DOMAIN Tail(l) = 1..(Len(l) - 1)
  BY <1>1
<1>3. Len(l) = 1 <=> Tail(l) = <<>>
  BY <1>1, <1>2
<1>4. ASSUME NEW k \in DOMAIN l, k # 1
      PROVE  k - 1 \in DOMAIN Tail(l) /\ Tail(l)[k - 1] = l[k]
  BY <1>1, <1>2, <1>4
<1>5. \A k \in DOMAIN Tail(l) :
          k \in Int /\ k + 1 \in DOMAIN l /\ k + 1 # 1 /\ Tail(l)[k] = l[k + 1]
  <2> TAKE k \in DOMAIN Tail(l)
  <2>1. k \in 1..Len(Tail(l)) /\ k \in 1..(Len(l) - 1)
    BY <1>1, <1>2
  <2> QED BY <1>1, <1>2, <2>1
<1>6. \A k \in DOMAIN l : k = 1 \/ \E j \in DOMAIN Tail(l) : Tail(l)[j] = l[k]
  BY <1>4
<1>7. 1 \in DOMAIN l
  BY <1>2
<1> QED BY <1>1, <1>2, <1>3, <1>5, <1>6, <1>7

\* ... and without the one at p.
LEMMA Removed1 ==
    ASSUME NEW S, NEW l \in Seq(S), NEW p \in DOMAIN l
    PROVE  /\ RemoveAt(l, p) \in Seq(S)
           /\ \A k \in DOMAIN RemoveAt(l, p) :
                  \E j \in DOMAIN l \ {p} :
                      /\ j = IF k < p THEN k ELSE k + 1
                      /\ RemoveAt(l, p)[k] = l[j]
           /\ \A j \in DOMAIN l \ {p} :
                  \E k \in DOMAIN RemoveAt(l, p) : RemoveAt(l, p)[k] = l[j]
           /\ \A k \in DOMAIN RemoveAt(l, p) : k \in Int
<1> DEFINE front == SubSeq(l, 1, p - 1)
           back == SubSeq(l, p + 1, Len(l))
           n == Len(l)
           short == front \o back
<1>1. n \in Nat /\ p \in 1..n /\ DOMAIN l = 1..n
  OBVIOUS
<1>2. /\ front \in Seq(S) /\ Len(front) = p - 1
      /\ \A i \in 1..(p - 1) : front[i] = l[i]
  BY <1>1
<1>3. /\ back \in Seq(S) /\ Len(back) = n - p
      /\ \A i \in 1..(n - p) : back[i] = l[p + i]
  BY <1>1
<1>4. RemoveAt(l, p) = short
  BY DEF RemoveAt
<1> HIDE DEF front, back, n
<1>5. /\ short \in Seq(S) /\ Len(short) = Len(front) + Len(back)
      /\ \A i \in 1..(Len(front) + Len(back)) :
             short[i] = IF i <= Len(front) THEN front[i] ELSE back[i - Len(front)]
  BY <1>2, <1>3, ConcatProperties
<1> HIDE DEF short
<1>6. Len(front) + Len(back) = n - 1
  BY <1>1, <1>2, <1>3
<1>7. /\ short \in Seq(S) /\ Len(short) = n - 1
      /\ \A i \in 1..(n - 1) :
             short[i] = IF i <= p - 1 THEN front[i] ELSE back[i - (p - 1)]
  BY <1>2, <1>5, <1>6
<1>8. DOMAIN short = 1..(n - 1)
  BY <1>1, <1>7
<1>9. ASSUME NEW k \in 1..(n - 1)
      PROVE  short[k] = l[IF k < p THEN k ELSE k + 1]
  <2>1. CASE k < p
    BY <1>1, <1>2, <1>7, <2>1
  <2>2. CASE ~(k < p)
    <3>1. k - (p - 1) \in 1..(n - p) /\ p + (k - (p - 1)) = k + 1
      BY <1>1, <2>2
    <3>2. back[k - (p - 1)] = l[p + (k - (p - 1))]
      BY <1>3, <3>1
    <3> QED BY <1>1, <1>7, <2>2, <3>1, <3>2
  <2> QED BY <2>1, <2>2
<1>10. \A k \in 1..(n - 1) : (IF k < p THEN k ELSE k + 1) \in DOMAIN l \ {p}
  BY <1>1
<1>11. ASSUME NEW j \in DOMAIN l \ {p}
      PROVE  \E k \in 1..(n - 1) : j = IF k < p THEN k ELSE k + 1
  <2>1. CASE j < p
    BY <1>1, <2>1
  <2>2. CASE ~(j < p)
    <3>1. j - 1 \in 1..(n - 1) /\ ~(j - 1 < p) /\ (j - 1) + 1 = j
      BY <1>1, <2>2
    <3> QED BY <3>1
  <2> QED BY <2>1, <2>2
<1> DEFINE place(k) == IF k < p THEN k ELSE k + 1
<1>12. \A k \in 1..(n - 1) : \E j \in DOMAIN l \ {p} : j = place(k) /\ short[k] = l[j]
  BY <1>9, <1>10
<1>13. \A j \in DOMAIN l \ {p} : \E k \in 1..(n - 1) : short[k] = l[j]
  BY <1>9, <1>11
<1>14. \A k \in 1..(n - 1) : k \in Int
  BY <1>1
<1> QED BY <1>4, <1>7, <1>8, <1>12, <1>13, <1>14

-----------------------------------------------------------------------------
(* Steps of a kind. *)

\* At the beginning there is no file.
LEMMA InitIInv == StoreInit => IInv
<1> SUFFICES ASSUME StoreInit PROVE IInv
  OBVIOUS
<1>1. /\ recs = <<>> /\ sections = <<>> /\ bad = <<>> /\ inst = "new" /\ op = Idle
      /\ stored = {} /\ erased = {} /\ landed = 0 /\ written = 0 /\ crashes = 0
      /\ lock = None /\ writer = FALSE /\ exists = FALSE /\ tail = None /\ meta = FALSE
  BY DEF StoreInit, Init, FreshInstance
<1>2. Types
  <2>0. /\ op \in [call : Calls, emit : BOOLEAN] /\ Len(recs) = 0
        /\ 0 \in 0..MaxSections /\ 0 \in 0..MaxCrashes /\ landed \in 0..Len(recs)
    BY <1>1, CacheFileAssumption DEF Idle, Calls, None
  <2>1. TypeOK
    BY <1>1, <2>0 DEF TypeOK
  <2>2. /\ recs \in Seq(Records) /\ sections \in Seq([at : Nat, id : Nat])
        /\ bad \in Seq(Nat)
    BY <1>1
  <2> QED BY <2>1, <2>2 DEF Types
<1> QED BY <1>1, <1>2 DEF IInv, IdsGrow, ErasuresFollow, WriterIsReady, AliveIsKnown,
                          StoredHasLanded, ErasedHasLanded, Idle, None

\* Calls that change neither the records nor the lists.
LEMMA SameFile ==
    ASSUME IInv, Types', WriterIsReady', inst' = "ready" => inst = "ready",
           op'.call = "writing" <=> op.call = "writing",
           UNCHANGED <<recs, sections, bad, landed, written, stored, erased>>
    PROVE  IInv'
<1>1. IdsGrow' /\ ErasuresFollow' /\ ErasedHasLanded'
  BY DEF IInv, IdsGrow, ErasuresFollow, ErasedHasLanded, IsSection, IsErase
<1>2. AliveIsKnown' /\ StoredHasLanded'
  BY DEF IInv, AliveIsKnown, StoredHasLanded, IsKnown, IsBad, Pending
<1> QED BY <1>1, <1>2 DEF IInv

\* A new record at the end of the file.
LEMMA AppendStep ==
    ASSUME IInv, NEW x \in Records, Append1(x),
           x.kind = "section" => x.id = written + 1 /\ written' = written + 1,
           x.kind # "section" => written' = written,
           x.kind = "erase" => inst = "ready" /\ IsBad(x.at),
           \A i : IsBad(i)' => IsBad(i),
           UNCHANGED <<inst, landed, stored, erased>>
    PROVE  /\ recs' \in Seq(Records) /\ Len(recs') = Len(recs) + 1
           /\ \A i \in 1..Len(recs) : recs'[i] = recs[i]
           /\ recs'[Len(recs) + 1] = x
           /\ IdsGrow' /\ ErasuresFollow' /\ StoredHasLanded' /\ ErasedHasLanded'
<1>1. /\ recs \in Seq(Records) /\ Len(recs) \in Nat /\ DOMAIN recs = 1..Len(recs)
      /\ landed \in 0..Len(recs) /\ written \in Nat
  BY DEF IInv, Types, TypeOK
<1>2. /\ recs' \in Seq(Records) /\ Len(recs') = Len(recs) + 1
      /\ \A i \in 1..Len(recs) : recs'[i] = recs[i]
      /\ recs'[Len(recs) + 1] = x
  BY <1>1, AppendProperties DEF Append1
<1>3. /\ DOMAIN recs' = 1..(Len(recs) + 1)
      /\ \A i \in 1..Len(recs) : (IsSection(i)' <=> IsSection(i)) /\ (IsErase(i)' <=> IsErase(i))
  BY <1>1, <1>2 DEF IsSection, IsErase
<1>4. x.kind = "erase" => x.at \in 1..Len(recs) /\ IsSection(x.at)
  <2> SUFFICES ASSUME x.kind = "erase" PROVE x.at \in 1..Len(recs) /\ IsSection(x.at)
    OBVIOUS
  <2>1. x.at \in Alive(recs)
    BY DEF IInv, AliveIsKnown, IsBad
  <2> QED BY <1>1, <2>1 DEF Alive, IsSection
<1>5. IdsGrow'
  <2>1. \A i \in DOMAIN recs' : IsSection(i)' => recs'[i].id \in 1..written'
    <3> TAKE i \in DOMAIN recs'
    <3> HAVE IsSection(i)'
    <3>1. CASE i \in 1..Len(recs)
      <4>1. recs[i].id \in 1..written
        BY <1>1, <1>3, <3>1 DEF IInv, IdsGrow
      <4> QED BY <1>1, <1>2, <3>1, <4>1
    <3>2. CASE i = Len(recs) + 1
      BY <1>1, <1>2, <3>2 DEF IsSection
    <3> QED BY <1>1, <1>3, <3>1, <3>2
  <2>2. \A i, j \in DOMAIN recs' :
            IsSection(i)' /\ IsSection(j)' /\ i < j => recs'[i].id < recs'[j].id
    <3> TAKE i, j \in DOMAIN recs'
    <3> HAVE IsSection(i)' /\ IsSection(j)' /\ i < j
    <3>1. i \in 1..Len(recs)
      BY <1>1, <1>3
    <3>2. IsSection(i) /\ recs[i].id \in 1..written
      BY <1>1, <1>3, <3>1 DEF IInv, IdsGrow
    <3>3. CASE j \in 1..Len(recs)
      BY <1>1, <1>2, <1>3, <3>1, <3>2, <3>3 DEF IInv, IdsGrow
    <3>4. CASE j = Len(recs) + 1
      BY <1>1, <1>2, <3>1, <3>2, <3>4 DEF IsSection
    <3> QED BY <1>1, <1>3, <3>3, <3>4
  <2> QED BY <2>1, <2>2 DEF IdsGrow
<1>6. ErasuresFollow'
  <2> SUFFICES ASSUME NEW j \in DOMAIN recs', IsErase(j)'
               PROVE  recs'[j].at < j /\ IsSection(recs[j].at)'
    BY DEF ErasuresFollow
  <2>1. CASE j \in 1..Len(recs)
    <3>1. recs[j].at < j /\ IsSection(recs[j].at)
      BY <1>1, <1>3, <2>1 DEF IInv, ErasuresFollow
    <3>2. recs[j].at \in 1..Len(recs)
      BY <1>1, <3>1 DEF IsSection
    <3> QED BY <1>2, <1>3, <2>1, <3>1, <3>2 DEF IsSection
  <2>2. CASE j = Len(recs) + 1
    <3>1. x.at \in 1..Len(recs) /\ IsSection(x.at)
      BY <1>2, <1>4, <2>2 DEF IsErase
    <3> QED BY <1>1, <1>2, <1>3, <2>2, <3>1 DEF IsSection
  <2> QED BY <1>1, <1>3, <2>1, <2>2
<1>7. StoredHasLanded'
  <2> SUFFICES ASSUME NEW id \in stored
               PROVE  \E i \in 1..landed : /\ i \in Alive(recs') /\ recs'[i].id = id
                                           /\ inst = "ready" => ~IsBad(i)'
    BY DEF StoredHasLanded
  <2>1. PICK i \in 1..landed : /\ i \in Alive(recs) /\ recs[i].id = id
                               /\ inst = "ready" => ~IsBad(i)
    BY DEF IInv, StoredHasLanded
  <2>2. i \in Alive(recs')
    BY <1>1, <2>1, AliveAppend DEF Append1
  <2>3. i \in 1..Len(recs)
    BY <1>1
  <2> QED BY <1>2, <2>1, <2>2, <2>3
<1>8. ErasedHasLanded'
  <2> SUFFICES ASSUME NEW id \in erased
               PROVE  /\ id \in 1..written'
                      /\ \A i \in DOMAIN recs' : IsSection(i)' /\ recs'[i].id = id =>
                             \E j \in 1..landed : IsErase(j)' /\ recs'[j].at = i
    BY DEF ErasedHasLanded
  <2>1. id \in 1..written
    BY DEF IInv, ErasedHasLanded
  <2>2. ASSUME NEW i \in DOMAIN recs', IsSection(i)', recs'[i].id = id
        PROVE  \E j \in 1..landed : IsErase(j)' /\ recs'[j].at = i
    <3>1. i \in 1..Len(recs)
      <4>1. i # Len(recs) + 1
        BY <1>1, <1>2, <2>1, <2>2 DEF IsSection
      <4> QED BY <1>1, <1>3, <4>1
    <3>2. IsSection(i) /\ recs[i].id = id
      BY <1>2, <1>3, <2>2, <3>1
    <3>3. PICK j \in 1..landed : IsErase(j) /\ recs[j].at = i
      BY <1>1, <3>1, <3>2 DEF IInv, ErasedHasLanded
    <3>4. j \in 1..Len(recs)
      BY <1>1
    <3> QED BY <1>2, <1>3, <3>3, <3>4
  <2> QED BY <1>1, <2>1, <2>2
<1> QED BY <1>2, <1>5, <1>6, <1>7, <1>8

-----------------------------------------------------------------------------
(* Opening and closing. *)

\* openRead() finds every alive section, and offers them only if no record is torn.
LEMMA OpenReadInv ==
    ASSUME IInv, OpenRead, Keep
    PROVE  IInv'
<1>1. /\ inst = "new" /\ ~writer /\ op.call = None /\ sections = <<>> /\ bad = <<>>
      /\ UNCHANGED <<exists, recs, landed, lock, writer, bad, op, written, crashes, stored, erased>>
      /\ writer \in BOOLEAN
  BY DEF OpenRead, Keep, IInv, WriterIsReady, Types, TypeOK
<1>2. recs \in Seq(Records) /\ Len(recs) \in Nat
  BY DEF IInv, Types
<1>3. /\ Parse(recs) \in Seq([at : Nat, id : Nat])
      /\ \A k \in DOMAIN Parse(recs) :
             Parse(recs)[k].at \in Alive(recs) /\ Parse(recs)[k].id = recs[Parse(recs)[k].at].id
      /\ \A i \in Alive(recs) : \E k \in DOMAIN Parse(recs) : Parse(recs)[k].at = i
      /\ \A k, l \in DOMAIN Parse(recs) : Parse(recs)[k].at = Parse(recs)[l].at => k = l
  BY <1>2, ParseLemma
<1>4. IdsGrow' /\ ErasuresFollow' /\ ErasedHasLanded'
  BY <1>1 DEF IInv, IdsGrow, ErasuresFollow, ErasedHasLanded, IsSection, IsErase
<1>5. StoredHasLanded'
  BY <1>1 DEF IInv, StoredHasLanded, IsBad
<1>6. CASE OpenNothing
  <2>1. recs = <<>> /\ UNCHANGED <<meta, sections, tail>> /\ inst' = "ready"
    BY <1>6 DEF OpenNothing, NothingThere, IInv, WriterIsReady
  <2>2. Alive(recs) = {}
    BY <2>1 DEF Alive
  <2>3. Types' /\ WriterIsReady' /\ AliveIsKnown'
    BY <1>1, <2>1, <2>2 DEF IInv, Types, TypeOK, WriterIsReady, AliveIsKnown, IsSection
  <2> QED BY <1>4, <1>5, <2>3 DEF IInv
<1>7. CASE OpenBroken
  <2>1. UNCHANGED <<meta, sections, tail>> /\ inst' = "failed"
    BY <1>7 DEF OpenBroken
  <2>2. Types' /\ WriterIsReady' /\ AliveIsKnown'
    BY <1>1, <2>1 DEF IInv, Types, TypeOK, WriterIsReady, AliveIsKnown, IsSection
  <2> QED BY <1>4, <1>5, <2>2 DEF IInv
<1>8. CASE OpenSections
  <2> DEFINE torn == IF tail = "data" THEN <<Part(Len(recs) + 1, 0)>> ELSE <<>>
  <2>1. /\ meta' = TRUE /\ tail' = None
        /\ inst' = IF tail = None THEN "ready" ELSE "failed"
        /\ sections' = sections \o Parse(recs) \o torn
    BY <1>8 DEF OpenSections
  <2>2. /\ torn \in Seq([at : Nat, id : Nat])
        /\ tail = None => torn = <<>>
    <3> DEFINE x == Part(Len(recs) + 1, 0)
    <3>1. x \in [at : Nat, id : Nat]
      BY <1>2 DEF Part
    <3> HIDE DEF x
    <3>2. <<x>> \in Seq([at : Nat, id : Nat]) /\ <<>> \in Seq([at : Nat, id : Nat])
      BY <3>1
    <3> QED BY <3>2 DEF x, None
  <2>3. sections' = Parse(recs) \o torn
    BY <1>1, <1>3, <2>1
  <2> HIDE DEF torn
  <2>4. sections' \in Seq([at : Nat, id : Nat])
    BY <1>3, <2>2, <2>3, ConcatProperties
  <2>5. Types' /\ WriterIsReady'
    BY <1>1, <2>1, <2>4 DEF IInv, Types, TypeOK, WriterIsReady, IsSection
  <2>6. tail = None => sections' = Parse(recs)
    BY <1>3, <2>2, <2>3
  <2>7. AliveIsKnown'
    <3> SUFFICES ASSUME tail = None PROVE AliveIsKnown'
      BY <2>1 DEF AliveIsKnown
    <3>1. sections' = Parse(recs) /\ DOMAIN bad' = {} /\ op'.call # "writing" /\ recs' = recs
      BY <1>1, <2>6 DEF None
    <3>2. \A i : ~IsBad(i)' /\ ~Pending(i)'
      BY <3>1 DEF IsBad, Pending
    <3> QED BY <1>3, <3>1, <3>2 DEF AliveIsKnown, IsKnown
  <2> QED BY <1>4, <1>5, <2>5, <2>7 DEF IInv
<1> QED BY <1>6, <1>7, <1>8 DEF OpenRead

\* prepareCreate(): only where no file is, so that nothing is lost.
LEMMA PrepareCreateInv ==
    ASSUME IInv, Ready, ~meta, PrepareCreate, Keep
    PROVE  IInv'
<1>1. /\ lock = None /\ op.call = None /\ inst = "ready" /\ ~writer
      /\ UNCHANGED <<tail, meta, sections, writer, written, crashes, stored, erased>>
  BY DEF PrepareCreate, Keep, Ready, IInv, WriterIsReady, None
<1>2. CASE exists
  <2>1. inst' = "failed" /\ UNCHANGED <<exists, recs, landed, lock, bad, op>>
    BY <1>2 DEF PrepareCreate
  <2>2. Types' /\ WriterIsReady'
    BY <1>1, <2>1 DEF IInv, Types, TypeOK, WriterIsReady, IsSection
  <2> QED BY <1>1, <2>1, <2>2, SameFile
<1>3. CASE ~exists
  <2>1. /\ exists' = TRUE /\ recs' = <<>> /\ landed' = 0 /\ lock' = "write" /\ bad' = <<>>
        /\ op' = [Idle EXCEPT !.call = "creating"] /\ UNCHANGED inst
    BY <1>3 DEF PrepareCreate
  <2>2. recs = <<>>
    BY <1>3 DEF IInv, WriterIsReady
  <2>3. op'.call = "creating" /\ op' \in [call : Calls, emit : BOOLEAN]
    BY <2>1 DEF Idle, Calls
  <2>4. Types'
    BY <1>1, <2>1, <2>3 DEF IInv, Types, TypeOK
  <2>5. WriterIsReady'
    BY <1>1, <2>1, <2>3 DEF WriterIsReady
  <2>6. Alive(recs) = {} /\ stored = {} /\ landed = 0
    BY <2>2 DEF Alive, IInv, Types, TypeOK, StoredHasLanded
  <2>7. sections = <<>>
    BY <1>1, <2>6 DEF IInv, Types, AliveIsKnown
  <2> QED BY <1>1, <2>1, <2>2, <2>3, <2>4, <2>5, <2>6, <2>7
          DEF IInv, IdsGrow, ErasuresFollow, ErasedHasLanded, StoredHasLanded, AliveIsKnown,
              IsSection, IsErase
<1> QED BY <1>2, <1>3

\* prepareAppend(), closeWriter() up to the end of the stream, and the reader.
LEMMA SameFileInv ==
    ASSUME IInv, Keep,
           \/ Ready /\ PrepareAppend
           \/ \E emit \in BOOLEAN : CloseWriter(emit)
           \/ Ready /\ CommitBadBlock
           \/ Ready /\ StartEmitting
           \/ StopEmitting
    PROVE  IInv'
<1>0. Types /\ WriterIsReady
  BY DEF IInv
<1>1. CASE Ready /\ PrepareAppend
  <2>1. /\ lock = None /\ op.call = None /\ inst = "ready"
        /\ UNCHANGED <<recs, tail, landed, inst, meta, sections, bad, op, written, crashes>>
        /\ \/ NothingThere /\ exists' = FALSE /\ UNCHANGED <<lock, writer>>
           \/ ~NothingThere /\ lock' = "write" /\ writer' = TRUE /\ UNCHANGED exists
    BY <1>1 DEF PrepareAppend, Ready
  <2>2. Types'
    BY <1>0, <2>1 DEF Types, TypeOK
  <2>3. WriterIsReady'
    BY <1>0, <2>1 DEF WriterIsReady, NothingThere, None
  <2> QED BY <2>1, <2>2, <2>3, SameFile DEF Keep
<1>2. ASSUME NEW emit \in BOOLEAN, CloseWriter(emit) PROVE IInv'
  <2>1. /\ writer /\ op.call = None
        /\ op' = [call |-> IF bad = <<>> THEN "closing" ELSE "erasing", emit |-> emit]
        /\ UNCHANGED <<exists, recs, tail, landed, inst, meta, sections, lock, writer, bad,
                       written, crashes>>
    BY <1>2 DEF CloseWriter, fileVars
  <2>2. Types'
    BY <1>0, <2>1 DEF Types, TypeOK, Calls
  <2>3. WriterIsReady'
    BY <1>0, <2>1 DEF WriterIsReady, None
  <2> QED BY <2>1, <2>2, <2>3, SameFile DEF Keep, None
<1>3. CASE Ready /\ CommitBadBlock
  <2>1. /\ op.call = None /\ inst = "ready" /\ bad # <<>> /\ exists
        /\ lock' = "write" /\ writer' = TRUE
        /\ op' \in {[Idle EXCEPT !.call = "erasing"], [Idle EXCEPT !.call = "committing"]}
        /\ UNCHANGED <<exists, recs, tail, landed, inst, meta, sections, bad, written, crashes>>
    <3>1. op.call = None /\ inst = "ready" /\ bad # <<>>
      BY <1>3 DEF CommitBadBlock, Ready
    <3>2. UNCHANGED <<exists, recs, tail, landed, inst, meta, sections, bad, written, crashes>>
      BY <1>3 DEF CommitBadBlock, fileVars
    <3>3. CASE /\ writer /\ lock = "write" /\ UNCHANGED <<lock, writer>>
               /\ op' = [Idle EXCEPT !.call = "committing"]
      <4>1. exists /\ writer = TRUE
        BY <1>0, <3>3 DEF WriterIsReady, Types, TypeOK
      <4> QED BY <3>1, <3>2, <3>3, <4>1
    <3>4. CASE /\ exists /\ op' = [Idle EXCEPT !.call = "erasing"]
               /\ lock' = "write" /\ writer' = TRUE
      BY <3>1, <3>2, <3>4
    <3> QED BY <1>3, <3>3, <3>4 DEF CommitBadBlock, NothingThere
  <2>2. op'.call \in {"committing", "erasing"} /\ op' \in [call : Calls, emit : BOOLEAN]
    BY <2>1 DEF Idle, Calls
  <2>3. Types'
    BY <1>0, <2>1, <2>2 DEF Types, TypeOK
  <2>4. WriterIsReady'
    BY <1>0, <2>1, <2>2 DEF WriterIsReady, NothingThere
  <2> QED BY <2>1, <2>2, <2>3, <2>4, SameFile DEF Keep, None
<1>4. CASE (Ready /\ StartEmitting) \/ StopEmitting
  <2>1. /\ op.call = None /\ ~writer /\ lock' \in {"emit", None}
        /\ UNCHANGED <<exists, recs, tail, landed, inst, meta, sections, writer, bad, op,
                       written, crashes>>
    BY <1>0, <1>4 DEF StartEmitting, StopEmitting, fileVars, WriterIsReady, None
  <2>2. Types'
    BY <1>0, <2>1 DEF Types, TypeOK
  <2>3. WriterIsReady'
    BY <1>0, <2>1 DEF WriterIsReady, None
  <2> QED BY <2>1, <2>2, <2>3, SameFile DEF Keep
<1> QED BY <1>1, <1>2, <1>3, <1>4

-----------------------------------------------------------------------------
(* Writing. *)

\* The header is no section and erases none.
LEMMA CreateEndInv ==
    ASSUME IInv, CreateEnd, Keep
    PROVE  IInv'
<1>1. /\ op.call = "creating" /\ op' = Idle /\ writer' = TRUE /\ meta' = TRUE /\ Append1(Header)
      /\ inst = "ready" /\ lock = "write" /\ exists
      /\ UNCHANGED <<exists, tail, landed, inst, sections, lock, bad, written, crashes, stored, erased>>
  BY DEF CreateEnd, Keep, IInv, WriterIsReady, None
<1>2. Header \in Records /\ Header.kind = "header"
  BY DEF Records, Header
<1>3. \A i : IsBad(i)' <=> IsBad(i)
  BY <1>1 DEF IsBad
<1>4. /\ recs \in Seq(Records) /\ Len(recs) \in Nat /\ DOMAIN recs = 1..Len(recs)
      /\ landed \in 0..Len(recs)
  BY DEF IInv, Types, TypeOK
<1>5. /\ recs' \in Seq(Records) /\ Len(recs') = Len(recs) + 1
      /\ \A i \in 1..Len(recs) : recs'[i] = recs[i]
      /\ IdsGrow' /\ ErasuresFollow' /\ StoredHasLanded' /\ ErasedHasLanded'
  BY <1>1, <1>2, <1>3, AppendStep
<1>6. op' \in [call : Calls, emit : BOOLEAN] /\ op'.call = None
  BY <1>1 DEF Idle, Calls
<1>7. Types'
  BY <1>1, <1>4, <1>5, <1>6 DEF IInv, Types, TypeOK
<1>8. WriterIsReady'
  BY <1>1, <1>6 DEF WriterIsReady, None
<1>9. \A i : i \in Alive(recs') <=> i \in Alive(recs)
  BY <1>1, <1>2, <1>4, AliveAppend DEF Append1
<1>10. \A i : ~Pending(i) /\ ~Pending(i)'
  BY <1>1, <1>6 DEF Pending, None
<1>11. \A i \in Alive(recs) : recs'[i] = recs[i]
  BY <1>4, <1>5 DEF Alive
<1>12. AliveIsKnown'
  BY <1>1, <1>3, <1>9, <1>10, <1>11 DEF IInv, AliveIsKnown, IsKnown
<1> QED BY <1>5, <1>7, <1>8, <1>12 DEF IInv

\* A section that is being written is alive, and not known yet.
LEMMA WritePartInv ==
    ASSUME IInv, WritePart, Keep
    PROVE  IInv'
<1> DEFINE x == Section(written + 1)
<1>1. /\ writer /\ op.call = None /\ inst = "ready" /\ lock = "write" /\ exists
      /\ op' = [Idle EXCEPT !.call = "writing"] /\ Append1(x) /\ written' = written + 1
      /\ written < MaxSections
      /\ UNCHANGED <<exists, tail, landed, inst, meta, sections, lock, writer, bad, crashes,
                     stored, erased>>
  BY DEF WritePart, Keep, IInv, WriterIsReady
<1>2. /\ recs \in Seq(Records) /\ Len(recs) \in Nat /\ DOMAIN recs = 1..Len(recs)
      /\ landed \in 0..Len(recs) /\ written \in 0..MaxSections /\ MaxSections \in Nat
  BY CacheFileAssumption DEF IInv, Types, TypeOK
<1>3. x \in Records /\ x.kind = "section" /\ x.id = written + 1
  BY <1>2 DEF Records, Section
<1> HIDE DEF x
<1>4. \A i : IsBad(i)' <=> IsBad(i)
  BY <1>1 DEF IsBad
<1>5. /\ recs' \in Seq(Records) /\ Len(recs') = Len(recs) + 1
      /\ \A i \in 1..Len(recs) : recs'[i] = recs[i]
      /\ recs'[Len(recs) + 1] = x
      /\ IdsGrow' /\ ErasuresFollow' /\ StoredHasLanded' /\ ErasedHasLanded'
  BY <1>1, <1>3, <1>4, AppendStep
<1>6. op' \in [call : Calls, emit : BOOLEAN] /\ op'.call = "writing"
  BY <1>1 DEF Idle, Calls
<1>7. Types'
  BY <1>1, <1>2, <1>5, <1>6 DEF IInv, Types, TypeOK
<1>8. WriterIsReady'
  BY <1>1, <1>2, <1>3, <1>5, <1>6 DEF WriterIsReady, IsSection
<1>9. \A i : i \in Alive(recs') <=> i \in Alive(recs) \/ i = Len(recs) + 1
  BY <1>1, <1>2, <1>3, AliveAppend DEF Append1
<1>10. \A i : ~Pending(i) /\ (Pending(i)' <=> i = Len(recs) + 1)
  BY <1>1, <1>5, <1>6 DEF Pending, None
<1>11. \A i \in Alive(recs) : recs'[i] = recs[i] /\ i # Len(recs) + 1
  BY <1>2, <1>5 DEF Alive
<1>12. AliveIsKnown'
  BY <1>1, <1>4, <1>9, <1>10, <1>11 DEF IInv, AliveIsKnown, IsKnown
<1> QED BY <1>5, <1>7, <1>8, <1>12 DEF IInv

\* ... and when it is, at the place where it stands.
LEMMA WriteEndInv ==
    ASSUME IInv, WriteEnd, Keep
    PROVE  IInv'
<1> DEFINE n == Len(recs)
           part == Part(n, recs[n].id)
<1>1. /\ op.call = "writing" /\ op' = Idle /\ sections' = Append(sections, part)
      /\ inst = "ready" /\ lock = "write" /\ exists /\ IsSection(n)
      /\ UNCHANGED <<exists, recs, tail, landed, inst, meta, lock, writer, bad, written, crashes,
                     stored, erased>>
  BY DEF WriteEnd, Keep, IInv, WriterIsReady, None, fileVars, Last
<1>2. n \in Nat /\ recs[n].id \in Nat /\ DOMAIN recs = 1..n
  <2>1. written \in Nat /\ recs[n].id \in 1..written /\ n \in Nat
    BY <1>1, CacheFileAssumption DEF IInv, IdsGrow, IsSection, Types, TypeOK
  <2> QED BY <2>1 DEF IInv, Types
<1>3. part \in [at : Nat, id : Nat] /\ part.at = n /\ part.id = recs[n].id
  BY <1>2 DEF Part
<1> HIDE DEF part
<1>4. sections \in Seq([at : Nat, id : Nat])
  BY DEF IInv, Types
<1>5. /\ sections' \in Seq([at : Nat, id : Nat])
      /\ \A k \in DOMAIN sections : k \in DOMAIN sections' /\ sections'[k] = sections[k]
      /\ \E last \in DOMAIN sections' :
             /\ sections'[last].at = n /\ sections'[last].id = recs[n].id
             /\ \A k \in DOMAIN sections' : k = last \/ k \in DOMAIN sections
  <2> DEFINE T == [at : Nat, id : Nat]
  <2>1. part \in T /\ sections \in Seq(T) /\ sections' = Append(sections, part)
    BY <1>1, <1>3, <1>4
  <2> HIDE DEF T
  <2>2. /\ sections' \in Seq(T)
        /\ \A k \in DOMAIN sections : k \in DOMAIN sections' /\ sections'[k] = sections[k]
        /\ \E last \in DOMAIN sections' :
               /\ sections'[last] = part
               /\ \A k \in DOMAIN sections' : k = last \/ k \in DOMAIN sections
    BY <2>1, Longer
  <2> QED BY <1>3, <2>2 DEF T
<1>6. op' \in [call : Calls, emit : BOOLEAN] /\ op'.call = None
  BY <1>1 DEF Idle, Calls
<1>7. Types'
  BY <1>1, <1>6, <1>5 DEF IInv, Types, TypeOK
<1>8. WriterIsReady'
  BY <1>1, <1>6 DEF IInv, WriterIsReady, None
<1>9. IdsGrow' /\ ErasuresFollow' /\ ErasedHasLanded' /\ StoredHasLanded'
  BY <1>1 DEF IInv, IdsGrow, ErasuresFollow, ErasedHasLanded, StoredHasLanded, IsSection, IsErase,
              IsBad
<1>10. n \in Alive(recs)
  BY <1>1, <1>2 DEF Alive, IsSection
<1>11. \A i : (Pending(i) <=> i = n) /\ ~Pending(i)' /\ (IsBad(i)' <=> IsBad(i))
  BY <1>1, <1>6 DEF Pending, IsBad, None
<1> HIDE DEF n
<1>12. ~IsBad(n) /\ \A k \in DOMAIN sections : sections[k].at # n
  BY <1>1, <1>11 DEF IInv, AliveIsKnown, IsBad
<1>13. \A i : IsKnown(i) \/ i = n => IsKnown(i)'
  BY <1>5 DEF IsKnown
<1>14. \A k \in DOMAIN sections' :
           \/ k \in DOMAIN sections /\ sections'[k] = sections[k]
           \/ k \notin DOMAIN sections /\ sections'[k].at = n /\ sections'[k].id = recs[n].id
  BY <1>5
<1>15. AliveIsKnown'
  <2>0. recs' = recs /\ inst' = "ready" /\ bad' = bad
    BY <1>1
  <2>1. \A i \in Alive(recs) : IsKnown(i)' \/ IsBad(i)' \/ Pending(i)'
    BY <1>1, <1>11, <1>13 DEF IInv, AliveIsKnown
  <2>2. ASSUME NEW k \in DOMAIN sections'
        PROVE  /\ sections'[k].at \in Alive(recs)
               /\ sections'[k].id = recs[sections'[k].at].id
               /\ ~IsBad(sections'[k].at)
    BY <1>1, <1>10, <1>12, <1>14 DEF IInv, AliveIsKnown
  <2>3. \A k, l \in DOMAIN sections' : sections'[k].at = sections'[l].at => k = l
    <3> TAKE k, l \in DOMAIN sections'
    <3> HAVE sections'[k].at = sections'[l].at
    <3>1. \A i, j \in DOMAIN sections : sections[i].at = sections[j].at => i = j
      BY <1>1 DEF IInv, AliveIsKnown
    <3>2. PICK last \in DOMAIN sections' :
              /\ sections'[last].at = n
              /\ \A i \in DOMAIN sections' : i = last \/ i \in DOMAIN sections
      BY <1>5
    <3>3. \A i \in DOMAIN sections : sections'[i].at # n
      BY <1>5, <1>12
    <3>4. CASE k = last \/ l = last
      BY <3>2, <3>3, <3>4
    <3>5. CASE k \in DOMAIN sections /\ l \in DOMAIN sections
      BY <1>5, <3>1, <3>5
    <3> QED BY <3>2, <3>4, <3>5
  <2>4. /\ \A k \in DOMAIN bad : bad[k] \in Alive(recs)
        /\ \A k, l \in DOMAIN bad : bad[k] = bad[l] => k = l
    BY <1>1 DEF IInv, AliveIsKnown
  <2> QED BY <1>11, <2>0, <2>1, <2>2, <2>3, <2>4 DEF AliveIsKnown
<1> QED BY <1>7, <1>8, <1>9, <1>15 DEF IInv

\* The first of the bad sections is erased, and is not bad any more.
LEMMA EraseNextInv ==
    ASSUME IInv, EraseNext, Keep
    PROVE  IInv'
<1> DEFINE x == Erase(Head(bad))
<1>1. /\ op.call \in {"committing", "erasing"} /\ bad # <<>> /\ bad' = Tail(bad) /\ Append1(x)
      /\ op' = IF bad' # <<>> THEN op
               ELSE IF op.call = "erasing" THEN [op EXCEPT !.call = "closing"] ELSE Idle
      /\ inst = "ready" /\ lock = "write" /\ exists
      /\ UNCHANGED <<exists, tail, landed, inst, meta, sections, lock, writer, written, crashes,
                     stored, erased>>
  BY DEF EraseNext, Keep, IInv, WriterIsReady, None
<1>2. /\ bad \in Seq(Nat) /\ Head(bad) = bad[1] /\ bad[1] \in Nat /\ 1 \in DOMAIN bad
      /\ bad' \in Seq(Nat) /\ (Len(bad) = 1 <=> bad' = <<>>)
      /\ \A k \in DOMAIN bad' :
             k \in Int /\ k + 1 \in DOMAIN bad /\ k + 1 # 1 /\ bad'[k] = bad[k + 1]
      /\ \A k \in DOMAIN bad : k = 1 \/ \E j \in DOMAIN bad' : bad'[j] = bad[k]
  <2>1. bad \in Seq(Nat)
    BY DEF IInv, Types
  <2> QED BY <1>1, <2>1, Shorter
<1>3. x \in Records /\ x.kind = "erase" /\ x.at = bad[1]
  BY <1>2 DEF Records, Erase
<1> HIDE DEF x
<1>4. /\ recs \in Seq(Records) /\ Len(recs) \in Nat /\ DOMAIN recs = 1..Len(recs)
      /\ landed \in 0..Len(recs) /\ written \in Nat
  BY CacheFileAssumption DEF IInv, Types, TypeOK
<1>5. \A k, l \in DOMAIN bad : bad[k] = bad[l] => k = l
  BY <1>1 DEF IInv, AliveIsKnown
<1>6. \A i : IsBad(i)' <=> IsBad(i) /\ i # bad[1]
  <2> TAKE i
  <2>1. ASSUME IsBad(i)' PROVE IsBad(i) /\ i # bad[1]
    <3>1. PICK k \in DOMAIN bad' : bad'[k] = i
      BY <2>1 DEF IsBad
    <3>2. k + 1 \in DOMAIN bad /\ k + 1 # 1 /\ bad[k + 1] = i
      BY <1>2, <3>1
    <3> QED BY <1>2, <1>5, <3>2 DEF IsBad
  <2>2. ASSUME IsBad(i), i # bad[1] PROVE IsBad(i)'
    BY <1>2, <2>2 DEF IsBad
  <2> QED BY <2>1, <2>2
<1>7. IsBad(x.at)
  BY <1>2, <1>3 DEF IsBad
<1>8. /\ recs' \in Seq(Records) /\ Len(recs') = Len(recs) + 1
      /\ \A i \in 1..Len(recs) : recs'[i] = recs[i]
      /\ IdsGrow' /\ ErasuresFollow' /\ StoredHasLanded' /\ ErasedHasLanded'
  BY <1>1, <1>3, <1>6, <1>7, AppendStep
<1>9. /\ op' \in [call : Calls, emit : BOOLEAN]
      /\ op'.call \in IF bad' = <<>> THEN {"closing", None} ELSE {"committing", "erasing"}
  <2>1. op \in [call : Calls, emit : BOOLEAN]
    BY DEF IInv, Types, TypeOK
  <2>2. CASE bad' # <<>>
    BY <1>1, <2>1, <2>2
  <2>3. CASE bad' = <<>>
    BY <1>1, <2>1, <2>3 DEF Calls, Idle
  <2> QED BY <2>2, <2>3
<1>10. Types'
  <2>1. landed \in 0..Len(recs')
    BY <1>4, <1>8
  <2>2. TypeOK
    BY DEF IInv, Types
  <2>3. TypeOK'
    BY <1>1, <1>9, <2>1, <2>2 DEF TypeOK
  <2> QED BY <1>1, <1>2, <1>8, <2>3 DEF IInv, Types
<1>12. WriterIsReady'
  BY <1>1, <1>9 DEF WriterIsReady, None
<1>13. \A i : i \in Alive(recs') <=> i \in Alive(recs) /\ i # bad[1]
  BY <1>1, <1>3, <1>4, AliveAppend DEF Append1
<1>14. \A i : ~Pending(i) /\ ~Pending(i)'
  BY <1>1, <1>9 DEF Pending, None
<1>15. \A i \in Alive(recs) : recs'[i] = recs[i]
  BY <1>4, <1>8 DEF Alive
<1>16. AliveIsKnown'
  <2>1. \A k \in DOMAIN sections : sections[k].at # bad[1]
    BY <1>1, <1>2 DEF IInv, AliveIsKnown, IsBad
  <2>2. \A k \in DOMAIN bad' : bad'[k] \in Alive(recs) /\ bad'[k] # bad[1]
    BY <1>1, <1>2, <1>5 DEF IInv, AliveIsKnown
  <2>3. \A k, l \in DOMAIN bad' : bad'[k] = bad'[l] => k = l
    <3> TAKE k, l \in DOMAIN bad'
    <3> HAVE bad'[k] = bad'[l]
    <3>1. k + 1 \in DOMAIN bad /\ l + 1 \in DOMAIN bad /\ bad[k + 1] = bad[l + 1]
      BY <1>2
    <3>2. k + 1 = l + 1 /\ k \in Int /\ l \in Int
      BY <1>2, <1>5, <3>1
    <3> QED BY <3>2
  <2> QED BY <1>1, <1>6, <1>13, <1>14, <1>15, <2>1, <2>2, <2>3 DEF IInv, AliveIsKnown, IsKnown
<1> QED BY <1>8, <1>10, <1>12, <1>16 DEF IInv

\* markBad(): the section is bad from now on, and known no more.
LEMMA MarkedInv ==
    ASSUME IInv, Marked
    PROVE  IInv'
<1>1. PICK i \in DOMAIN sections :
          /\ inst = "ready" /\ op.call = None
          /\ sections' = RemoveAt(sections, i) /\ bad' = Append(bad, sections[i].at)
          /\ stored' = stored \ {sections[i].id}
          /\ UNCHANGED <<exists, recs, tail, landed, inst, meta, lock, writer, op, written,
                         crashes, erased>>
  BY DEF Marked, MarkBad, Ready, fileVars
<1> DEFINE at == sections[i].at
           T == [at : Nat, id : Nat]
<1>2. sections \in Seq(T) /\ bad \in Seq(Nat) /\ recs \in Seq(Records)
  BY DEF IInv, Types
<1>3. at \in Nat
  <2>1. sections[i] \in T
    <3> HIDE DEF T
    <3> QED BY <1>2
  <2> QED BY <2>1
<1>4. /\ sections' \in Seq(T)
      /\ \A k \in DOMAIN sections' :
             \E j \in DOMAIN sections \ {i} :
                 j = (IF k < i THEN k ELSE k + 1) /\ sections'[k] = sections[j]
      /\ \A j \in DOMAIN sections \ {i} :
             \E k \in DOMAIN sections' : sections'[k] = sections[j]
      /\ \A k \in DOMAIN sections' : k \in Int
  BY <1>1, <1>2, Removed1
<1>5. /\ bad' \in Seq(Nat)
      /\ \A k \in DOMAIN bad : k \in DOMAIN bad' /\ bad'[k] = bad[k]
      /\ \E last \in DOMAIN bad' :
             bad'[last] = at /\ \A k \in DOMAIN bad' : k = last \/ k \in DOMAIN bad
  <2>1. bad' = Append(bad, at)
    BY <1>1
  <2>2. bad \in Seq(Nat)
    BY <1>2
  <2> HIDE DEF at
  <2> QED BY <1>3, <2>1, <2>2, Longer
<1>6. sections[i].id = recs[at].id /\ at \in Alive(recs) /\ ~IsBad(at)
  BY <1>1 DEF IInv, AliveIsKnown
<1>7. \A k \in DOMAIN sections : sections[k].at = at => k = i
  BY <1>1 DEF IInv, AliveIsKnown
<1> HIDE DEF at, T
<1>8. \A q : IsBad(q)' <=> IsBad(q) \/ q = at
  BY <1>5 DEF IsBad
<1>9. \A q : IsKnown(q) /\ q # at => IsKnown(q)'
  <2> TAKE q
  <2> HAVE IsKnown(q) /\ q # at
  <2>1. PICK j \in DOMAIN sections : sections[j].at = q
    BY DEF IsKnown
  <2>2. j # i
    BY <2>1 DEF at
  <2> QED BY <1>4, <2>1, <2>2 DEF IsKnown
<1>10. \A q : ~Pending(q) /\ ~Pending(q)'
  BY <1>1 DEF Pending, None
<1>11. AliveIsKnown'
  <2>1. \A q \in Alive(recs) : IsKnown(q)' \/ IsBad(q)'
    BY <1>1, <1>8, <1>9, <1>10 DEF IInv, AliveIsKnown
  <2>2. ASSUME NEW k \in DOMAIN sections'
        PROVE  /\ sections'[k].at \in Alive(recs)
               /\ sections'[k].id = recs[sections'[k].at].id
               /\ \A l \in DOMAIN bad' : bad'[l] # sections'[k].at
    <3>1. PICK j \in DOMAIN sections \ {i} : sections'[k] = sections[j]
      BY <1>4
    <3>2. /\ sections[j].at \in Alive(recs) /\ sections[j].id = recs[sections[j].at].id
          /\ ~IsBad(sections[j].at) /\ sections[j].at # at
      BY <1>1, <1>7, <3>1 DEF IInv, AliveIsKnown
    <3>3. \A l \in DOMAIN bad' : bad'[l] # sections[j].at
      BY <1>5, <3>2 DEF IsBad
    <3> QED BY <3>1, <3>2, <3>3
  <2>3. \A k, l \in DOMAIN sections' : sections'[k].at = sections'[l].at => k = l
    <3> TAKE k, l \in DOMAIN sections'
    <3> HAVE sections'[k].at = sections'[l].at
    <3>1. PICK j \in DOMAIN sections \ {i} :
              j = (IF k < i THEN k ELSE k + 1) /\ sections'[k] = sections[j]
      BY <1>4
    <3>2. PICK m \in DOMAIN sections \ {i} :
              m = (IF l < i THEN l ELSE l + 1) /\ sections'[l] = sections[m]
      BY <1>4
    <3>3. j = m
      BY <1>1, <3>1, <3>2 DEF IInv, AliveIsKnown
    <3>4. k \in Int /\ l \in Int /\ i \in Int
      BY <1>2, <1>4
    <3> QED BY <3>1, <3>2, <3>3, <3>4
  <2>4. \A k \in DOMAIN bad' : bad'[k] \in Alive(recs)
    BY <1>1, <1>5, <1>6 DEF IInv, AliveIsKnown
  <2>5. \A k, l \in DOMAIN bad' : bad'[k] = bad'[l] => k = l
    <3>1. \A k, l \in DOMAIN bad : bad[k] = bad[l] => k = l
      BY <1>1 DEF IInv, AliveIsKnown
    <3>2. \A k \in DOMAIN bad : bad'[k] # at
      BY <1>5, <1>6 DEF IsBad
    <3>3. PICK last \in DOMAIN bad' :
              bad'[last] = at /\ \A k \in DOMAIN bad' : k = last \/ k \in DOMAIN bad
      BY <1>5
    <3> TAKE k, l \in DOMAIN bad'
    <3> HAVE bad'[k] = bad'[l]
    <3>4. CASE k = last \/ l = last
      BY <3>2, <3>3, <3>4
    <3>5. CASE k \in DOMAIN bad /\ l \in DOMAIN bad
      BY <1>5, <3>1, <3>5
    <3> QED BY <3>3, <3>4, <3>5
  <2>6. recs' = recs
    BY <1>1
  <2>7. \A k \in DOMAIN sections' : ~IsBad(sections[k].at)'
    BY <2>2 DEF IsBad
  <2>8. op'.call # "writing"
    BY <1>1 DEF None
  <2> QED BY <2>1, <2>2, <2>3, <2>4, <2>5, <2>6, <2>7, <2>8 DEF AliveIsKnown, Pending
<1>12. StoredHasLanded'
  <2> SUFFICES ASSUME NEW id \in stored, id # sections[i].id
               PROVE  \E q \in 1..landed : /\ q \in Alive(recs) /\ recs[q].id = id
                                           /\ ~IsBad(q)'
    BY <1>1 DEF StoredHasLanded
  <2>1. PICK q \in 1..landed : q \in Alive(recs) /\ recs[q].id = id /\ ~IsBad(q)
    BY <1>1 DEF IInv, StoredHasLanded
  <2>2. q # at
    BY <1>6, <2>1
  <2> QED BY <1>8, <2>1, <2>2
<1>13. Types' /\ WriterIsReady'
  <2>1. Types'
    BY <1>1, <1>4, <1>5 DEF IInv, Types, TypeOK, T
  <2>2. WriterIsReady'
    BY <1>1 DEF IInv, WriterIsReady, IsSection, None
  <2> QED BY <2>1, <2>2
<1>14. IdsGrow' /\ ErasuresFollow' /\ ErasedHasLanded'
  BY <1>1 DEF IInv, IdsGrow, ErasuresFollow, ErasedHasLanded, IsSection, IsErase
<1> QED BY <1>11, <1>12, <1>13, <1>14 DEF IInv

-----------------------------------------------------------------------------
(* The end of the writer, of the file, of the process. *)

\* The end of the stream: every record has landed, and no bad section is left.
LEMMA ClosedInv ==
    ASSUME IInv, Closed
    PROVE  IInv'
<1>1. /\ op.call = "closing" /\ landed' = Len(recs) /\ writer' = FALSE
      /\ lock' = (IF op.emit THEN "emit" ELSE None) /\ op' = Idle
      /\ inst = "ready" /\ exists /\ bad = <<>>
      /\ stored' = Ids(sections)
      /\ UNCHANGED <<exists, recs, tail, inst, meta, sections, bad, written, crashes>>
  BY DEF Closed, CloseEnd, IInv, WriterIsReady, None
<1>2. \A id \in erased' :
          id \in erased \/ \E j \in DOMAIN recs : recs[j].kind = "erase" /\ recs[recs[j].at].id = id
  BY DEF Closed
<1>3. /\ recs \in Seq(Records) /\ Len(recs) \in Nat /\ DOMAIN recs = 1..Len(recs)
      /\ landed \in 0..Len(recs)
  BY DEF IInv, Types, TypeOK
<1>4. op' \in [call : Calls, emit : BOOLEAN] /\ op'.call = None
  BY <1>1 DEF Idle, Calls
<1>5. Types'
  <2>1. landed' \in 0..Len(recs') /\ lock' \in {None, "write", "emit"} /\ writer' \in BOOLEAN
    <3>1. recs' = recs /\ landed' = Len(recs)
      BY <1>1
    <3>2. landed' \in 0..Len(recs')
      BY <1>3, <3>1
    <3>3. lock' \in {None, "write", "emit"} /\ writer' \in BOOLEAN
      BY <1>1
    <3> QED BY <3>2, <3>3
  <2>2. UNCHANGED <<exists, tail, inst, meta, written, crashes>>
    BY <1>1
  <2>3. TypeOK
    BY DEF IInv, Types
  <2>4. TypeOK'
    BY <1>4, <2>1, <2>2, <2>3 DEF TypeOK
  <2> QED BY <1>1, <2>4 DEF IInv, Types
<1>6. WriterIsReady'
  BY <1>1, <1>4 DEF IInv, WriterIsReady, None
<1>7. IdsGrow' /\ ErasuresFollow'
  BY <1>1 DEF IInv, IdsGrow, ErasuresFollow, IsSection, IsErase
<1>8. \A i : ~Pending(i) /\ ~Pending(i)' /\ ~IsBad(i)' /\ ~IsBad(i)
  BY <1>1, <1>4 DEF Pending, IsBad, None
<1>9. AliveIsKnown'
  BY <1>1, <1>8 DEF IInv, AliveIsKnown, IsKnown
<1>10. StoredHasLanded'
  <2> SUFFICES ASSUME NEW k \in DOMAIN sections
               PROVE  \E i \in 1..Len(recs) : i \in Alive(recs) /\ recs[i].id = sections[k].id
    BY <1>1, <1>8 DEF StoredHasLanded, Ids
  <2>1. sections[k].at \in Alive(recs) /\ sections[k].id = recs[sections[k].at].id
    BY <1>1 DEF IInv, AliveIsKnown
  <2>2. sections[k].at \in 1..Len(recs)
    BY <1>3, <2>1 DEF Alive
  <2> QED BY <2>1, <2>2
<1>11. ErasedHasLanded'
  <2> SUFFICES ASSUME NEW id \in erased'
               PROVE  /\ id \in 1..written
                      /\ \A i \in DOMAIN recs : IsSection(i) /\ recs[i].id = id =>
                             \E j \in 1..Len(recs) : IsErase(j) /\ recs[j].at = i
    BY <1>1 DEF ErasedHasLanded, IsSection, IsErase
  <2>1. CASE id \in erased
    <3>1. landed <= Len(recs) /\ landed \in Nat
      BY <1>3
    <3>2. /\ id \in 1..written
          /\ \A i \in DOMAIN recs : IsSection(i) /\ recs[i].id = id =>
                 \E j \in 1..landed : IsErase(j) /\ recs[j].at = i
      BY <2>1 DEF IInv, ErasedHasLanded
    <3>3. 1..landed \subseteq 1..Len(recs)
      BY <1>3, <3>1
    <3> QED BY <3>2, <3>3
  <2>2. CASE id \notin erased
    <3>1. PICK j \in DOMAIN recs : recs[j].kind = "erase" /\ recs[recs[j].at].id = id
      BY <1>2, <2>2
    <3>2. IsErase(j) /\ IsSection(recs[j].at)
      BY <3>1 DEF IInv, ErasuresFollow, IsErase
    <3>3. id \in 1..written
      BY <3>1, <3>2 DEF IInv, IdsGrow, IsSection
    <3>4. ASSUME NEW i \in DOMAIN recs, IsSection(i), recs[i].id = id PROVE recs[j].at = i
      <4> DEFINE a == recs[j].at
      <4>1. a \in DOMAIN recs /\ IsSection(a) /\ recs[a].id = id
        BY <3>1, <3>2 DEF IsSection
      <4>2. ~(a < i) /\ ~(i < a)
        <5>1. \A p, q \in DOMAIN recs :
                  IsSection(p) /\ IsSection(q) /\ p < q => recs[p].id < recs[q].id
          BY DEF IInv, IdsGrow
        <5>2. written \in Nat
          BY CacheFileAssumption DEF IInv, Types, TypeOK
        <5>3. ~(id < id)
          BY <3>3, <5>2
        <5> QED BY <3>4, <4>1, <5>1, <5>3
      <4>3. a \in Nat /\ i \in Nat
        BY <1>3, <4>1
      <4> HIDE DEF a
      <4>4. a = i
        BY <4>2, <4>3
      <4> QED BY <4>4 DEF a
    <3> QED BY <1>3, <3>2, <3>3, <3>4
  <2> QED BY <2>1, <2>2
<1> QED BY <1>5, <1>6, <1>7, <1>9, <1>10, <1>11 DEF IInv

\* destroy(): nothing is stored any more, and nothing can come back.
LEMMA RemovedInv ==
    ASSUME IInv, Removed
    PROVE  IInv'
<1>1. /\ op.call = None /\ inst' = "gone" /\ exists' = FALSE /\ recs' = <<>> /\ landed' = 0
      /\ tail' = None /\ lock' = None /\ writer' = FALSE /\ stored' = {}
      /\ UNCHANGED <<meta, sections, bad, op, written, crashes, erased>>
  BY DEF Removed, Destroy
<1>2. Types'
  <2>1. recs' \in Seq(Records) /\ Len(recs') = 0
    BY <1>1
  <2>2. TypeOK
    BY DEF IInv, Types
  <2>3. landed' \in 0..Len(recs')
    BY <1>1, <2>1
  <2>4. TypeOK'
    BY <1>1, <2>2, <2>3 DEF TypeOK
  <2> QED BY <1>1, <2>1, <2>4 DEF IInv, Types
<1>3. WriterIsReady'
  BY <1>1 DEF IInv, WriterIsReady, None
<1> QED BY <1>1, <1>2, <1>3 DEF IInv, IdsGrow, ErasuresFollow, AliveIsKnown, StoredHasLanded,
                          ErasedHasLanded

\* A process that ends: a prefix of the records is left, and all that landed.
LEMMA CrashInv ==
    ASSUME IInv, Crash, Keep
    PROVE  IInv'
<1>1. PICK k \in landed..Len(recs) : \E torn \in TornEnds(k) \union TornHeader : Survives(k, torn)
  BY DEF Crash
<1>2. /\ recs' = SubSeq(recs, 1, k) /\ landed' = k
      /\ tail' \in {None, "head", "data"}
      /\ inst' = "new" /\ meta' = FALSE /\ sections' = <<>> /\ lock' = None /\ writer' = FALSE
      /\ bad' = <<>> /\ op' = Idle
      /\ crashes < MaxCrashes /\ crashes' = crashes + 1
      /\ UNCHANGED <<exists, written, stored, erased>>
  BY <1>1 DEF Crash, Restarted, Survives, TornEnds, TornHeader, Keep, IInv, Types, TypeOK
<1>3. /\ recs \in Seq(Records) /\ Len(recs) \in Nat /\ DOMAIN recs = 1..Len(recs)
      /\ landed \in 0..Len(recs) /\ crashes \in 0..MaxCrashes /\ MaxCrashes \in Nat
  BY CacheFileAssumption DEF IInv, Types, TypeOK
<1>4. k \in 0..Len(recs) /\ landed <= k
  BY <1>3
<1>5. /\ recs' \in Seq(Records) /\ Len(recs') = k /\ DOMAIN recs' = 1..k
      /\ \A i \in 1..k : recs'[i] = recs[i]
      /\ \A i \in 1..k : i \in Alive(recs) => i \in Alive(recs')
  BY <1>2, <1>3, <1>4, AlivePrefix
<1>6. 1..k \subseteq 1..Len(recs) /\ 1..landed \subseteq 1..k /\ k \in Nat
  BY <1>3, <1>4
<1>7. \A i \in 1..k : (IsSection(i)' <=> IsSection(i)) /\ (IsErase(i)' <=> IsErase(i))
  BY <1>3, <1>5, <1>6 DEF IsSection, IsErase
<1>8. op' \in [call : Calls, emit : BOOLEAN] /\ op'.call = None
  BY <1>2 DEF Idle, Calls
<1>9. Types'
  <2>1. landed' \in 0..Len(recs') /\ crashes' \in 0..MaxCrashes
    BY <1>2, <1>3, <1>4, <1>5
  <2>2. TypeOK'
    BY <1>2, <1>8, <2>1 DEF IInv, Types, TypeOK
  <2>3. sections' \in Seq([at : Nat, id : Nat]) /\ bad' \in Seq(Nat)
    BY <1>2
  <2> QED BY <1>5, <2>2, <2>3 DEF Types
<1>10. WriterIsReady'
  <2>1. ~exists => recs' = <<>>
    <3>1. ~exists => Len(recs) = 0
      BY DEF IInv, WriterIsReady
    <3>2. ~exists => k = 0
      BY <1>3, <1>4, <3>1
    <3> QED BY <1>5, <3>2
  <2> QED BY <1>2, <1>8, <2>1 DEF WriterIsReady, None
<1>11. IdsGrow'
  BY <1>2, <1>3, <1>5, <1>6, <1>7 DEF IInv, IdsGrow
<1>12. ErasuresFollow'
  <2> SUFFICES ASSUME NEW j \in 1..k, IsErase(j)' PROVE recs'[j].at < j /\ IsSection(recs[j].at)'
    BY <1>5 DEF ErasuresFollow
  <2>1. recs[j].at < j /\ IsSection(recs[j].at)
    BY <1>3, <1>6, <1>7 DEF IInv, ErasuresFollow
  <2>2. recs[j].at \in 1..k
    BY <1>3, <1>4, <2>1 DEF IsSection
  <2> QED BY <1>5, <1>7, <2>1, <2>2
<1>13. AliveIsKnown'
  BY <1>2 DEF AliveIsKnown
<1>14. StoredHasLanded'
  BY <1>2, <1>5, <1>6 DEF IInv, StoredHasLanded
<1>15. ErasedHasLanded'
  <2> SUFFICES ASSUME NEW id \in erased
               PROVE  /\ id \in 1..written
                      /\ \A i \in 1..k : IsSection(i)' /\ recs'[i].id = id =>
                             \E j \in 1..k : IsErase(j)' /\ recs'[j].at = i
    BY <1>2, <1>5 DEF ErasedHasLanded
  <2>1. /\ id \in 1..written
        /\ \A i \in DOMAIN recs : IsSection(i) /\ recs[i].id = id =>
               \E j \in 1..landed : IsErase(j) /\ recs[j].at = i
    BY DEF IInv, ErasedHasLanded
  <2>2. ASSUME NEW i \in 1..k, IsSection(i)', recs'[i].id = id
        PROVE  \E j \in 1..k : IsErase(j)' /\ recs'[j].at = i
    <3>1. i \in DOMAIN recs /\ IsSection(i) /\ recs[i].id = id
      BY <1>3, <1>5, <1>6, <1>7, <2>2
    <3>2. PICK j \in 1..landed : IsErase(j) /\ recs[j].at = i
      BY <2>1, <3>1
    <3>3. j \in 1..k
      BY <1>6
    <3> QED BY <1>5, <1>7, <3>2, <3>3
  <2> QED BY <2>1, <2>2
<1> QED BY <1>9, <1>10, <1>11, <1>12, <1>13, <1>14, <1>15 DEF IInv

\* A new instance knows nothing until it has read the file.
LEMMA RenewInv ==
    ASSUME IInv, Renew, Keep
    PROVE  IInv'
<1>1. /\ inst' = "new" /\ meta' = FALSE /\ sections' = <<>> /\ lock' = None /\ writer' = FALSE
      /\ bad' = <<>> /\ op' = Idle
      /\ UNCHANGED <<exists, recs, tail, landed, written, crashes, stored, erased>>
  BY DEF Renew, Restarted, Keep, fileVars
<1>2. op' \in [call : Calls, emit : BOOLEAN] /\ op'.call = None
  BY <1>1 DEF Idle, Calls
<1>3. Types'
  <2>1. TypeOK'
    BY <1>1, <1>2 DEF IInv, Types, TypeOK
  <2>2. sections' \in Seq([at : Nat, id : Nat]) /\ bad' \in Seq(Nat)
    BY <1>1
  <2> QED BY <1>1, <2>1, <2>2 DEF IInv, Types
<1>4. WriterIsReady'
  BY <1>1, <1>2 DEF IInv, WriterIsReady, None
<1>5. IdsGrow' /\ ErasuresFollow' /\ ErasedHasLanded' /\ AliveIsKnown'
  BY <1>1 DEF IInv, IdsGrow, ErasuresFollow, ErasedHasLanded, AliveIsKnown, IsSection, IsErase
<1>6. StoredHasLanded'
  BY <1>1 DEF IInv, StoredHasLanded
<1> QED BY <1>3, <1>4, <1>5, <1>6 DEF IInv

-----------------------------------------------------------------------------
(* Every step. *)

\* Each call of the owner, and each end of the process, keeps the invariant.
LEMMA StepIInv == IInv /\ [StoreNext]_allVars => IInv'
<1> SUFFICES ASSUME IInv, [StoreNext]_allVars PROVE IInv'
  OBVIOUS
<1>1. CASE OpenRead /\ Keep
  BY <1>1, OpenReadInv
<1>2. CASE Ready /\ ~meta /\ PrepareCreate /\ Keep
  BY <1>2, PrepareCreateInv
<1>3. CASE CreateEnd /\ Keep
  BY <1>3, CreateEndInv
<1>4. CASE /\ Keep
           /\ \/ Ready /\ PrepareAppend
              \/ \E emit \in BOOLEAN : CloseWriter(emit)
              \/ Ready /\ CommitBadBlock
              \/ Ready /\ StartEmitting
              \/ StopEmitting
  BY <1>4, SameFileInv
<1>5. CASE WritePart /\ Keep
  BY <1>5, WritePartInv
<1>6. CASE WriteEnd /\ Keep
  BY <1>6, WriteEndInv
<1>7. CASE EraseNext /\ Keep
  BY <1>7, EraseNextInv
<1>8. CASE Closed
  BY <1>8, ClosedInv
<1>9. CASE Marked
  BY <1>9, MarkedInv
<1>10. CASE Removed
  BY <1>10, RemovedInv
<1>11. CASE Crash /\ Keep
  BY <1>11, CrashInv
<1>12. CASE Renew /\ Keep
  BY <1>12, RenewInv
<1>13. CASE UNCHANGED allVars
  BY <1>13 DEF allVars, vars, fileVars, instVars, IInv, Types, TypeOK, IdsGrow, ErasuresFollow,
               WriterIsReady, AliveIsKnown, StoredHasLanded, ErasedHasLanded, IsSection,
               IsErase, IsBad, IsKnown, Pending
<1> QED BY <1>1, <1>2, <1>3, <1>4, <1>5, <1>6, <1>7, <1>8, <1>9, <1>10, <1>11, <1>12, <1>13
        DEF StoreNext

\* The inductive invariant of the store, of which the three promises follow.
THEOREM Inductive == StoreSpec => []IInv
<1> QED BY InitIInv, StepIInv, PTL DEF StoreSpec

\* What was in the file when a writer was closed, and is not marked bad, is
\* offered by every later instance that could be opened.
THEOREM Recovers == StoreSpec => []RecoversStored
<1>1. ASSUME IInv PROVE RecoversStored
  <2> SUFFICES ASSUME inst = "ready", NEW id \in stored PROVE id \in Ids(sections)
    BY DEF RecoversStored, Ready
  <2>1. PICK i \in 1..landed : i \in Alive(recs) /\ recs[i].id = id /\ ~IsBad(i)
    BY <1>1 DEF IInv, StoredHasLanded
  <2>2. ~Pending(i)
    <3>1. landed \in Nat /\ Len(recs) \in Nat
      BY <1>1 DEF IInv, Types, TypeOK
    <3>2. op.call = "writing" => landed < Len(recs)
      BY <1>1 DEF IInv, WriterIsReady
    <3> QED BY <3>1, <3>2 DEF Pending
  <2>3. PICK k \in DOMAIN sections : sections[k].at = i
    BY <1>1, <2>1, <2>2 DEF IInv, AliveIsKnown, IsKnown
  <2>4. sections[k].id = id
    BY <1>1, <2>1, <2>3 DEF IInv, AliveIsKnown
  <2> QED BY <2>4 DEF Ids
<1> QED BY <1>1, Inductive, PTL

\* A section whose erasure was in the file when it was closed is never offered
\* again, though the place it stood at may be written again.
THEOREM ErasedStays == StoreSpec => []ErasedStaysErased
<1>1. ASSUME IInv PROVE ErasedStaysErased
  <2> SUFFICES ASSUME inst = "ready", NEW k \in DOMAIN sections, sections[k].id \in erased
               PROVE  FALSE
    BY DEF ErasedStaysErased, Ready, Ids
  <2>1. sections[k].at \in Alive(recs) /\ sections[k].id = recs[sections[k].at].id
    BY <1>1 DEF IInv, AliveIsKnown
  <2>2. IsSection(sections[k].at)
    BY <2>1 DEF Alive, IsSection
  <2>3. PICK j \in 1..landed : IsErase(j) /\ recs[j].at = sections[k].at
    BY <1>1, <2>1, <2>2 DEF IInv, ErasedHasLanded, IsSection
  <2>4. j > recs[j].at
    <3>1. recs[j].at < j
      BY <1>1, <2>3 DEF IInv, ErasuresFollow, IsErase
    <3> QED BY <3>1
  <2> QED BY <2>1, <2>3, <2>4 DEF Alive, IsErase
<1> QED BY <1>1, Inductive, PTL

\* Where a part is alive in the file, it stands where it says.
LEMMA AlivePoints ==
    ASSUME Types, NEW part, part.at \in Alive(recs), part.id = recs[part.at].id
    PROVE  part.at \in DOMAIN recs /\ recs[part.at] = Section(part.id)
<1> DEFINE x == recs[part.at]
<1>1. part.at \in DOMAIN recs /\ x.kind = "section"
  BY DEF Alive
<1>2. x \in Records
  BY <1>1 DEF Types
<1>3. x = Section(x.id)
  BY <1>1, <1>2 DEF Records, Header, Section
<1> QED BY <1>1, <1>3

\* openRead() fails at a torn record with all the parts before it, and maybe one more.
LEMMA TornPoints ==
    ASSUME IInv, IInv', OpenRead, inst' = "failed"
    PROVE  PartsPointAtData'
<1>1. sections = <<>> /\ recs' = recs /\ recs \in Seq(Records) /\ Types
  BY DEF OpenRead, IInv, WriterIsReady, Types
<1>2. CASE OpenBroken
  BY <1>1, <1>2 DEF OpenBroken, PartsPointAtData
<1>3. CASE OpenSections
  <2> DEFINE x == Part(Len(recs) + 1, 0)
             torn == IF tail = "data" THEN <<x>> ELSE <<>>
             parts == Parse(recs)
  <2>1. /\ parts \in Seq([at : Nat, id : Nat])
        /\ \A k \in DOMAIN parts : parts[k].at \in Alive(recs) /\ parts[k].id = recs[parts[k].at].id
    BY <1>1, ParseLemma
  <2>2. sections' = sections \o parts \o torn
    BY <1>3 DEF OpenSections
  <2>3. x.at = Len(recs) + 1 /\ x \in [at : Nat, id : Nat]
    BY <1>1 DEF Part
  <2> HIDE DEF x, parts
  <2>4. sections' = parts \o torn
    BY <1>1, <2>1, <2>2
  <2>5. Len(parts) \in Nat /\ DOMAIN parts = 1..Len(parts)
    BY <2>1
  <2>6. ASSUME NEW i \in DOMAIN sections'
        PROVE  \/ i \in DOMAIN parts /\ sections'[i] = parts[i]
               \/ i = Len(sections') /\ sections'[i] = x
    <3>1. CASE tail = "data"
      <4>1. sections' = Append(parts, x)
        <5>1. sections' = parts \o <<x>>
          BY <2>4, <3>1
        <5> QED BY <2>1, <2>3, <5>1
      <4>2. /\ Len(sections') = Len(parts) + 1 /\ sections'[Len(parts) + 1] = x
            /\ \A k \in 1..Len(parts) : sections'[k] = parts[k]
            /\ DOMAIN sections' = 1..(Len(parts) + 1)
        BY <2>1, <2>3, <4>1, AppendProperties
      <4> QED BY <2>5, <4>2
    <3>2. CASE tail # "data"
      <4>1. sections' = parts
        BY <2>1, <2>4, <3>2
      <4> QED BY <4>1
    <3> QED BY <3>1, <3>2
  <2>7. \A k \in DOMAIN parts :
            parts[k].at \in DOMAIN recs /\ recs[parts[k].at] = Section(parts[k].id)
    BY <1>1, <2>1, AlivePoints
  <2> QED BY <1>1, <2>3, <2>6, <2>7 DEF PartsPointAtData
<1>4. ~OpenNothing
  BY DEF OpenNothing
<1> QED BY <1>2, <1>3, <1>4 DEF OpenRead

\* Every part of an instance stands where it says, whole, but for the torn section
\* that openRead() has found at the end, and cut off, when it failed.
LEMMA StepPoints ==
    ASSUME IInv, IInv', PartsPointAtData, [StoreNext]_allVars
    PROVE  PartsPointAtData'
<1>1. CASE inst' = "ready"
  <2>1. \A k \in DOMAIN sections' :
            sections'[k].at \in Alive(recs') /\ sections'[k].id = recs'[sections'[k].at].id
    BY <1>1 DEF IInv, AliveIsKnown
  <2>2. Types'
    BY DEF IInv
  <2>3. ASSUME Types', NEW part, part.at \in Alive(recs'), part.id = recs'[part.at].id
        PROVE  part.at \in DOMAIN recs' /\ recs'[part.at] = Section(part.id)
    <3> DEFINE x == recs'[part.at]
    <3>1. part.at \in DOMAIN recs' /\ x.kind = "section"
      BY <2>3 DEF Alive
    <3>2. x \in Records
      BY <2>3, <3>1 DEF Types
    <3>3. x = Section(x.id)
      BY <3>1, <3>2 DEF Records, Header, Section
    <3> QED BY <2>3, <3>1, <3>3
  <2> QED BY <2>1, <2>2, <2>3 DEF PartsPointAtData
<1>2. CASE inst' \in {"new", "gone"}
  BY <1>2 DEF IInv, WriterIsReady, PartsPointAtData
<1>3. CASE inst' = "failed"
  <2>1. CASE OpenRead
    BY <1>3, <2>1, TornPoints
  <2>2. CASE ~OpenRead
    <3>1. /\ writer \/ op.call # None => inst = "ready"
          /\ inst \in {"new", "ready", "failed", "gone"}
      BY DEF IInv, WriterIsReady, Types, TypeOK
    <3>2. inst \in {"ready", "failed"} /\ UNCHANGED <<recs, sections>>
      <4>1. CASE inst = "failed"
        BY <1>3, <2>2, <3>1, <4>1
           DEF StoreNext, Ready, Keep, CreateEnd, WritePart, WriteEnd, CloseWriter, EraseNext,
               StopEmitting, Closed, CloseEnd, Marked, Removed, Crash, Renew, Restarted,
               None, allVars, vars, fileVars, instVars
      <4>2. CASE inst # "failed"
        BY <1>3, <2>2, <3>1, <4>2
           DEF StoreNext, Ready, Keep, PrepareCreate, PrepareAppend, CreateEnd, WritePart,
               WriteEnd, CloseWriter, CommitBadBlock, EraseNext, StartEmitting, StopEmitting,
               Closed, CloseEnd, Marked, MarkBad, Removed, Destroy, Crash, Renew, Restarted,
               None, allVars, vars, fileVars, instVars
      <4> QED BY <4>1, <4>2
    <3> QED BY <1>3, <3>2 DEF PartsPointAtData
  <2> QED BY <2>1, <2>2
<1>4. inst' \in {"new", "ready", "failed", "gone"}
  BY DEF IInv, Types, TypeOK
<1> QED BY <1>1, <1>2, <1>3, <1>4

\* Every part of every instance, whether it could be opened or not, stands where
\* it says, but for the one torn section.
THEOREM PartsPoint == StoreSpec => []PartsPointAtData
<1>1. StoreInit => PartsPointAtData
  BY DEF StoreInit, Init, FreshInstance, PartsPointAtData
<1>2. IInv /\ IInv' /\ PartsPointAtData /\ [StoreNext]_allVars => PartsPointAtData'
  BY StepPoints
<1> QED BY <1>1, <1>2, Inductive, PTL DEF StoreSpec
=============================================================================
