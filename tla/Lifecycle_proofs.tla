--------------------------- MODULE Lifecycle_proofs ---------------------------
(***************************************************************************)
(* What Lifecycle promises for any number of containers and resources,     *)
(* whoever shares what with whom: each resource is released once, in the   *)
(* reverse order of registration, and dispose() resolves when everything   *)
(* below it has been released.                                             *)
(*                                                                         *)
(* Nothing is said of the depth of the tree: what lies below a container   *)
(* is a least closed set, so that it suffices to name a closed set with    *)
(* the wanted property.                                                    *)
(***************************************************************************)
EXTENDS Lifecycle, SequenceTheorems, TLAPS

TypeOK ==
    /\ list \in [Containers -> Seq(Objects)]
    /\ listeners \in [Containers -> [Containers -> Nat]]
    /\ phase \in [Containers -> {"live", "disposing", "disposed"}]
    /\ at \in [Containers -> Nat]
    /\ \A c \in Containers : phase[c] = "disposing" => at[c] >= 1
    /\ error \in [Containers -> BOOLEAN]
    /\ leaf \in [Leaves -> {"idle", "releasing", "released", "failed"}]
    /\ calls \in [Leaves -> Nat]
    /\ turn \in Seq(Objects)

\* No resource has two places, no container has itself, and none has the global
\* lifecycle.
OnePlace ==
    /\ \A c, d \in Containers : \A i \in DOMAIN list[c], j \in DOMAIN list[d] :
           list[c][i] \in Leaves /\ list[c][i] = list[d][j] => c = d /\ i = j
    /\ \A c \in Containers : \A i \in DOMAIN list[c] : list[c][i] \notin {c, Global}

\* Not called, and not about to be called in this turn.
Untouched(l) == leaf[l] = "idle" /\ \A k \in DOMAIN turn : turn[k] # l

\* The places whose turn has not come.
Ahead(c, i) == phase[c] = "live" \/ (c # Global /\ phase[c] = "disposing" /\ i > at[c])

AheadIsUntouched ==
    \A c \in Containers : \A i \in DOMAIN list[c] :
        list[c][i] \in Leaves /\ Ahead(c, i) => Untouched(list[c][i])

\* A resource that is about to be called has not been called, and is called once.
TurnIsUntouched ==
    \A k \in DOMAIN turn :
        turn[k] \in Leaves =>
            /\ leaf[turn[k]] = "idle"
            /\ \A m \in DOMAIN turn : turn[m] = turn[k] => m = k

\* What stands before the place that is awaited has ended.
Behind(c, i) == phase[c] = "disposed" \/ (c # Global /\ phase[c] = "disposing" /\ i < at[c])

BehindHasEnded ==
    \A c \in Containers : \A i \in DOMAIN list[c] :
        Behind(c, i) => Settled(list[c][i])

\* The error of a container is that of one it has waited for.
ErrorsAreKept ==
    \A c \in Containers \ {Global} :
        error[c] <=> \E i \in DOMAIN list[c] : Behind(c, i) /\ Failed(list[c][i])

CallsAreCounted ==
    \A l \in Leaves :
        /\ calls[l] <= 1
        /\ leaf[l] = "idle" => calls[l] = 0

IInv ==
    /\ TypeOK
    /\ OnePlace
    /\ AheadIsUntouched
    /\ TurnIsUntouched
    /\ BehindHasEnded
    /\ ErrorsAreKept
    /\ CallsAreCounted

-----------------------------------------------------------------------------

\* What can be reached is closed, and is in every set that is.
LEMMA ReachedLemma ==
    ASSUME NEW d, NEW pairs
    PROVE  /\ \A p \in pairs : p[1] \in Reached(d, pairs) \union {d} => p[2] \in Reached(d, pairs)
           /\ \A T : (\A p \in pairs : p[1] \in T \union {d} => p[2] \in T)
                        => Reached(d, pairs) \subseteq T
<1> DEFINE successors == {p[2] : p \in pairs}
           closed == {S \in SUBSET successors :
                          \A p \in pairs : p[1] \in S \union {d} => p[2] \in S}
<1>1. Reached(d, pairs) = {e \in successors : \A S \in closed : e \in S}
  BY DEF Reached
<1>2. ASSUME NEW p \in pairs, p[1] \in Reached(d, pairs) \union {d}
      PROVE  p[2] \in Reached(d, pairs)
  BY <1>1, <1>2
<1>3. ASSUME NEW T, \A p \in pairs : p[1] \in T \union {d} => p[2] \in T
      PROVE  Reached(d, pairs) \subseteq T
  <2>1. T \intersect successors \in closed
    BY <1>3
  <2> QED BY <1>1, <2>1
<1> QED BY <1>2, <1>3

\* A list without one of its items: the items behind it move up.
LEMMA UnlistedLemma ==
    ASSUME NEW S, NEW l \in Seq(S), NEW d
    PROVE  \E p \in Nat :
              /\ Unlisted(l, d) \in Seq(S)
              /\ Len(Unlisted(l, d)) = IF l = <<>> THEN 0 ELSE Len(l) - 1
              /\ \A i \in DOMAIN Unlisted(l, d) :
                     Unlisted(l, d)[i] = IF i < p THEN l[i] ELSE l[i + 1]
              /\ Contains(l, d) => p \in DOMAIN l /\ l[p] = d
<1> DEFINE p == IF Contains(l, d) THEN CHOOSE i \in DOMAIN l : l[i] = d ELSE Len(l)
<1>1. Contains(l, d) => p \in DOMAIN l /\ l[p] = d
  BY DEF Contains
<1>2. p \in 0..Len(l) /\ (l # <<>> => p \in 1..Len(l))
  BY <1>1
<1>3. Unlisted(l, d) =
          IF l = <<>> THEN l ELSE SubSeq(l, 1, p - 1) \o SubSeq(l, p + 1, Len(l))
  BY DEF Unlisted, RemoveAt
<1> HIDE DEF p
<1>4. CASE l = <<>>
  BY <1>1, <1>2, <1>3, <1>4
<1>5. CASE l # <<>>
  <2> DEFINE front == SubSeq(l, 1, p - 1)
             back == SubSeq(l, p + 1, Len(l))
             n == Len(l)
  <2>1. n \in Nat /\ p \in 1..n
    BY <1>2, <1>5
  <2>2. /\ front \in Seq(S) /\ Len(front) = p - 1
        /\ \A i \in 1..(p - 1) : front[i] = l[i]
    BY <2>1
  <2>3. /\ back \in Seq(S) /\ Len(back) = n - p
        /\ \A i \in 1..(n - p) : back[i] = l[p + i]
    BY <2>1
  <2> HIDE DEF front, back, n
  <2>4. /\ front \o back \in Seq(S) /\ Len(front \o back) = Len(front) + Len(back)
        /\ \A i \in 1..(Len(front) + Len(back)) :
               (front \o back)[i] =
                   IF i <= Len(front) THEN front[i] ELSE back[i - Len(front)]
    BY <2>2, <2>3, ConcatProperties
  <2>5. ASSUME NEW i \in 1..(n - 1)
        PROVE  (front \o back)[i] = IF i < p THEN l[i] ELSE l[i + 1]
    <3>1. /\ Len(front) + Len(back) = n - 1
          /\ (front \o back)[i] = IF i <= p - 1 THEN front[i] ELSE back[i - (p - 1)]
      <4>1. Len(front) = p - 1 /\ Len(back) = n - p
        BY <2>2, <2>3
      <4>2. Len(front) + Len(back) = n - 1
        BY <2>1, <4>1
      <4> QED BY <2>4, <4>1, <4>2
    <3>2. CASE i <= p - 1
      BY <2>1, <2>2, <3>1, <3>2
    <3>3. CASE ~(i <= p - 1)
      <4>1. i - (p - 1) \in 1..(n - p) /\ p + (i - (p - 1)) = i + 1
        BY <2>1, <3>3
      <4>2. back[i - (p - 1)] = l[p + (i - (p - 1))]
        BY <2>3, <4>1
      <4> QED BY <2>1, <3>1, <3>3, <4>1, <4>2
    <3> QED BY <3>2, <3>3
  <2>6. Unlisted(l, d) = front \o back
    BY <1>3, <1>5 DEF front, back
  <2>7. n = Len(l) /\ l # <<>>
    BY <1>5 DEF n
  <2>8. Unlisted(l, d) \in Seq(S) /\ Len(Unlisted(l, d)) = n - 1
    <3>1. Len(front) = p - 1 /\ Len(back) = n - p /\ p \in Nat
      BY <2>1, <2>2, <2>3
    <3>2. Len(front) + Len(back) = n - 1
      BY <2>1, <3>1
    <3>3. front \o back \in Seq(S) /\ Len(front \o back) = n - 1
      BY <2>4, <3>2
    <3> QED BY <2>6, <3>3
  <2>9. DOMAIN Unlisted(l, d) = 1..(n - 1)
    BY <2>8
  <2>10. \A i \in DOMAIN Unlisted(l, d) :
             Unlisted(l, d)[i] = IF i < p THEN l[i] ELSE l[i + 1]
    BY <2>5, <2>6, <2>9
  <2> QED BY <1>1, <2>1, <2>7, <2>8, <2>10
<1> QED BY <1>4, <1>5

\* `new' is `old', or lacks some of its items.
Thinned(new, old) ==
    \E place \in [DOMAIN new -> DOMAIN old] :
        /\ \A i, j \in DOMAIN new : place[i] = place[j] => i = j
        /\ \A i \in DOMAIN new : new[i] = old[place[i]]

LEMMA ThinnedLemma ==
    ASSUME NEW S, NEW l \in Seq(S), NEW d
    PROVE  Unlisted(l, d) \in Seq(S) /\ Thinned(Unlisted(l, d), l) /\ Thinned(l, l)
<1>1. PICK p \in Nat :
          /\ Unlisted(l, d) \in Seq(S)
          /\ Len(Unlisted(l, d)) = IF l = <<>> THEN 0 ELSE Len(l) - 1
          /\ \A i \in DOMAIN Unlisted(l, d) :
                 Unlisted(l, d)[i] = IF i < p THEN l[i] ELSE l[i + 1]
  BY UnlistedLemma
<1>2. Thinned(Unlisted(l, d), l)
  <2> DEFINE place == [i \in DOMAIN Unlisted(l, d) |-> IF i < p THEN i ELSE i + 1]
  <2>1. \A i \in DOMAIN Unlisted(l, d) : i \in Nat /\ i >= 1 /\ i < Len(l)
    BY <1>1
  <2>2. place \in [DOMAIN Unlisted(l, d) -> DOMAIN l]
    BY <2>1
  <2>3. \A i, j \in DOMAIN Unlisted(l, d) : place[i] = place[j] => i = j
    BY <2>1
  <2>4. \A i \in DOMAIN Unlisted(l, d) : Unlisted(l, d)[i] = l[place[i]]
    BY <1>1
  <2> HIDE DEF place
  <2> QED BY <2>2, <2>3, <2>4 DEF Thinned
<1>3. Thinned(l, l)
  <2> DEFINE place == [i \in DOMAIN l |-> i]
  <2>1. place \in [DOMAIN l -> DOMAIN l]
    OBVIOUS
  <2>2. /\ \A i, j \in DOMAIN l : place[i] = place[j] => i = j
        /\ \A i \in DOMAIN l : l[i] = l[place[i]]
    OBVIOUS
  <2> HIDE DEF place
  <2> QED BY <2>1, <2>2 DEF Thinned
<1> QED BY <1>1, <1>2, <1>3

\* ... and so does what any number of listeners leave of a list.
LEMMA DereferencedLemma ==
    ASSUME NEW S, NEW l \in Seq(S), NEW d, NEW n \in Nat
    PROVE  Dereferenced(l, d, n) \in Seq(S) /\ Thinned(Dereferenced(l, d, n), l)
<1> DEFINE rest == IF n > 0 THEN Unlisted(l, d) ELSE l
           kept == Len(rest) - (n - 1)
           m == IF kept > 0 THEN kept ELSE 0
           front == SubSeq(rest, 1, m)
<1>1. rest \in Seq(S) /\ Thinned(rest, l)
  BY ThinnedLemma
<1>2. Dereferenced(l, d, n) = IF n <= 1 THEN rest ELSE front
  BY DEF Dereferenced
<1>3. CASE n <= 1
  BY <1>1, <1>2, <1>3
<1>4. CASE ~(n <= 1)
  <2> HIDE DEF rest
  <2>1. Len(rest) \in Nat /\ m \in 0..Len(rest)
    BY <1>1, <1>4
  <2> HIDE DEF m
  <2>2. front \in Seq(S) /\ Len(front) = m /\ \A i \in 1..m : front[i] = rest[i]
    BY <1>1, <2>1
  <2> HIDE DEF front
  <2>3. PICK place \in [DOMAIN rest -> DOMAIN l] :
            /\ \A i, j \in DOMAIN rest : place[i] = place[j] => i = j
            /\ \A i \in DOMAIN rest : rest[i] = l[place[i]]
    BY <1>1 DEF Thinned
  <2>4. DOMAIN front = 1..m /\ \A i \in DOMAIN front : i \in DOMAIN rest
    BY <1>1, <2>1, <2>2
  <2> DEFINE short == [i \in DOMAIN front |-> place[i]]
  <2>5. short \in [DOMAIN front -> DOMAIN l]
    BY <2>3, <2>4
  <2>6. \A i, j \in DOMAIN front : short[i] = short[j] => i = j
    BY <2>3, <2>4
  <2>7. \A i \in DOMAIN front : front[i] = l[short[i]]
    BY <2>2, <2>3, <2>4
  <2> HIDE DEF short
  <2>8. Thinned(front, l)
    BY <2>5, <2>6, <2>7 DEF Thinned
  <2> QED BY <1>2, <1>4, <2>2, <2>8
<1> QED BY <1>3, <1>4

\* Taking items out leaves the others where there is one place for each.
LEMMA OnePlaceLemma ==
    ASSUME TypeOK, OnePlace, \A c \in Containers : Thinned(list'[c], list[c])
    PROVE  OnePlace'
<1>1. ASSUME NEW c \in Containers, NEW d \in Containers,
             NEW i \in DOMAIN list'[c], NEW j \in DOMAIN list'[d],
             list'[c][i] \in Leaves, list'[c][i] = list'[d][j]
      PROVE  c = d /\ i = j
  <2>1. PICK p \in [DOMAIN list'[c] -> DOMAIN list[c]] :
            /\ \A k, m \in DOMAIN list'[c] : p[k] = p[m] => k = m
            /\ \A k \in DOMAIN list'[c] : list'[c][k] = list[c][p[k]]
    BY DEF Thinned
  <2>2. PICK q \in [DOMAIN list'[d] -> DOMAIN list[d]] :
            \A k \in DOMAIN list'[d] : list'[d][k] = list[d][q[k]]
    BY DEF Thinned
  <2>3. c = d /\ p[i] = q[j]
    BY <1>1, <2>1, <2>2 DEF OnePlace
  <2>4. list'[c][j] = list[c][p[j]] /\ j \in DOMAIN list'[c]
    BY <2>1, <2>3
  <2>5. p[i] = p[j]
    BY <1>1, <2>1, <2>3, <2>4 DEF OnePlace
  <2> QED BY <2>1, <2>3, <2>4, <2>5
<1>2. ASSUME NEW c \in Containers, NEW i \in DOMAIN list'[c]
      PROVE  list'[c][i] \notin {c, Global}
  BY DEF Thinned, OnePlace
<1> QED BY <1>1, <1>2 DEF OnePlace

-----------------------------------------------------------------------------

\* What has ended stays so, and no new place is behind but one that has ended.
LEMMA BehindLemma ==
    ASSUME IInv,
           \A e \in Objects : Settled(e) => Settled(e)',
           \A c \in Containers : \A i \in DOMAIN list'[c] :
               Behind(c, i)' =>
                   list'[c] = list[c] /\ (Behind(c, i) \/ Settled(list[c][i]))
    PROVE  BehindHasEnded'
<1> SUFFICES ASSUME NEW c \in Containers, NEW i \in DOMAIN list'[c], Behind(c, i)'
             PROVE  Settled(list[c][i])'
  BY DEF BehindHasEnded
<1>1. list'[c] = list[c] /\ Settled(list[c][i])
  BY DEF IInv, BehindHasEnded
<1>2. list[c] \in Seq(Objects)
  BY DEF IInv, TypeOK
<1>3. list[c][i] \in Objects
  BY <1>1, <1>2
<1> QED BY <1>1, <1>3 DEF Settled

\* An error is kept unless the container that awaits has stepped forward.
LEMMA ErrorsLemma ==
    ASSUME IInv, UNCHANGED error,
           \A e \in Objects : Settled(e) => (Failed(e)' <=> Failed(e)),
           \A c \in Containers \ {Global} :
               IF phase[c] = "live" THEN \A i \in DOMAIN list'[c] : ~Behind(c, i)'
               ELSE list'[c] = list[c]
                    /\ \A i \in DOMAIN list[c] : Behind(c, i)' <=> Behind(c, i)
    PROVE  ErrorsAreKept'
<1> SUFFICES ASSUME NEW c \in Containers \ {Global}
             PROVE  error'[c] <=> \E i \in DOMAIN list'[c] :
                                      Behind(c, i)' /\ Failed(list[c][i])'
  BY DEF ErrorsAreKept
<1>1. error[c] <=> \E i \in DOMAIN list[c] : Behind(c, i) /\ Failed(list[c][i])
  BY DEF IInv, ErrorsAreKept
<1>2. CASE phase[c] = "live"
  <2>1. \A i \in DOMAIN list[c] : ~Behind(c, i)
    BY <1>2 DEF Behind
  <2> QED BY <1>1, <1>2, <2>1
<1>3. CASE phase[c] # "live"
  <2>1. list'[c] = list[c] /\ \A i \in DOMAIN list[c] : Behind(c, i)' <=> Behind(c, i)
    BY <1>3
  <2>2. \A i \in DOMAIN list[c] : list[c][i] \in Objects
    <3>1. list[c] \in Seq(Objects)
      BY DEF IInv, TypeOK
    <3> QED BY <3>1
  <2>3. \A i \in DOMAIN list[c] :
            Behind(c, i) => (Failed(list[c][i])' <=> Failed(list[c][i]))
    <3> SUFFICES ASSUME NEW i \in DOMAIN list[c], Behind(c, i)
                 PROVE  Failed(list[c][i])' <=> Failed(list[c][i])
      OBVIOUS
    <3>1. Settled(list[c][i])
      BY DEF IInv, BehindHasEnded
    <3> QED BY <2>1, <2>2, <3>1 DEF Failed
  <2> QED BY <1>1, <2>1, <2>3
<1> QED BY <1>2, <1>3

\* At the beginning nothing is registered and nothing is called.
LEMMA InitIInv == Init => IInv
<1> SUFFICES ASSUME Init PROVE IInv
  OBVIOUS
<1>1. \A c \in Containers : list[c] = <<>> /\ DOMAIN list[c] = {}
  BY DEF Init
<1>2. turn = <<>> /\ DOMAIN turn = {}
  BY DEF Init
<1>3. TypeOK
  BY DEF Init, TypeOK, NoListener
<1> QED
  BY <1>1, <1>2, <1>3 DEF Init, IInv, OnePlace, AheadIsUntouched, TurnIsUntouched,
                          BehindHasEnded, ErrorsAreKept, CallsAreCounted

\* _register(): the newest place of a live container, whose turn is still to come.
LEMMA RegisterInv ==
    ASSUME IInv, NEW c \in Containers, NEW d \in Objects, NEW auto \in BOOLEAN,
           Register(c, d, auto)
    PROVE  IInv'
<1>1. /\ phase[c] = "live" /\ d \notin {c, Global} /\ turn = <<>>
      /\ d \in Leaves =>
             /\ leaf[d] = "idle"
             /\ \A e \in Containers : \A i \in DOMAIN list[e] : list[e][i] # d
      /\ list' = [list EXCEPT ![c] = <<d>> \o list[c]]
      /\ UNCHANGED <<phase, at, error, leaf, calls, turn>>
  <2>1. ASSUME d \in Leaves, NEW e \in Containers, NEW i \in DOMAIN list[e]
        PROVE  list[e][i] # d
    <3>1. list[e] \in Seq(Objects)
      BY DEF IInv, TypeOK
    <3>2. Holders(d) = {}
      BY <2>1 DEF Register, MayRegister
    <3> QED BY <3>1, <3>2 DEF Holders, Contains
  <2>2. d \notin {c, Global}
    BY LifecycleAssumption DEF Register, MayRegister
  <2>3. list' = [list EXCEPT ![c] = <<d>> \o list[c]]
    BY DEF Register, IInv, TypeOK
  <2> QED BY <2>1, <2>2, <2>3 DEF Register, MayRegister, Running
<1>2. list[c] \in Seq(Objects)
  BY DEF IInv, TypeOK
<1>3. /\ list'[c] \in Seq(Objects)
      /\ \A i \in DOMAIN list'[c] :
             \/ i = 1 /\ list'[c][i] = d
             \/ i # 1 /\ i - 1 \in DOMAIN list[c] /\ list'[c][i] = list[c][i - 1]
      /\ \A i \in DOMAIN list'[c] : i \in Int
  <2>1. <<d>> \in Seq(Objects) /\ Len(<<d>>) = 1 /\ <<d>>[1] = d
    OBVIOUS
  <2>2. list'[c] = <<d>> \o list[c]
    BY <1>1 DEF IInv, TypeOK
  <2>3. /\ list'[c] \in Seq(Objects)
        /\ Len(list'[c]) = 1 + Len(list[c])
        /\ \A i \in 1..(1 + Len(list[c])) :
               list'[c][i] = IF i <= 1 THEN <<d>>[i] ELSE list[c][i - 1]
    BY <1>2, <2>1, <2>2, ConcatProperties
  <2>4. DOMAIN list'[c] = 1..(1 + Len(list[c])) /\ DOMAIN list[c] = 1..Len(list[c])
        /\ Len(list[c]) \in Nat
    BY <1>2, <2>3
  <2>5. ASSUME NEW i \in DOMAIN list'[c]
        PROVE  /\ i \in Int
               /\ \/ i = 1 /\ list'[c][i] = d
                  \/ i # 1 /\ i - 1 \in DOMAIN list[c] /\ list'[c][i] = list[c][i - 1]
    <3>1. i \in 1..(1 + Len(list[c]))
      BY <2>4
    <3>2. list'[c][i] = IF i <= 1 THEN <<d>>[i] ELSE list[c][i - 1]
      BY <2>3, <3>1
    <3>3. i # 1 => i - 1 \in 1..Len(list[c]) /\ ~(i <= 1)
      BY <2>4, <3>1
    <3> QED BY <2>1, <2>4, <3>1, <3>2, <3>3
  <2> QED BY <2>3, <2>5
<1>4. \A e \in Containers \ {c} : list'[e] = list[e]
  BY <1>1 DEF IInv, TypeOK
<1>5. TypeOK'
  <2>1. list' \in [Containers -> Seq(Objects)]
    <3>1. \A e \in Containers : list'[e] \in Seq(Objects)
      BY <1>3, <1>4 DEF IInv, TypeOK
    <3> QED BY <1>1, <3>1 DEF IInv, TypeOK
  <2>2. listeners' \in [Containers -> [Containers -> Nat]]
    <3>1. CASE auto /\ Live(d)
      <4>1. d \in Containers /\ listeners' = [listeners EXCEPT ![d][c] = @ + 1]
        BY <3>1 DEF Register
      <4> QED BY <4>1 DEF IInv, TypeOK
    <3>2. CASE ~(auto /\ Live(d))
      BY <3>2 DEF Register, IInv, TypeOK
    <3> QED BY <3>1, <3>2
  <2> QED BY <1>1, <2>1, <2>2 DEF IInv, TypeOK
\* Every place but the newest one is an old one.
<1>6. ASSUME NEW e \in Containers, NEW i \in DOMAIN list'[e]
      PROVE  \/ e = c /\ i = 1 /\ list'[e][i] = d
             \/ \E j \in DOMAIN list[e] :
                    list'[e][i] = list[e][j] /\ i = (IF e = c THEN j + 1 ELSE j)
  <2>1. CASE e = c /\ i = 1
    BY <1>3, <2>1
  <2>2. CASE e = c /\ i # 1
    <3>1. i - 1 \in DOMAIN list[c] /\ list'[c][i] = list[c][i - 1] /\ i = (i - 1) + 1
      BY <1>3, <2>2
    <3> QED BY <2>2, <3>1
  <2>3. CASE e # c
    BY <1>4, <2>3
  <2> QED BY <2>1, <2>2, <2>3
<1>7. OnePlace'
  <2>1. ASSUME NEW e \in Containers, NEW f \in Containers,
               NEW i \in DOMAIN list'[e], NEW j \in DOMAIN list'[f],
               list'[e][i] \in Leaves, list'[e][i] = list'[f][j]
        PROVE  e = f /\ i = j
    <3>1. CASE list'[e][i] = d
      BY <1>1, <1>6, <2>1, <3>1
    <3>2. CASE list'[e][i] # d
      BY <1>6, <2>1, <3>2 DEF IInv, OnePlace
    <3> QED BY <3>1, <3>2
  <2>2. \A e \in Containers : \A i \in DOMAIN list'[e] : list'[e][i] \notin {e, Global}
    BY <1>1, <1>6 DEF IInv, OnePlace
  <2> QED BY <2>1, <2>2 DEF OnePlace
<1>8. AheadIsUntouched'
  <2> SUFFICES ASSUME NEW e \in Containers, NEW i \in DOMAIN list'[e],
                      list'[e][i] \in Leaves, Ahead(e, i)'
               PROVE  Untouched(list[e][i])'
    BY DEF AheadIsUntouched
  <2>1. turn' = <<>> /\ leaf' = leaf
    BY <1>1
  <2>2. leaf[list'[e][i]] = "idle"
    <3>1. CASE e = c
      BY <1>1, <1>6, <3>1 DEF IInv, AheadIsUntouched, Ahead, Untouched
    <3>2. CASE e # c
      BY <1>1, <1>4, <3>2 DEF IInv, AheadIsUntouched, Ahead, Untouched
    <3> QED BY <3>1, <3>2
  <2> QED BY <2>1, <2>2 DEF Untouched
<1>9. \A e \in Containers : \A i : Behind(e, i)' => Behind(e, i) /\ e # c /\ list'[e] = list[e]
  BY <1>1, <1>4 DEF Behind
<1>10. /\ \A e \in Objects : Settled(e) => Settled(e)'
       /\ \A e \in Objects : Failed(e)' <=> Failed(e)
  BY <1>1 DEF Settled, Failed
<1>11. BehindHasEnded'
  BY <1>9, <1>10, BehindLemma
<1>12. ErrorsAreKept'
  <2>1. \A e \in Containers \ {Global} :
            IF phase[e] = "live" THEN \A i \in DOMAIN list'[e] : ~Behind(e, i)'
            ELSE list'[e] = list[e]
                 /\ \A i \in DOMAIN list[e] : Behind(e, i)' <=> Behind(e, i)
    BY <1>1, <1>4 DEF Behind
  <2>2. UNCHANGED error
    BY <1>1
  <2> QED BY <1>10, <2>1, <2>2, ErrorsLemma
<1>13. TurnIsUntouched' /\ CallsAreCounted'
  BY <1>1 DEF IInv, TurnIsUntouched, CallsAreCounted
<1> QED BY <1>5, <1>7, <1>8, <1>11, <1>12, <1>13 DEF IInv

\* Live containers lose some of their places, and nothing else changes.
LEMMA UnregisterInv ==
    ASSUME IInv, NEW c \in Containers, NEW d \in Objects, Unregister(c, d)
    PROVE  IInv'
<1>1. /\ phase[c] = "live" /\ turn = <<>>
      /\ list' = [list EXCEPT ![c] = Unlisted(list[c], d)]
      /\ UNCHANGED <<listeners, phase, at, error, leaf, calls, turn>>
  BY DEF Unregister, Running, IInv, TypeOK
<1>2. \A e \in Containers : list[e] \in Seq(Objects)
  BY DEF IInv, TypeOK
<1>3. \A e \in Containers \ {c} : list'[e] = list[e]
  BY <1>1 DEF IInv, TypeOK
<1>4. \A e \in Containers : list'[e] \in Seq(Objects) /\ Thinned(list'[e], list[e])
  <2>1. list'[c] = Unlisted(list[c], d)
    BY <1>1 DEF IInv, TypeOK
  <2> QED BY <1>2, <1>3, <2>1, ThinnedLemma
<1>5. TypeOK'
  BY <1>1, <1>4 DEF IInv, TypeOK
<1>6. OnePlace'
  BY <1>4, OnePlaceLemma DEF IInv
<1>7. AheadIsUntouched'
  <2> SUFFICES ASSUME NEW e \in Containers, NEW i \in DOMAIN list'[e],
                      list'[e][i] \in Leaves, Ahead(e, i)'
               PROVE  Untouched(list[e][i])'
    BY DEF AheadIsUntouched
  <2>1. \E j \in DOMAIN list[e] : list'[e][i] = list[e][j] /\ Ahead(e, j)
    <3>1. CASE e = c
      BY <1>1, <1>4, <3>1 DEF Thinned, Ahead
    <3>2. CASE e # c
      BY <1>1, <1>3, <3>2 DEF Ahead
    <3> QED BY <3>1, <3>2
  <2> QED BY <1>1, <2>1 DEF IInv, AheadIsUntouched, Untouched
<1>8. /\ \A e \in Objects : Settled(e) => Settled(e)'
      /\ \A e \in Objects : Failed(e)' <=> Failed(e)
  BY <1>1 DEF Settled, Failed
<1>9. BehindHasEnded'
  <2>1. \A e \in Containers : \A i : Behind(e, i)' => Behind(e, i) /\ list'[e] = list[e]
    BY <1>1, <1>3 DEF Behind
  <2> QED BY <1>8, <2>1, BehindLemma
<1>10. ErrorsAreKept'
  <2>1. \A e \in Containers \ {Global} :
            IF phase[e] = "live" THEN \A i \in DOMAIN list'[e] : ~Behind(e, i)'
            ELSE list'[e] = list[e]
                 /\ \A i \in DOMAIN list[e] : Behind(e, i)' <=> Behind(e, i)
    BY <1>1, <1>3 DEF Behind
  <2>2. UNCHANGED error
    BY <1>1
  <2> QED BY <1>8, <2>1, <2>2, ErrorsLemma
<1>11. TurnIsUntouched' /\ CallsAreCounted'
  BY <1>1 DEF IInv, TurnIsUntouched, CallsAreCounted
<1> QED BY <1>5, <1>6, <1>7, <1>9, <1>10, <1>11 DEF IInv

\* The owner of a container, and shutdown(): containers are no resources.
LEMMA DisposeInv ==
    ASSUME IInv, NEW c \in Containers, turn = <<>>, turn' \in {<<c>>, <<>>},
           UNCHANGED treeVars
    PROVE  IInv'
<1>1. /\ UNCHANGED <<list, listeners, phase, at, error, leaf, calls>>
      /\ c \in Objects /\ c \notin Leaves
  BY LifecycleAssumption DEF treeVars, Objects
<1>2. turn' \in Seq(Objects) /\ \A k \in DOMAIN turn' : turn'[k] \notin Leaves
  <2>1. CASE turn' = <<c>>
    BY <1>1, <2>1
  <2>2. CASE turn' = <<>>
    BY <2>2
  <2> QED BY <2>1, <2>2
<1>3. TypeOK'
  BY <1>1, <1>2 DEF IInv, TypeOK
<1>4. OnePlace' /\ BehindHasEnded' /\ ErrorsAreKept' /\ CallsAreCounted'
  BY <1>1 DEF IInv, OnePlace, BehindHasEnded, Behind, ErrorsAreKept, Settled, Failed,
              CallsAreCounted
<1>5. AheadIsUntouched'
  BY <1>1, <1>2 DEF IInv, AheadIsUntouched, Ahead, Untouched
<1>6. TurnIsUntouched'
  BY <1>2 DEF TurnIsUntouched
<1> QED BY <1>3, <1>4, <1>5, <1>6 DEF IInv

\* dispose() of a resource: nothing but its own state changes.
LEMMA CallLeafInv ==
    ASSUME IInv, turn # <<>>, Head(turn) \in Leaves,
           calls' = [calls EXCEPT ![Head(turn)] = @ + 1],
           leaf' = [leaf EXCEPT ![Head(turn)] = IF @ = "idle" THEN "releasing" ELSE @],
           turn' = Tail(turn),
           UNCHANGED <<list, listeners, phase, at, error>>
    PROVE  IInv'
<1> DEFINE l == Head(turn)
<1>1. turn \in Seq(Objects) /\ 1 \in DOMAIN turn /\ l = turn[1]
  BY DEF IInv, TypeOK
<1>2. /\ Tail(turn) \in Seq(Objects)
      /\ \A k \in DOMAIN Tail(turn) :
             k + 1 \in DOMAIN turn /\ k + 1 # 1 /\ Tail(turn)[k] = turn[k + 1] /\ k \in Nat
  BY <1>1
<1>3. leaf[l] = "idle" /\ \A k \in DOMAIN turn' : turn'[k] # l
  BY <1>1, <1>2 DEF IInv, TurnIsUntouched
<1>4. /\ leaf' = [leaf EXCEPT ![l] = "releasing"]
      /\ calls' = [calls EXCEPT ![l] = calls[l] + 1]
  BY <1>3
<1> HIDE DEF l
<1>5. TypeOK' /\ CallsAreCounted'
  <2>1. l \in Leaves /\ calls[l] = 0 /\ calls[l] \in Nat
    BY <1>3 DEF l, IInv, TypeOK, CallsAreCounted
  <2>2. /\ calls' \in [Leaves -> Nat]
        /\ leaf' \in [Leaves -> {"idle", "releasing", "released", "failed"}]
    BY <1>4, <2>1 DEF IInv, TypeOK
  <2>3. TypeOK'
    BY <1>2, <2>2 DEF IInv, TypeOK
  <2>4. CallsAreCounted'
    BY <1>4, <2>1 DEF IInv, TypeOK, CallsAreCounted
  <2> QED BY <2>3, <2>4
<1>6. AheadIsUntouched'
  <2> SUFFICES ASSUME NEW c \in Containers, NEW i \in DOMAIN list[c],
                      list[c][i] \in Leaves, Ahead(c, i)
               PROVE  Untouched(list[c][i])'
    BY DEF AheadIsUntouched, Ahead
  <2>1. leaf[list[c][i]] = "idle" /\ \A k \in DOMAIN turn : turn[k] # list[c][i]
    BY DEF IInv, AheadIsUntouched, Untouched
  <2>2. list[c][i] # l
    BY <1>1, <2>1 DEF l
  <2> QED BY <1>2, <1>4, <2>1, <2>2 DEF Untouched, IInv, TypeOK
<1>7. TurnIsUntouched'
  <2> SUFFICES ASSUME NEW k \in DOMAIN turn', turn'[k] \in Leaves
               PROVE  /\ leaf'[turn'[k]] = "idle"
                      /\ \A m \in DOMAIN turn' : turn'[m] = turn'[k] => m = k
    BY DEF TurnIsUntouched
  <2>1. leaf[turn'[k]] = "idle"
    BY <1>2 DEF IInv, TurnIsUntouched
  <2>2. \A m \in DOMAIN turn' : turn'[m] = turn'[k] => m + 1 = k + 1
    BY <1>2 DEF IInv, TurnIsUntouched
  <2> QED BY <1>2, <1>3, <1>4, <2>1, <2>2 DEF IInv, TypeOK
<1>8. /\ \A e \in Objects : Settled(e) => Settled(e)'
      /\ \A e \in Objects : Settled(e) => (Failed(e)' <=> Failed(e))
  BY <1>3, <1>4 DEF Settled, Failed, Objects, IInv, TypeOK
<1>9. BehindHasEnded'
  <2>1. \A c \in Containers : \A i : Behind(c, i)' => Behind(c, i) /\ list'[c] = list[c]
    BY DEF Behind
  <2> QED BY <1>8, <2>1, BehindLemma
<1>10. ErrorsAreKept'
  <2>1. \A c \in Containers \ {Global} :
            IF phase[c] = "live" THEN \A i \in DOMAIN list'[c] : ~Behind(c, i)'
            ELSE list'[c] = list[c]
                 /\ \A i \in DOMAIN list[c] : Behind(c, i)' <=> Behind(c, i)
    BY DEF Behind
  <2> QED BY <1>8, <2>1, ErrorsLemma
<1>11. OnePlace'
  BY DEF IInv, OnePlace
<1> QED BY <1>5, <1>6, <1>7, <1>9, <1>10, <1>11 DEF IInv

\* What a container calls first has a place in it that was ahead and is no more.
LEMMA FirstCallsLemma ==
    ASSUME IInv, NEW d \in Containers
    PROVE  /\ FirstCalls(d) \in Seq(Objects)
           /\ \A k \in DOMAIN FirstCalls(d) :
                  /\ k \in DOMAIN list[d] /\ FirstCalls(d)[k] = list[d][k]
                  /\ d # Global => k = 1
<1>1. list[d] \in Seq(Objects)
  BY DEF IInv, TypeOK
<1>2. CASE d = Global \/ list[d] = <<>>
  BY <1>1, <1>2 DEF FirstCalls
<1>3. CASE d # Global /\ list[d] # <<>>
  <2>1. FirstCalls(d) = <<list[d][1]>> /\ 1 \in DOMAIN list[d] /\ list[d][1] \in Objects
    BY <1>1, <1>3 DEF FirstCalls
  <2> QED BY <1>3, <2>1
<1> QED BY <1>2, <1>3

\* dispose() of a container: it goes to its first place, what it calls there was
\* ahead, and others that are live let go of it.
LEMMA CallContainerInv ==
    ASSUME IInv, turn # <<>>, NEW d \in Containers, d = Head(turn), ~HasBegun(d),
           phase' = [phase EXCEPT ![d] = "disposing"],
           at' = [at EXCEPT ![d] = 1],
           list' = [c \in Containers |->
                       IF phase'[c] = "live"
                       THEN Dereferenced(list[c], d, listeners[d][c])
                       ELSE list[c]],
           listeners' = [listeners EXCEPT ![d] = NoListener],
           turn' = FirstCalls(d) \o Tail(turn),
           UNCHANGED <<leaf, calls, error>>
    PROVE  IInv'
<1> DEFINE first == FirstCalls(d)
           rest == Tail(turn)
<1>1. /\ turn \in Seq(Objects) /\ rest \in Seq(Objects)
      /\ \A k \in DOMAIN rest :
             k + 1 \in DOMAIN turn /\ rest[k] = turn[k + 1] /\ k \in Nat
  BY DEF IInv, TypeOK
<1>2. /\ first \in Seq(Objects)
      /\ \A k \in DOMAIN first :
             /\ k \in DOMAIN list[d] /\ first[k] = list[d][k]
             /\ d # Global => k = 1
  BY FirstCallsLemma
<1>3. /\ \A c \in Containers : list[c] \in Seq(Objects)
      /\ \A c \in Containers : \A i \in DOMAIN list[c] : list[c][i] \in Objects
  <2>1. \A c \in Containers : list[c] \in Seq(Objects)
    BY DEF IInv, TypeOK
  <2> QED BY <2>1
<1>4. /\ phase[d] = "live" /\ phase'[d] = "disposing" /\ at'[d] = 1 /\ list'[d] = list[d]
      /\ \A c \in Containers \ {d} :
             phase'[c] = phase[c] /\ at'[c] = at[c] /\ (phase[c] # "live" => list'[c] = list[c])
  BY DEF IInv, TypeOK, HasBegun
<1>5. \A c \in Containers : list'[c] \in Seq(Objects) /\ Thinned(list'[c], list[c])
  <2> SUFFICES ASSUME NEW c \in Containers
               PROVE  list'[c] \in Seq(Objects) /\ Thinned(list'[c], list[c])
    OBVIOUS
  <2>1. listeners[d][c] \in Nat
    BY DEF IInv, TypeOK
  <2>2. /\ Dereferenced(list[c], d, listeners[d][c]) \in Seq(Objects)
        /\ Thinned(Dereferenced(list[c], d, listeners[d][c]), list[c])
        /\ Thinned(list[c], list[c])
    BY <1>3, <2>1, DereferencedLemma, ThinnedLemma
  <2> QED BY <1>3, <2>2
<1> HIDE DEF first, rest
<1>6. turn' = first \o rest /\ turn' \in Seq(Objects)
  BY <1>1, <1>2 DEF first, rest
<1>7. ASSUME NEW k \in DOMAIN turn'
      PROVE  \/ k \in DOMAIN first /\ turn'[k] = first[k]
             \/ /\ k - Len(first) + 1 \in DOMAIN turn
                /\ turn'[k] = turn[k - Len(first) + 1]
  <2>1. /\ Len(first \o rest) = Len(first) + Len(rest)
        /\ \A i \in 1..(Len(first) + Len(rest)) :
               (first \o rest)[i] = IF i <= Len(first) THEN first[i] ELSE rest[i - Len(first)]
    BY <1>1, <1>2, ConcatProperties
  <2>2. k \in 1..(Len(first) + Len(rest)) /\ Len(first) \in Nat /\ Len(rest) \in Nat
    BY <1>1, <1>2, <1>6, <2>1
  <2>3. turn'[k] = IF k <= Len(first) THEN first[k] ELSE rest[k - Len(first)]
    BY <1>6, <2>1, <2>2
  <2>4. CASE k <= Len(first)
    <3>1. k \in DOMAIN first
      BY <1>2, <2>2, <2>4
    <3> QED BY <2>3, <2>4, <3>1
  <2>5. CASE ~(k <= Len(first))
    <3>1. k - Len(first) \in DOMAIN rest
      BY <1>1, <2>2, <2>5
    <3> QED BY <1>1, <2>3, <2>5, <3>1
  <2> QED BY <2>4, <2>5
\* What it calls first was ahead: it is untouched, and has one place.
<1>8. ASSUME NEW k \in DOMAIN first, first[k] \in Leaves
      PROVE  /\ leaf[first[k]] = "idle"
             /\ \A m \in DOMAIN turn : turn[m] # first[k]
             /\ \A m \in DOMAIN first : first[m] = first[k] => m = k
  <2>1. Ahead(d, k)
    BY <1>4 DEF Ahead
  <2>2. Untouched(first[k])
    BY <1>2, <1>8, <2>1 DEF IInv, AheadIsUntouched
  <2>3. \A m \in DOMAIN first : first[m] = first[k] => m = k
    BY <1>2, <1>8 DEF IInv, OnePlace
  <2> QED BY <2>2, <2>3 DEF Untouched
<1>9. TypeOK'
  <2>1. list' \in [Containers -> Seq(Objects)]
    BY <1>5
  <2>2. listeners' \in [Containers -> [Containers -> Nat]]
    BY DEF IInv, TypeOK, NoListener
  <2>3. /\ phase' \in [Containers -> {"live", "disposing", "disposed"}]
        /\ at' \in [Containers -> Nat]
    BY DEF IInv, TypeOK
  <2>4. \A c \in Containers : phase'[c] = "disposing" => at'[c] >= 1
    BY <1>4 DEF IInv, TypeOK
  <2> QED BY <1>6, <2>1, <2>2, <2>3, <2>4 DEF IInv, TypeOK
<1>10. OnePlace'
  BY <1>5, OnePlaceLemma DEF IInv
<1>11. AheadIsUntouched'
  <2> SUFFICES ASSUME NEW c \in Containers, NEW i \in DOMAIN list'[c],
                      list'[c][i] \in Leaves, Ahead(c, i)'
               PROVE  Untouched(list[c][i])'
    BY DEF AheadIsUntouched
  <2> DEFINE l == list'[c][i]
  <2>1. PICK j \in DOMAIN list[c] : l = list[c][j] /\ (c = d \/ phase[c] # "live" => j = i)
    <3>1. CASE c = d \/ phase[c] # "live"
      BY <1>4, <3>1
    <3>2. CASE c # d /\ phase[c] = "live"
      <4>0. Thinned(list'[c], list[c])
        BY <1>5, <3>2
      <4>1. PICK place \in [DOMAIN list'[c] -> DOMAIN list[c]] :
                \A k \in DOMAIN list'[c] : list'[c][k] = list[c][place[k]]
        BY <4>0 DEF Thinned
      <4>2. place[i] \in DOMAIN list[c] /\ l = list[c][place[i]]
        BY <4>1
      <4> QED BY <3>2, <4>2
    <3> QED BY <3>1, <3>2
  <2>2. Ahead(c, j) /\ (c = d => c # Global /\ i > 1 /\ j = i)
    <3>1. CASE c = d
      BY <1>4, <2>1, <3>1 DEF Ahead
    <3>2. CASE c # d
      BY <1>4, <2>1, <3>2 DEF Ahead
    <3> QED BY <3>1, <3>2
  <2>3. Untouched(l)
    BY <2>1, <2>2 DEF IInv, AheadIsUntouched
  <2>4. \A k \in DOMAIN first : first[k] # l
    <3> SUFFICES ASSUME NEW k \in DOMAIN first, first[k] = l PROVE FALSE
      OBVIOUS
    <3>1. c = d /\ k = j
      BY <1>2, <2>1 DEF IInv, OnePlace
    <3>2. k = 1 /\ j > 1
      BY <1>2, <2>2, <3>1
    <3> QED BY <3>1, <3>2
  <2>5. \A k \in DOMAIN turn' : turn'[k] # l
    BY <1>7, <2>3, <2>4 DEF Untouched
  <2> QED BY <2>3, <2>5 DEF Untouched
<1>12. TurnIsUntouched'
  <2> SUFFICES ASSUME NEW k \in DOMAIN turn', turn'[k] \in Leaves
               PROVE  /\ leaf[turn'[k]] = "idle"
                      /\ \A m \in DOMAIN turn' : turn'[m] = turn'[k] => m = k
    BY DEF TurnIsUntouched
  <2>1. CASE k \in DOMAIN first /\ turn'[k] = first[k]
    <3>1. ASSUME NEW m \in DOMAIN turn', turn'[m] = turn'[k] PROVE m = k
      <4>1. m \in DOMAIN first /\ turn'[m] = first[m]
        BY <1>7, <1>8, <2>1, <3>1
      <4> QED BY <1>8, <2>1, <3>1, <4>1
    <3> QED BY <1>8, <2>1, <3>1
  <2>2. CASE /\ k - Len(first) + 1 \in DOMAIN turn
             /\ turn'[k] = turn[k - Len(first) + 1]
    <3>1. leaf[turn'[k]] = "idle"
      BY <2>2 DEF IInv, TurnIsUntouched
    <3>2. ASSUME NEW m \in DOMAIN turn', turn'[m] = turn'[k] PROVE m = k
      <4>1. m - Len(first) + 1 \in DOMAIN turn /\ turn'[m] = turn[m - Len(first) + 1]
        BY <1>7, <1>8, <2>2, <3>2
      <4>2. m - Len(first) + 1 = k - Len(first) + 1
        BY <2>2, <3>2, <4>1 DEF IInv, TurnIsUntouched
      <4>3. Len(first) \in Nat /\ m \in Nat /\ k \in Nat
        BY <1>2, <1>6
      <4> QED BY <4>2, <4>3
    <3> QED BY <3>1, <3>2
  <2> QED BY <1>7, <2>1, <2>2
<1>13. /\ \A e \in Objects : Settled(e) => Settled(e)'
       /\ \A e \in Objects : Failed(e)' <=> Failed(e)
  BY <1>4 DEF Settled, Failed, Objects
<1>14. BehindHasEnded'
  <2>1. \A c \in Containers : \A i \in DOMAIN list'[c] :
            Behind(c, i)' => list'[c] = list[c] /\ Behind(c, i)
    <3> SUFFICES ASSUME NEW c \in Containers, NEW i \in DOMAIN list'[c], Behind(c, i)'
                 PROVE  list'[c] = list[c] /\ Behind(c, i)
      OBVIOUS
    <3>1. i \in Nat /\ i >= 1
      <4>1. list'[c] \in Seq(Objects)
        BY <1>5
      <4> QED BY <4>1
    <3>2. CASE c = d
      BY <1>4, <3>1, <3>2 DEF Behind
    <3>3. CASE c # d
      BY <1>4, <3>3 DEF Behind
    <3> QED BY <3>2, <3>3
  <2> QED BY <1>13, <2>1, BehindLemma
<1>15. ErrorsAreKept'
  <2>1. ASSUME NEW c \in Containers \ {Global}
        PROVE  IF phase[c] = "live" THEN \A i \in DOMAIN list'[c] : ~Behind(c, i)'
               ELSE list'[c] = list[c]
                    /\ \A i \in DOMAIN list[c] : Behind(c, i)' <=> Behind(c, i)
    <3>1. \A i \in DOMAIN list'[c] : i \in Nat /\ ~(i < 1)
      <4>1. list'[c] \in Seq(Objects)
        BY <1>5
      <4> QED BY <4>1
    <3>2. CASE phase[c] = "live"
      BY <1>4, <3>1, <3>2 DEF Behind
    <3>3. CASE phase[c] # "live"
      BY <1>4, <3>3 DEF Behind
    <3> QED BY <3>2, <3>3
  <2> QED BY <1>13, <2>1, ErrorsLemma
<1>16. CallsAreCounted'
  BY DEF IInv, CallsAreCounted
<1> QED BY <1>9, <1>10, <1>11, <1>12, <1>14, <1>15, <1>16 DEF IInv

\* The next dispose() of the turn.
LEMMA CallInv ==
    ASSUME IInv, Call
    PROVE  IInv'
<1> DEFINE d == Head(turn)
<1>1. CASE /\ d \in Leaves
           /\ calls' = [calls EXCEPT ![d] = @ + 1]
           /\ leaf' = [leaf EXCEPT ![d] = IF @ = "idle" THEN "releasing" ELSE @]
           /\ turn' = Tail(turn)
           /\ UNCHANGED <<list, listeners, phase, at>>
  BY <1>1, CallLeafInv DEF Call
<1>2. CASE /\ d \in Containers /\ ~HasBegun(d)
           /\ phase' = [phase EXCEPT ![d] = "disposing"]
           /\ at' = [at EXCEPT ![d] = 1]
           /\ list' = [c \in Containers |->
                          IF phase'[c] = "live"
                          THEN Dereferenced(list[c], d, listeners[d][c])
                          ELSE list[c]]
           /\ listeners' = [listeners EXCEPT ![d] = NoListener]
           /\ turn' = FirstCalls(d) \o Tail(turn)
           /\ UNCHANGED <<leaf, calls>>
  <2>1. turn # <<>> /\ UNCHANGED error
    BY DEF Call
  <2> QED BY <1>2, <2>1, CallContainerInv
<1>3. CASE turn' = Tail(turn) /\ d \in Containers /\ UNCHANGED treeVars
  <2>1. turn \in Seq(Objects) /\ turn # <<>>
    BY DEF Call, IInv, TypeOK
  <2>2. /\ turn' \in Seq(Objects)
        /\ \A k \in DOMAIN turn' :
               k \in Nat /\ k + 1 \in DOMAIN turn /\ turn'[k] = turn[k + 1]
    BY <1>3, <2>1
  <2>3. UNCHANGED <<list, listeners, phase, at, error, leaf, calls>>
    BY <1>3 DEF treeVars
  <2>4. TypeOK'
    BY <2>2, <2>3 DEF IInv, TypeOK
  <2>5. OnePlace' /\ BehindHasEnded' /\ ErrorsAreKept' /\ CallsAreCounted'
    BY <2>3 DEF IInv, OnePlace, BehindHasEnded, Behind, ErrorsAreKept, Settled, Failed,
                CallsAreCounted
  <2>6. AheadIsUntouched'
    BY <2>2, <2>3 DEF IInv, AheadIsUntouched, Ahead, Untouched
  <2>7. TurnIsUntouched'
    <3> SUFFICES ASSUME NEW k \in DOMAIN turn', turn'[k] \in Leaves
                 PROVE  /\ leaf[turn'[k]] = "idle"
                        /\ \A m \in DOMAIN turn' : turn'[m] = turn'[k] => m = k
      BY <2>3 DEF TurnIsUntouched
    <3>1. leaf[turn'[k]] = "idle"
      BY <2>2 DEF IInv, TurnIsUntouched
    <3>2. \A m \in DOMAIN turn' : turn'[m] = turn'[k] => m + 1 = k + 1
      BY <2>2 DEF IInv, TurnIsUntouched
    <3> QED BY <2>2, <3>1, <3>2
  <2> QED BY <2>4, <2>5, <2>6, <2>7 DEF IInv
<1> QED BY <1>1, <1>2, <1>3 DEF Call

\* The loop of _dispose() goes on: what it calls next was ahead, and an error of
\* what it has awaited is its own.
LEMMA AdvanceInv ==
    ASSUME IInv, NEW c \in Containers, Advance(c)
    PROVE  IInv'
<1> DEFINE last == list[c][at[c]]
           next == list[c][at[c] + 1]
<1>1. /\ c # Global /\ phase[c] = "disposing" /\ turn = <<>>
      /\ at[c] <= Len(list[c]) /\ Settled(last)
      /\ error' = [error EXCEPT ![c] = error[c] \/ Failed(last)]
      /\ at' = [at EXCEPT ![c] = at[c] + 1]
      /\ turn' = IF at[c] < Len(list[c]) THEN <<next>> ELSE <<>>
      /\ UNCHANGED <<list, listeners, phase, leaf, calls>>
  BY DEF Advance, Running, IInv, TypeOK
<1>2. /\ at[c] \in Nat /\ at[c] >= 1 /\ at'[c] = at[c] + 1
      /\ \A e \in Containers \ {c} : at'[e] = at[e]
      /\ at' \in [Containers -> Nat]
  BY <1>1 DEF IInv, TypeOK
<1>3. /\ \A e \in Containers : list[e] \in Seq(Objects)
      /\ \A e \in Containers : \A i \in DOMAIN list[e] : list[e][i] \in Objects /\ i \in Nat
  <2>1. \A e \in Containers : list[e] \in Seq(Objects)
    BY DEF IInv, TypeOK
  <2> QED BY <2>1
<1>4. /\ at[c] \in DOMAIN list[c]
      /\ at[c] < Len(list[c]) => at[c] + 1 \in DOMAIN list[c] /\ next \in Objects
  <2>1. Len(list[c]) \in Nat /\ DOMAIN list[c] = 1..Len(list[c])
    BY <1>3
  <2>2. at[c] \in DOMAIN list[c] /\ (at[c] < Len(list[c]) => at[c] + 1 \in DOMAIN list[c])
    BY <1>1, <1>2, <2>1
  <2> QED BY <1>3, <2>2
<1> HIDE DEF next
<1>5. turn' \in Seq(Objects) /\ \A k \in DOMAIN turn' :
          k = 1 /\ turn'[k] = next /\ at[c] < Len(list[c])
  <2>1. CASE at[c] < Len(list[c])
    <3>1. turn' = <<next>> /\ next \in Objects
      BY <1>1, <1>4, <2>1
    <3> QED BY <2>1, <3>1
  <2>2. CASE ~(at[c] < Len(list[c]))
    BY <1>1, <2>2
  <2> QED BY <2>1, <2>2
<1>6. TypeOK'
  <2>1. (error[c] \/ Failed(last)) \in BOOLEAN
    OBVIOUS
  <2>2. error' \in [Containers -> BOOLEAN]
    BY <1>1, <2>1 DEF IInv, TypeOK
  <2>3. \A e \in Containers : phase'[e] = "disposing" => at'[e] >= 1
    BY <1>1, <1>2 DEF IInv, TypeOK
  <2> QED BY <1>1, <1>2, <1>5, <2>2, <2>3 DEF IInv, TypeOK
<1>7. OnePlace' /\ CallsAreCounted'
  BY <1>1 DEF IInv, OnePlace, CallsAreCounted
<1>8. AheadIsUntouched'
  <2> SUFFICES ASSUME NEW e \in Containers, NEW i \in DOMAIN list[e],
                      list[e][i] \in Leaves, Ahead(e, i)'
               PROVE  Untouched(list[e][i])'
    BY <1>1 DEF AheadIsUntouched
  <2>1. Ahead(e, i) /\ (e = c => i > at[c] + 1)
    BY <1>1, <1>2, <1>3 DEF Ahead
  <2>2. leaf[list[e][i]] = "idle"
    BY <2>1 DEF IInv, AheadIsUntouched, Untouched
  <2>3. at[c] < Len(list[c]) => list[e][i] # next
    <3> SUFFICES ASSUME at[c] < Len(list[c]), list[e][i] = next PROVE FALSE
      OBVIOUS
    <3>1. e = c /\ i = at[c] + 1
      BY <1>4 DEF next, IInv, OnePlace
    <3> QED BY <1>2, <2>1, <3>1
  <2> QED BY <1>1, <1>5, <2>2, <2>3 DEF Untouched
<1>9. TurnIsUntouched'
  <2> SUFFICES ASSUME NEW k \in DOMAIN turn', turn'[k] \in Leaves
               PROVE  /\ leaf[turn'[k]] = "idle"
                      /\ \A m \in DOMAIN turn' : turn'[m] = turn'[k] => m = k
    BY <1>1 DEF TurnIsUntouched
  <2>1. Ahead(c, at[c] + 1)
    BY <1>1, <1>2 DEF Ahead
  <2>2. leaf[turn'[k]] = "idle"
    BY <1>4, <1>5, <2>1 DEF next, IInv, AheadIsUntouched, Untouched
  <2> QED BY <1>5, <2>2
<1>10. /\ \A e \in Objects : Settled(e) => Settled(e)'
       /\ \A e \in Objects : e # c => (Failed(e)' <=> Failed(e))
  BY <1>1 DEF Settled, Failed, Objects, IInv, TypeOK
<1>11. ~Settled(c)
  BY <1>1, LifecycleAssumption DEF Settled
<1>12. BehindHasEnded'
  <2>1. \A e \in Containers : \A i \in DOMAIN list'[e] :
            Behind(e, i)' => list'[e] = list[e] /\ (Behind(e, i) \/ Settled(list[e][i]))
    <3> SUFFICES ASSUME NEW e \in Containers, NEW i \in DOMAIN list[e], Behind(e, i)'
                 PROVE  Behind(e, i) \/ Settled(list[e][i])
      BY <1>1
    <3>1. CASE e = c
      <4>1. i < at[c] \/ i = at[c]
        BY <1>1, <1>2, <1>3, <3>1 DEF Behind
      <4> QED BY <1>1, <3>1, <4>1 DEF Behind
    <3>2. CASE e # c
      BY <1>1, <1>2, <3>2 DEF Behind
    <3> QED BY <3>1, <3>2
  <2> QED BY <1>10, <2>1, BehindLemma
<1>13. ErrorsAreKept'
  <2> SUFFICES ASSUME NEW e \in Containers \ {Global}
               PROVE  error'[e] <=> \E i \in DOMAIN list[e] :
                                        Behind(e, i)' /\ Failed(list[e][i])'
    BY <1>1 DEF ErrorsAreKept
  <2>1. error[e] <=> \E i \in DOMAIN list[e] : Behind(e, i) /\ Failed(list[e][i])
    BY DEF IInv, ErrorsAreKept
  <2>2. CASE e # c
    <3>1. \A i \in DOMAIN list[e] : Behind(e, i)' <=> Behind(e, i)
      BY <1>1, <1>2, <2>2 DEF Behind
    <3>2. \A i \in DOMAIN list[e] :
              Behind(e, i) => list[e][i] \in Objects /\ list[e][i] # c
      BY <1>3, <1>11 DEF IInv, BehindHasEnded
    <3>3. \A i \in DOMAIN list[e] :
              Behind(e, i) => (Failed(list[e][i])' <=> Failed(list[e][i]))
      BY <1>1, <1>10, <3>2 DEF Failed
    <3>4. error'[e] = error[e]
      BY <1>1, <2>2 DEF IInv, TypeOK
    <3> QED BY <2>1, <3>1, <3>3, <3>4
  <2>3. CASE e = c
    <3>1. \A i \in DOMAIN list[c] : Behind(c, i)' <=> Behind(c, i) \/ i = at[c]
      BY <1>1, <1>2, <1>3 DEF Behind
    <3>2. \A i \in DOMAIN list[c] : list[c][i] \in Objects /\ list[c][i] # c
      BY <1>3 DEF IInv, OnePlace
    <3>3. \A i \in DOMAIN list[c] : Failed(list[c][i])' <=> Failed(list[c][i])
      BY <1>1, <1>10, <3>2 DEF Failed
    <3>4. error'[c] <=> error[c] \/ Failed(last)
      BY <1>1 DEF IInv, TypeOK
    <3> QED BY <1>4, <2>1, <2>3, <3>1, <3>3, <3>4
  <2> QED BY <2>2, <2>3
<1> QED BY <1>6, <1>7, <1>8, <1>9, <1>12, <1>13 DEF IInv

\* A resource has ended, well or badly: nobody has stepped over it before.
LEMMA ReleaseInv ==
    ASSUME IInv, NEW l \in Leaves, NEW outcome \in {"released", "failed"}, Release(l, outcome)
    PROVE  IInv'
<1>1. /\ leaf[l] = "releasing" /\ leaf' = [leaf EXCEPT ![l] = outcome]
      /\ UNCHANGED <<list, listeners, phase, at, error, calls, turn>>
  BY DEF Release
<1>2. /\ \A e \in Objects : Settled(e) => Settled(e)'
      /\ \A e \in Objects : Settled(e) => (Failed(e)' <=> Failed(e))
  BY <1>1 DEF Settled, Failed, Objects, IInv, TypeOK
<1>3. \A c \in Containers : \A i : Behind(c, i)' <=> Behind(c, i)
  BY <1>1 DEF Behind
<1>4. TypeOK' /\ OnePlace'
  BY <1>1 DEF IInv, TypeOK, OnePlace
<1>5. \A e \in Leaves : leaf[e] = "idle" <=> leaf'[e] = "idle"
  BY <1>1 DEF IInv, TypeOK
<1>6. CallsAreCounted'
  BY <1>1, <1>5 DEF IInv, CallsAreCounted
<1>7. AheadIsUntouched'
  BY <1>1, <1>5 DEF IInv, AheadIsUntouched, Ahead, Untouched
<1>8. TurnIsUntouched'
  BY <1>1, <1>5 DEF IInv, TurnIsUntouched
<1>9. BehindHasEnded'
  <2>1. \A c \in Containers : \A i \in DOMAIN list'[c] :
            Behind(c, i)' => list'[c] = list[c] /\ (Behind(c, i) \/ Settled(list[c][i]))
    BY <1>1, <1>3
  <2> QED BY <1>2, <2>1, BehindLemma
<1>10. ErrorsAreKept'
  <2>1. \A c \in Containers \ {Global} :
            IF phase[c] = "live" THEN \A i \in DOMAIN list'[c] : ~Behind(c, i)'
            ELSE list'[c] = list[c]
                 /\ \A i \in DOMAIN list[c] : Behind(c, i)' <=> Behind(c, i)
    BY <1>1 DEF Behind
  <2>2. UNCHANGED error
    BY <1>1
  <2> QED BY <1>2, <2>1, <2>2, ErrorsLemma
<1> QED BY <1>4, <1>6, <1>7, <1>8, <1>9, <1>10 DEF IInv

\* _dispose() is over: what it has awaited has ended, at every place.
LEMMA FinishInv ==
    ASSUME IInv, NEW c \in Containers, Finish(c)
    PROVE  IInv'
<1>1. /\ phase[c] = "disposing" /\ phase' = [phase EXCEPT ![c] = "disposed"]
      /\ IF c = Global THEN \A d \in ToSet(list[c]) : Settled(d) ELSE at[c] > Len(list[c])
      /\ UNCHANGED <<list, listeners, at, error, leaf, calls, turn>>
  BY DEF Finish
<1>2. \A e \in Containers : list[e] \in Seq(Objects)
  BY DEF IInv, TypeOK
<1>3. /\ \A e \in Objects : Settled(e) => Settled(e)'
      /\ \A e \in Objects : Failed(e)' <=> Failed(e)
  BY <1>1 DEF Settled, Failed, Objects, IInv, TypeOK
<1>4. TypeOK' /\ OnePlace' /\ CallsAreCounted' /\ TurnIsUntouched'
  <2>1. phase' \in [Containers -> {"live", "disposing", "disposed"}]
    BY <1>1 DEF IInv, TypeOK
  <2>2. \A e \in Containers : phase'[e] = "disposing" => at'[e] >= 1
    BY <1>1 DEF IInv, TypeOK
  <2>3. TypeOK'
    BY <1>1, <2>1, <2>2 DEF IInv, TypeOK
  <2>4. OnePlace' /\ CallsAreCounted'
    BY <1>1 DEF IInv, OnePlace, CallsAreCounted
  <2>5. TurnIsUntouched'
    BY <1>1 DEF IInv, TurnIsUntouched
  <2> QED BY <2>3, <2>4, <2>5
<1>5. AheadIsUntouched'
  BY <1>1 DEF IInv, TypeOK, AheadIsUntouched, Ahead, Untouched
<1>6. \A i \in DOMAIN list[c] : Settled(list[c][i]) /\ (c # Global => Behind(c, i))
  <2> SUFFICES ASSUME NEW i \in DOMAIN list[c]
               PROVE  Settled(list[c][i]) /\ (c # Global => Behind(c, i))
    OBVIOUS
  <2>1. CASE c = Global
    BY <1>1, <2>1 DEF ToSet
  <2>2. CASE c # Global
    <3>1. i <= Len(list[c]) /\ i \in Nat /\ Len(list[c]) \in Nat /\ at[c] \in Nat
      BY <1>2 DEF IInv, TypeOK
    <3>2. Behind(c, i)
      BY <1>1, <2>2, <3>1 DEF Behind
    <3> QED BY <2>2, <3>2 DEF IInv, BehindHasEnded
  <2> QED BY <2>1, <2>2
<1>7. \A e \in Containers : e # c => \A i : Behind(e, i)' <=> Behind(e, i)
  BY <1>1 DEF Behind, IInv, TypeOK
<1>8. BehindHasEnded'
  <2>1. \A e \in Containers : \A i \in DOMAIN list'[e] :
            Behind(e, i)' => list'[e] = list[e] /\ (Behind(e, i) \/ Settled(list[e][i]))
    BY <1>1, <1>6, <1>7
  <2> QED BY <1>3, <2>1, BehindLemma
<1>9. ErrorsAreKept'
  <2>1. ASSUME NEW e \in Containers \ {Global}
        PROVE  IF phase[e] = "live" THEN \A i \in DOMAIN list'[e] : ~Behind(e, i)'
               ELSE list'[e] = list[e]
                    /\ \A i \in DOMAIN list[e] : Behind(e, i)' <=> Behind(e, i)
    <3>1. CASE e = c
      <4>1. \A i \in DOMAIN list[c] : Behind(c, i) /\ Behind(c, i)'
        BY <1>1, <1>6, <3>1 DEF Behind, IInv, TypeOK
      <4> QED BY <1>1, <3>1, <4>1
    <3>2. CASE e # c
      <4>1. \A i : Behind(e, i)' <=> Behind(e, i)
        BY <1>7, <3>2
      <4>2. phase[e] = "live" => \A i : ~Behind(e, i)
        BY DEF Behind
      <4> QED BY <1>1, <4>1, <4>2
    <3> QED BY <3>1, <3>2
  <2>2. UNCHANGED error
    BY <1>1
  <2> QED BY <1>3, <2>1, <2>2, ErrorsLemma
<1> QED BY <1>4, <1>5, <1>8, <1>9 DEF IInv

\* Nothing the invariant speaks of has changed.
LEMMA SameInv ==
    ASSUME IInv, UNCHANGED objectVars
    PROVE  IInv'
<1>1. UNCHANGED <<list, listeners, phase, at, error, leaf, calls, turn>>
  BY DEF objectVars, treeVars
<1> QED
  BY <1>1 DEF IInv, TypeOK, OnePlace, AheadIsUntouched, Ahead, Untouched, TurnIsUntouched,
              BehindHasEnded, Behind, Settled, ErrorsAreKept, Failed, CallsAreCounted

\* Every step keeps the invariant.
LEMMA StepIInv == IInv /\ [Next]_vars => IInv'
<1> SUFFICES ASSUME IInv, [Next]_vars PROVE IInv'
  OBVIOUS
<1>1. ASSUME NEW c \in Containers, NEW d \in Objects, NEW auto \in BOOLEAN, Register(c, d, auto)
      PROVE  IInv'
  BY <1>1, RegisterInv
<1>2. ASSUME NEW c \in Containers, NEW d \in Objects, Unregister(c, d)
      PROVE  IInv'
  BY <1>2, UnregisterInv
<1>3. ASSUME NEW c \in Containers, Dispose(c)
      PROVE  IInv'
  BY <1>3, DisposeInv DEF Dispose, Running
<1>4. ASSUME NEW c \in Containers, Advance(c)
      PROVE  IInv'
  BY <1>4, AdvanceInv
<1>5. ASSUME NEW c \in Containers, Finish(c)
      PROVE  IInv'
  BY <1>5, FinishInv
<1>6. ASSUME NEW l \in Leaves, NEW outcome \in {"released", "failed"}, Release(l, outcome)
      PROVE  IInv'
  BY <1>6, ReleaseInv
<1>7. CASE Call
  BY <1>7, CallInv
<1>8. CASE Shutdown
  BY <1>8, DisposeInv, LifecycleAssumption DEF Shutdown, Running
<1>9. CASE Signal
  <2>1. Shutdown \/ UNCHANGED objectVars
    BY <1>9 DEF Signal
  <2> QED BY <1>8, <2>1, SameInv
<1>10. CASE Fatal \/ Exit \/ UNCHANGED vars
  BY <1>10, SameInv DEF Fatal, Exit, vars
<1> QED BY <1>1, <1>2, <1>3, <1>4, <1>5, <1>6, <1>7, <1>8, <1>9, <1>10 DEF Next

-----------------------------------------------------------------------------

\* The invariant holds in every reachable state, whatever is shared.
THEOREM Inductive == Spec => []IInv
  BY InitIInv, StepIInv, PTL DEF Spec

\* dispose() of a resource is called once, however many parents and owners of
\* what holds it call dispose(), and however often.
THEOREM Once == Spec => []ReleasedOnce
<1>1. IInv => ReleasedOnce
  BY DEF IInv, CallsAreCounted, ReleasedOnce
<1> QED BY <1>1, Inductive, PTL

\* What lies below something that has ended has ended.
LEMMA SettledBelow ==
    ASSUME IInv, NEW o \in Objects, Settled(o)
    PROVE  \A d \in Below(o) : Settled(d)
<1> DEFINE pairs == UNION {{d} \X ToSet(list[d]) : d \in Containers}
           ended == {d \in Objects : Settled(d)}
<1>1. Below(o) = Reached(o, pairs)
  BY DEF Below
<1>2. \A d \in Containers : list[d] \in Seq(Objects) /\ d \notin Leaves
  BY LifecycleAssumption DEF IInv, TypeOK
<1>3. \A p \in pairs : p[1] \in Containers /\ \E i \in DOMAIN list[p[1]] : p[2] = list[p[1]][i]
  BY DEF ToSet
<1>4. \A p \in pairs : p[1] \in ended \union {o} => p[2] \in ended
  <2> SUFFICES ASSUME NEW p \in pairs, p[1] \in ended \union {o} PROVE p[2] \in ended
    OBVIOUS
  <2>1. PICK i \in DOMAIN list[p[1]] : p[2] = list[p[1]][i]
    BY <1>3
  <2>2. phase[p[1]] = "disposed"
    BY <1>2, <1>3 DEF Settled
  <2>3. Settled(p[2])
    BY <1>3, <2>1, <2>2 DEF IInv, BehindHasEnded, Behind
  <2>4. p[2] \in Objects
    BY <1>2, <1>3, <2>1
  <2> QED BY <2>3, <2>4
<1>5. \A T : (\A p \in pairs : p[1] \in T \union {o} => p[2] \in T) => Below(o) \subseteq T
  BY <1>1, ReachedLemma
<1> HIDE DEF pairs
<1>6. Below(o) \subseteq ended
  BY <1>4, <1>5
<1> QED BY <1>6

\* A container does not touch a resource before what it has listed in front of it
\* has ended, and everything below that.
THEOREM LastFirst == Spec => []FirstRegisteredLast
<1>1. IInv => FirstRegisteredLast
  <2> SUFFICES ASSUME IInv, NEW c \in Containers \ {Global}, NEW j \in DOMAIN list[c],
                      list[c][j] \in Leaves, ~Live(list[c][j]), NEW i \in 1..(j - 1)
               PROVE  \A d \in {list[c][i]} \union Below(list[c][i]) : Settled(d)
    BY DEF FirstRegisteredLast
  <2>1. ~Ahead(c, j)
    BY DEF IInv, AheadIsUntouched, Untouched, Live
  <2>2. /\ list[c] \in Seq(Objects) /\ at[c] \in Nat
        /\ phase[c] \in {"live", "disposing", "disposed"}
    BY DEF IInv, TypeOK
  <2>3. i \in DOMAIN list[c] /\ i \in Nat /\ j \in Nat /\ i < j
    BY <2>2
  <2>4. Behind(c, i)
    BY <2>1, <2>2, <2>3 DEF Ahead, Behind
  <2>5. Settled(list[c][i]) /\ list[c][i] \in Objects
    BY <2>2, <2>3, <2>4 DEF IInv, BehindHasEnded
  <2> QED BY <2>5, SettledBelow
<1> QED BY <1>1, Inductive, PTL

\* A dispose() that has resolved left nothing below it that is not released, and
\* it rejected if and only if something below it did.
THEOREM Released == Spec => []DisposedIsReleased
<1>1. IInv => DisposedIsReleased
  <2> SUFFICES ASSUME IInv, NEW c \in Containers, phase[c] = "disposed"
               PROVE  /\ \A d \in Below(c) : Settled(d)
                      /\ c # Global => (error[c] <=> \E d \in Below(c) : Failed(d))
    BY DEF DisposedIsReleased
  <2> DEFINE pairs == UNION {{d} \X ToSet(list[d]) : d \in Containers}
             good == {d \in Objects : Settled(d) /\ ~Failed(d) /\ d # Global}
  <2>1. Below(c) = Reached(c, pairs)
    BY DEF Below
  <2>2. \A d \in Containers : list[d] \in Seq(Objects) /\ d \in Objects /\ d \notin Leaves
    BY LifecycleAssumption DEF IInv, TypeOK, Objects
  <2>3. \A p \in pairs : p[1] \in Containers /\ \E i \in DOMAIN list[p[1]] : p[2] = list[p[1]][i]
    BY DEF ToSet
  <2>4. \A d \in Below(c) : Settled(d)
    BY <2>2, SettledBelow DEF Settled
  <2>5. ASSUME c # Global, ~error[c]
        PROVE  \A p \in pairs : p[1] \in good \union {c} => p[2] \in good
    <3> SUFFICES ASSUME NEW p \in pairs, p[1] \in good \union {c} PROVE p[2] \in good
      OBVIOUS
    <3>1. PICK i \in DOMAIN list[p[1]] : p[2] = list[p[1]][i]
      BY <2>3
    <3>2. phase[p[1]] = "disposed" /\ ~error[p[1]] /\ p[1] \in Containers \ {Global}
      BY <2>2, <2>3, <2>5 DEF Settled, Failed
    <3>3. Behind(p[1], i)
      BY <3>2 DEF Behind
    <3>4. Settled(p[2]) /\ ~Failed(p[2]) /\ p[2] # Global
      BY <3>1, <3>2, <3>3 DEF IInv, BehindHasEnded, ErrorsAreKept, OnePlace
    <3>5. p[2] \in Objects
      BY <2>2, <2>3, <3>1
    <3> QED BY <3>4, <3>5
  <2>6. ASSUME c # Global, error[c]
        PROVE  \E d \in Below(c) : Failed(d)
    <3>1. PICK i \in DOMAIN list[c] : Failed(list[c][i])
      BY <2>6 DEF IInv, ErrorsAreKept
    <3>2. <<c, list[c][i]>> \in pairs
      BY DEF ToSet
    <3>3. \A p \in pairs : p[1] \in Reached(c, pairs) \union {c} => p[2] \in Reached(c, pairs)
      BY ReachedLemma
    <3>4. list[c][i] \in Reached(c, pairs)
      BY <3>2, <3>3
    <3> QED BY <2>1, <3>1, <3>4
  <2>7. \A T : (\A p \in pairs : p[1] \in T \union {c} => p[2] \in T) => Below(c) \subseteq T
    BY <2>1, ReachedLemma
  <2> HIDE DEF pairs
  <2>8. c # Global /\ ~error[c] => Below(c) \subseteq good
    BY <2>5, <2>7
  <2> QED BY <2>4, <2>6, <2>8
<1> QED BY <1>1, Inductive, PTL
=============================================================================
