------------------------------- MODULE MemoryMap -------------------------------
(***************************************************************************)
(* What @idlebox/section-buffer's MemoryCacheController promises: a map    *)
(* from every byte of the download to where it is.  push() takes a range   *)
(* of bytes that are all missing and refuses any other, shift() hands out  *)
(* the first run of bytes in memory as a whole, punchHole() makes bytes    *)
(* missing again.                                                          *)
(***************************************************************************)
EXTENDS Integers

CONSTANT MaxSize        \* bytes of the download

VARIABLES
    where,      \* "missing", "memory" or "file", for every byte
    answer      \* what the last call answered or did

mapVars == <<where, answer>>

Bytes == 0 .. (MaxSize - 1)

InMemory == {b \in Bytes : where[b] = "memory"}

Init ==
    /\ where = [b \in Bytes |-> "missing"]
    /\ answer = <<"none">>

Receive(from, to, kind) ==
    \/ /\ 0 <= from /\ from < to /\ to <= MaxSize
       /\ \A b \in from..(to - 1) : where[b] = "missing"
       /\ where' = [b \in Bytes |-> IF b \in from..(to - 1) THEN kind ELSE where[b]]
       /\ answer' = <<"taken">>
    \/ /\ \/ ~(0 <= from /\ from < to /\ to <= MaxSize)
          \/ \E b \in from..(to - 1) : where[b] # "missing"
       /\ answer' = <<"thrown">>
       /\ UNCHANGED where

\* [from, to) is the first run of bytes in memory.
FirstRun(from, to) ==
    /\ from \in InMemory
    /\ \A b \in InMemory : from <= b
    /\ from..(to - 1) \subseteq InMemory
    /\ to \notin InMemory

HandOut ==
    \/ InMemory = {} /\ answer' = <<"empty">> /\ UNCHANGED where
    \/ \E from \in Bytes : \E to \in (from + 1)..MaxSize :
           /\ FirstRun(from, to)
           /\ answer' = <<"chunk", from, to>>
           /\ where' = [b \in Bytes |->
                            IF b \in from..(to - 1) THEN "file" ELSE where[b]]

Forget(from, to) ==
    /\ \A b \in from..(to - 1) : where[b] # "memory"
    /\ where' = [b \in Bytes |-> IF b \in from..(to - 1) THEN "missing" ELSE where[b]]
    /\ answer' = <<"hole", from, to>>

Next ==
    \/ \E from \in 0..MaxSize, to \in 0..(MaxSize + 1), kind \in {"memory", "file"} :
           Receive(from, to, kind)
    \/ HandOut
    \/ \E from, to \in 0..MaxSize : Forget(from, to)

Spec == Init /\ [][Next]_mapVars
=============================================================================
