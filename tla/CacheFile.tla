------------------------------- MODULE CacheFile -------------------------------
(***************************************************************************)
(* @idlebox/section-buffer, common/CacheFile.ts: the append-only file a    *)
(* download is cached in.  It is a header followed by records: a section   *)
(* (data with its hash) or the erasure of an earlier section.  Writes go   *)
(* to a stream and reach the file in their order, some time later; when    *)
(* the process ends, a prefix of them is there, the last one maybe torn.   *)
(* openRead() finds the sections again and cuts a torn record off.         *)
(*                                                                         *)
(* The data of a section is its identity; its position in the file is the  *)
(* index of its record.                                                    *)
(***************************************************************************)
EXTENDS Integers, Sequences, FiniteSets, SequencesExt

CONSTANTS
    MaxSections,    \* bound on the sections written, over all processes
    MaxRecords,     \* bound on the length of the file
    MaxCrashes      \* bound on the processes that end without closing

ASSUME CacheFileAssumption ==
    MaxSections \in Nat /\ MaxRecords \in Nat /\ MaxCrashes \in Nat

VARIABLES
    exists,     \* there is a file at `location'
    recs,       \* the records written so far, the header first
    tail,       \* what stands after them: nothing or a torn record
    landed,     \* how many records are known to have reached the file
    inst,       \* the instance: "new", "ready", "failed" or "gone"
    meta,       \* this.metadata is set
    sections,   \* this.sections
    lock,       \* the AsyncLock of the instance
    writer,     \* this._writer is set
    bad,        \* this.badSections: positions
    op,         \* the call that is awaited
    written,    \* sections written so far: the identity of the last one
    crashes     \* processes that ended without closing

fileVars == <<exists, recs, tail, landed>>
instVars == <<inst, meta, sections, lock, writer, bad, op>>
vars == <<fileVars, instVars, written, crashes>>

None == "none"
Header == [kind |-> "header"]
Section(id) == [kind |-> "section", id |-> id]
Erase(at) == [kind |-> "erase", at |-> at]
Part(at, id) == [at |-> at, id |-> id]

Ids(parts) == {parts[i].id : i \in DOMAIN parts}

Calls == {None, "creating", "writing", "committing", "erasing", "closing"}

TypeOK ==
    /\ exists \in BOOLEAN
    /\ tail \in {None, "head", "data"}
    /\ landed \in 0..Len(recs)
    /\ inst \in {"new", "ready", "failed", "gone"}
    /\ meta \in BOOLEAN
    /\ lock \in {None, "write", "emit"}
    /\ writer \in BOOLEAN
    /\ op \in [call : Calls, emit : BOOLEAN]
    /\ written \in 0..MaxSections
    /\ crashes \in 0..MaxCrashes

Idle == [call |-> None, emit |-> FALSE]

FreshInstance ==
    /\ inst = "new"
    /\ meta = FALSE
    /\ sections = <<>>
    /\ lock = None
    /\ writer = FALSE
    /\ bad = <<>>
    /\ op = Idle

Init ==
    /\ exists = FALSE
    /\ recs = <<>>
    /\ tail = None
    /\ landed = 0
    /\ FreshInstance
    /\ written = 0
    /\ crashes = 0

Append1(record) == recs' = Append(recs, record)

-----------------------------------------------------------------------------
(* openRead() *)

\* Mutant: an erasure removes every section at or after its position.
AliveGreedy(rs) ==
    {i \in DOMAIN rs :
        /\ rs[i].kind = "section"
        /\ \A j \in DOMAIN rs : rs[j].kind = "erase" => rs[j].at > i}

\* Mutant: erasures are not looked at.
AliveAll(rs) == {i \in DOMAIN rs : rs[i].kind = "section"}

\* Where the sections are that no later record erases.
Alive(rs) ==
    {i \in DOMAIN rs :
        /\ rs[i].kind = "section"
        /\ \A j \in DOMAIN rs : j > i /\ rs[j].kind = "erase" => rs[j].at # i}

InOrder(positions) ==
    [k \in 1..Cardinality(positions) |->
        CHOOSE p \in positions : Cardinality({q \in positions : q < p}) = k - 1]

\* this.sections as the records are read one by one.
Parse(rs) ==
    LET alive == InOrder(Alive(rs))
    IN  [k \in DOMAIN alive |-> Part(alive[k], rs[alive[k]].id)]

\* Nothing to read: no file, or one of size 0.
NothingThere == ~exists \/ (recs = <<>> /\ tail = None)

OpenNothing ==
    /\ NothingThere
    /\ inst' = "ready"
    /\ UNCHANGED <<meta, sections, tail>>

\* FileStructureError: the header is not whole.
OpenBroken ==
    /\ exists /\ recs = <<>> /\ tail # None
    /\ inst' = "failed"
    /\ UNCHANGED <<meta, sections, tail>>

\* Mutant: a torn record is reported but not cut off.
OpenSectionsUncut ==
    /\ recs # <<>>
    /\ meta' = TRUE
    /\ sections' = sections \o Parse(recs)
    /\ inst' = IF tail = None THEN "ready" ELSE "failed"
    /\ UNCHANGED tail

\* The records are read one by one.  A torn section whose head is whole is in
\* the list when isEOF() finds that the file ends too early: FileDataError, and
\* the file is truncated where the torn record began.
OpenSections ==
    /\ recs # <<>>
    /\ meta' = TRUE
    /\ sections' = sections \o Parse(recs)
            \o (IF tail = "data" THEN <<Part(Len(recs) + 1, 0)>> ELSE <<>>)
    /\ inst' = IF tail = None THEN "ready" ELSE "failed"
    /\ tail' = None

OpenRead ==
    /\ inst = "new"
    /\ lock = None
    /\ OpenNothing \/ OpenBroken \/ OpenSections
    /\ UNCHANGED <<exists, recs, landed, lock, writer, bad, op, written, crashes>>

-----------------------------------------------------------------------------
(* The writer. *)

\* prepareCreate(): `open' with 'ax'; an empty file is in its way as well.
PrepareCreate ==
    /\ lock = None /\ op.call = None
    /\ \/ /\ exists                 \* EEXIST, and the lock is given back
          /\ inst' = "failed"
          /\ UNCHANGED <<exists, recs, landed, lock, bad, op>>
       \/ /\ ~exists
          /\ exists' = TRUE
          /\ recs' = <<>> /\ landed' = 0
          /\ lock' = "write"
          /\ bad' = <<>>
          /\ op' = [Idle EXCEPT !.call = "creating"]
          /\ UNCHANGED inst
    /\ UNCHANGED <<tail, meta, sections, writer, written, crashes>>

\* ... the header is written.
CreateEnd ==
    /\ op.call = "creating"
    /\ Append1(Header)
    /\ meta' = TRUE
    /\ writer' = TRUE
    /\ op' = Idle
    /\ UNCHANGED <<exists, tail, landed, inst, sections, lock, bad, written, crashes>>

\* prepareAppend(): an empty file is removed, and reported as missing.
PrepareAppend ==
    /\ lock = None /\ op.call = None
    /\ \/ /\ NothingThere
          /\ exists' = FALSE
          /\ UNCHANGED <<lock, writer>>
       \/ /\ ~NothingThere
          /\ lock' = "write"
          /\ writer' = TRUE
          /\ UNCHANGED exists
    /\ UNCHANGED <<recs, tail, landed, inst, meta, sections, bad, op, written, crashes>>

\* writePart(): the record is handed to the stream piece by piece ...
WritePart ==
    /\ lock = "write" /\ writer /\ op.call = None
    /\ written < MaxSections /\ Len(recs) < MaxRecords
    /\ Append1(Section(written + 1))
    /\ written' = written + 1
    /\ op' = [Idle EXCEPT !.call = "writing"]
    /\ UNCHANGED <<exists, tail, landed, inst, meta, sections, lock, writer, bad, crashes>>

\* Mutant: the position is read after the data was written.
WriteEndLate ==
    /\ op.call = "writing"
    /\ sections' = Append(sections, Part(Len(recs) + 1, Last(recs).id))
    /\ op' = Idle
    /\ UNCHANGED <<fileVars, inst, meta, lock, writer, bad, written, crashes>>

\* ... and only then is the section known.
WriteEnd ==
    /\ op.call = "writing"
    /\ sections' = Append(sections, Part(Len(recs), Last(recs).id))
    /\ op' = Idle
    /\ UNCHANGED <<fileVars, inst, meta, lock, writer, bad, written, crashes>>

\* markBad() forgets the section at once; the file learns of it later.
MarkBad(i) ==
    /\ op.call = None
    /\ i \in DOMAIN sections
    /\ sections' = RemoveAt(sections, i)
    /\ bad' = Append(bad, sections[i].at)
    /\ UNCHANGED <<fileVars, inst, meta, lock, writer, op, written, crashes>>

\* closeWriter(), and the beginning of startEmitting(): bad sections first.
CloseWriter(emit) ==
    /\ writer /\ op.call = None
    /\ op' = [call |-> IF bad = <<>> THEN "closing" ELSE "erasing", emit |-> emit]
    /\ UNCHANGED <<fileVars, inst, meta, sections, lock, writer, bad, written, crashes>>

\* commitBadBlock(), which closeWriter() and others call: where no writer is open,
\* it opens one for itself, and closes it.
CommitBadBlock ==
    /\ bad # <<>> /\ op.call = None
    /\ \/ /\ writer /\ lock = "write"
          /\ op' = [Idle EXCEPT !.call = "committing"]
          /\ UNCHANGED <<lock, writer>>
       \/ /\ ~writer /\ lock = None /\ ~NothingThere
          /\ op' = [Idle EXCEPT !.call = "erasing"]
          /\ lock' = "write" /\ writer' = TRUE
    /\ UNCHANGED <<fileVars, inst, meta, sections, bad, written, crashes>>

\* Its loop: an erasure for every bad section, and the end of the writer for who
\* waits for that.
EraseNext ==
    /\ op.call \in {"committing", "erasing"} /\ Len(recs) < MaxRecords
    /\ Append1(Erase(Head(bad)))
    /\ bad' = Tail(bad)
    /\ op' = IF bad' # <<>> THEN op
             ELSE IF op.call = "erasing" THEN [op EXCEPT !.call = "closing"] ELSE Idle
    /\ UNCHANGED <<exists, tail, landed, inst, meta, sections, lock, writer, written, crashes>>

\* The stream has ended: everything is in the file, and the lock is released;
\* startEmitting() takes it again for the reader.
CloseEnd ==
    /\ op.call = "closing"
    /\ landed' = Len(recs)
    /\ writer' = FALSE
    /\ lock' = IF op.emit THEN "emit" ELSE None
    /\ op' = Idle
    /\ UNCHANGED <<exists, recs, tail, inst, meta, sections, bad, written, crashes>>

\* startEmitting() while no writer is open.
StartEmitting ==
    /\ ~writer /\ lock = None /\ op.call = None /\ ~NothingThere
    /\ lock' = "emit"
    /\ UNCHANGED <<fileVars, inst, meta, sections, writer, bad, op, written, crashes>>

\* The reader is disposed.
StopEmitting ==
    /\ lock = "emit" /\ op.call = None
    /\ lock' = None
    /\ UNCHANGED <<fileVars, inst, meta, sections, writer, bad, op, written, crashes>>

\* destroy(): the streams are disposed, the file is removed.
Destroy ==
    /\ op.call = None /\ exists
    /\ inst' = "gone"
    /\ exists' = FALSE /\ recs' = <<>> /\ landed' = 0 /\ tail' = None
    /\ lock' = None /\ writer' = FALSE
    /\ UNCHANGED <<meta, sections, bad, op, written, crashes>>

-----------------------------------------------------------------------------
(* The process. *)

\* What a process that ends at any point leaves of the records it wrote.
Survives(k, torn) ==
    /\ recs' = SubSeq(recs, 1, k)
    /\ landed' = k
    /\ tail' = torn

TornEnds(k) ==
    IF k = Len(recs) THEN {tail}
    ELSE {None, "head"} \union (IF recs[k + 1].kind = "section" THEN {"data"} ELSE {})

\* The header of a file that is being created may be torn before CreateEnd.
TornHeader == IF op.call = "creating" THEN {None, "head"} ELSE {}

Restarted ==
    /\ inst' = "new" /\ meta' = FALSE /\ sections' = <<>>
    /\ lock' = None /\ writer' = FALSE /\ bad' = <<>> /\ op' = Idle

Crash ==
    /\ crashes < MaxCrashes
    /\ crashes' = crashes + 1
    /\ \E k \in landed..Len(recs) : \E torn \in TornEnds(k) \union TornHeader :
           Survives(k, torn)
    /\ Restarted
    /\ UNCHANGED <<exists, written>>

\* The owner drops an instance that failed, or closes one, and makes another.
Renew ==
    /\ op.call = None /\ ~writer /\ lock = None
    /\ inst \in {"ready", "failed", "gone"}
    /\ Restarted
    /\ UNCHANGED <<fileVars, written, crashes>>
=============================================================================
