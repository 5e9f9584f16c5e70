----------------------------- MODULE SectionBuffer -----------------------------
(***************************************************************************)
(* @idlebox/section-buffer, index.ts: a download is received in ranges,    *)
(* kept in memory, flushed to the cache file by a queue of triggers, and   *)
(* copied to its final place once it is complete.  The module composes the *)
(* list of ranges (MemoryList), the cache file (CacheFile), the queue      *)
(* (LossyAsyncQueue) and the AsyncLock that keeps triggers apart, over     *)
(* processes that may end at any point.                                    *)
(*                                                                         *)
(* A step is what runs between two awaits; what a step of one part calls   *)
(* in another one belongs to it.  The owner gets an instance from          *)
(* createSectionBuffer(), that is after start() has resolved.              *)
(***************************************************************************)
EXTENDS MemoryList

CONSTANTS
    SyncSize,       \* options.syncSize
    Execs, NoExec,  \* coroutines of the queue, and `undefined'
    MaxSections, MaxRecords, MaxCrashes,    \* bounds of CacheFile
    MaxRot          \* bound on the sections the disk damages

ASSUME BufferAssumption ==
    /\ MaxSize > 0
    /\ SyncSize \in Nat
    /\ NoExec \notin Execs \union {"dataRecv", "timer", "manual"}
    /\ Execs \intersect {"none", "sync", "start"} = {}
    /\ MaxSections \in Nat /\ MaxRecords \in Nat /\ MaxCrashes \in Nat
    /\ MaxRot \in Nat

VARIABLES
    \* the cache file
    exists, recs, tail, landed,
    inst, meta, sections, fileLock, writer, bad, op, written, crashes,
    \* the queue
    state, task, promise, pc, arg, queueLock, busy, disposing,
    \* what is on the disk besides
    data,       \* the range of every section ever written, by its identity
    rotten,     \* sections whose bytes have changed on the disk
    temp,       \* the final file in the making, or NoFile
    target,     \* the final file, or NoFile
    \* the instance
    life,       \* progress of start() and dispose()
    list,       \* this.mem
    timer,      \* this._timer is set
    manual,     \* this._isManual
    complete,   \* this._complete
    trig,       \* the trigger that holds the lock `sync', or start()'s rebuild
    copied,     \* parts the rebuild has looked at
    hasError,   \* ... and found one of them bad
    sync,       \* the owner's sync() or dispose()
    \* histories
    owed,       \* bytes in memory when sync() was called, and not damaged since
    refused,    \* bytes taken out of memory for a write that was refused
    loose       \* bytes taken out of memory into `temp' only

None == "none"
NoFile == <<>>

F == INSTANCE CacheFile WITH lock <- fileLock

Q == INSTANCE LossyAsyncQueue WITH
    Tasks <- {"dataRecv", "timer", "manual"},
    Falsy <- {"manual"},
    None <- NoExec,
    Lockable <- TRUE,
    lock <- queueLock

fileVars == <<exists, recs, tail, landed, inst, meta, sections, fileLock, writer,
              bad, op, written, crashes>>
queueVars == <<state, task, promise, pc, arg, queueLock, busy, disposing>>
diskVars == <<data, rotten, temp, target>>
bufVars == <<life, list, timer, manual, complete>>
trigVars == <<trig, copied, hasError>>
histVars == <<owed, refused, loose>>
vars == <<fileVars, queueVars, diskVars, bufVars, trigVars, sync, histVars>>

Bytes == 0..(MaxSize - 1)
Span(range) == range.start .. (range.end - 1)
InMemory(l) == UNION {Span(l[i]) : i \in {i \in DOMAIN l : l[i].memory}}
Filed(l) == UNION {Span(l[i]) : i \in {i \in DOMAIN l : ~l[i].memory}}
Saved(parts) == UNION {Span(data[parts[i].id]) : i \in DOMAIN parts}

NoTrigger == [at |-> None, by |-> None]
Holds(by) == trig.by = by

TypeOK ==
    /\ F!TypeOK
    /\ Q!TypeOK
    /\ rotten \subseteq 1..written
    /\ life \in {"new", "opened", "creating", "up", "failed", "disposing", "disposed"}
    /\ timer \in BOOLEAN /\ manual \in BOOLEAN /\ complete \in BOOLEAN
    /\ hasError \in BOOLEAN
    /\ trig \in [at : {None, "flush", "write", "open", "close", "fill", "copy", "destroy"},
                 by : Execs \union {None, "sync", "start"}]
    /\ sync \in [at : {None, "queue", "trigger", "done", "failed"}, dispose : BOOLEAN]
    /\ owed \subseteq Bytes /\ refused \subseteq Bytes /\ loose \subseteq Bytes

FreshBuffer ==
    /\ life = "new"
    /\ list = <<>>
    /\ timer = FALSE /\ manual = FALSE /\ complete = FALSE
    /\ trig = NoTrigger /\ copied = 0 /\ hasError = FALSE
    /\ sync = [at |-> None, dispose |-> FALSE]
    /\ owed = {} /\ refused = {} /\ loose = {}

Init ==
    /\ F!Init
    /\ Q!Init
    /\ data = <<>> /\ rotten = {} /\ temp = NoFile /\ target = NoFile
    /\ FreshBuffer

Rebuilding == trig.at \in {"open", "close", "fill", "copy", "destroy"}

-----------------------------------------------------------------------------
(* start() *)

StartOpen ==
    /\ life = "new"
    /\ F!OpenRead
    /\ life' = IF inst' = "ready" THEN "opened" ELSE "failed"
    /\ UNCHANGED <<queueVars, diskVars, list, timer, manual, complete, trigVars, sync, histVars>>

StartCreate ==
    /\ life = "opened" /\ ~meta
    /\ F!PrepareCreate
    /\ life' = IF inst' = "failed" THEN "failed" ELSE "creating"
    /\ UNCHANGED <<queueVars, diskVars, list, timer, manual, complete, trigVars, sync, histVars>>

StartCreated ==
    /\ life = "creating"
    /\ F!CreateEnd
    /\ life' = "up" /\ timer' = TRUE
    /\ UNCHANGED <<queueVars, diskVars, list, manual, complete, trigVars, sync, histVars>>

\* The parts of the file, pushed one after the other.
Loaded(parts) ==
    LET upTo[n \in 0..Len(parts)] ==
            IF n = 0 THEN <<>>
            ELSE LET range == data[parts[n].id]
                 IN  PushList(upTo[n - 1], range.start, range.end, FALSE)
    IN  upTo[Len(parts)]

\* A complete cache is built at once, and no timer is set.
StartAppend ==
    /\ life = "opened" /\ meta
    /\ F!PrepareAppend
    /\ list' = Loaded(sections)
    /\ life' = "up"
    /\ IF IsFullfilled(list')
       THEN trig' = [at |-> "open", by |-> "start"] /\ UNCHANGED timer
       ELSE timer' = TRUE /\ UNCHANGED trig
    /\ UNCHANGED <<queueVars, diskVars, manual, complete, copied, hasError, sync, histVars>>

\* start() awaits the rebuild it began.
Started == life = "up" /\ ~Holds("start")

-----------------------------------------------------------------------------
(* The owner's calls and the timer. *)

\* push(): refused while the final file is built, and once that is done.  The
\* guard on MaxSections leaves room for every range in memory.
Push(from, to) ==
    /\ Started /\ ~complete /\ ~Rebuilding
    /\ written + Cardinality({i \in DOMAIN list : list[i].memory}) < MaxSections
    /\ Accepts(list, from, to)
    /\ list' = PushList(list, from, to, TRUE)
    /\ IF manual THEN UNCHANGED queueVars ELSE Q!PushQueue("dataRecv")
    /\ UNCHANGED <<fileVars, diskVars, life, timer, manual, complete, trigVars, sync, histVars>>

Timer ==
    /\ timer /\ ~manual
    /\ Q!PushQueue("timer")
    /\ UNCHANGED <<fileVars, diskVars, bufVars, trigVars, sync, histVars>>

ForceSync ==
    /\ Started
    /\ manual' = TRUE
    /\ Q!PushQueue("manual")
    /\ UNCHANGED <<fileVars, diskVars, life, list, timer, complete, trigVars, sync, histVars>>

\* sync(), alone or as the beginning of dispose(): the queue is locked.
Sync(dispose) ==
    /\ Started /\ sync.at \in {None, "done", "failed"}
    /\ IF complete
       THEN sync' = [at |-> "done", dispose |-> dispose] /\ UNCHANGED <<queueVars, owed>>
       ELSE /\ Q!Lock
            /\ sync' = [at |-> "queue", dispose |-> dispose]
            /\ owed' = InMemory(list)
    /\ UNCHANGED <<fileVars, diskVars, bufVars, trigVars, refused, loose>>

-----------------------------------------------------------------------------
(* trigger(): how it goes on, for a caller `by'. *)

\* Mutant: `await' is missing before writePart().
FlushNextUnawaited(by) ==
    IF FirstInMemory(list) = 0
    THEN /\ trig' = NoTrigger
         /\ UNCHANGED <<fileVars, data, list, refused>>
    ELSE /\ fileLock = "write"
         /\ list' = ShiftList(list)
         /\ F!WritePart
         /\ data' = Append(data, list[FirstInMemory(list)])
         /\ trig' = [at |-> "flush", by |-> by]
         /\ UNCHANGED refused

\* shift() has marked the range as written before writePart() is called, which
\* throws if the file is not open for writing.
FlushNext(by) ==
    IF FirstInMemory(list) = 0
    THEN /\ trig' = NoTrigger
         /\ UNCHANGED <<fileVars, data, list, refused>>
    ELSE /\ list' = ShiftList(list)
         /\ LET item == list[FirstInMemory(list)]
            IN  IF fileLock = "write"
                THEN /\ F!WritePart
                     /\ data' = Append(data, item)
                     /\ trig' = [at |-> "write", by |-> by]
                     /\ UNCHANGED refused
                ELSE /\ refused' = refused \union Span(item)
                     /\ trig' = NoTrigger
                     /\ UNCHANGED <<fileVars, data>>

\* Whether trigger(kind) flushes: dataRecv by size, timer by the clock.
Flushes(kind) ==
    CASE kind = "dataRecv" -> {Usage(list).memory >= SyncSize}
      [] kind = "timer" -> BOOLEAN
      [] OTHER -> {TRUE}

\* Mutant: only received data looks whether the file is complete.
TriggerOnData(kind, by) ==
    IF trig # NoTrigger
    THEN UNCHANGED <<fileVars, data, list, manual, trigVars, refused>>
    ELSE /\ manual' = FALSE
         /\ UNCHANGED <<copied, hasError>>
         /\ IF complete
            THEN UNCHANGED <<fileVars, data, list, trig, refused>>
            ELSE IF kind = "dataRecv" /\ IsFullfilled(list)
            THEN /\ trig' = [at |-> "open", by |-> by]
                 /\ UNCHANGED <<fileVars, data, list, refused>>
            ELSE \E flush \in Flushes(kind) :
                    IF flush THEN FlushNext(by)
                    ELSE UNCHANGED <<fileVars, data, list, trig, refused>>

\* trigger(kind) up to its first await.  The lock is weak: while another trigger
\* holds it, this one returns at once.
Trigger(kind, by) ==
    IF trig # NoTrigger
    THEN UNCHANGED <<fileVars, data, list, manual, trigVars, refused>>
    ELSE /\ manual' = FALSE
         /\ UNCHANGED <<copied, hasError>>
         /\ IF complete
            THEN UNCHANGED <<fileVars, data, list, trig, refused>>
            ELSE IF IsFullfilled(list)
            THEN /\ trig' = [at |-> "open", by |-> by]
                 /\ UNCHANGED <<fileVars, data, list, refused>>
            ELSE \E flush \in Flushes(kind) :
                    IF flush THEN FlushNext(by)
                    ELSE UNCHANGED <<fileVars, data, list, trig, refused>>

FlushStep ==
    /\ trig.at = "flush"
    /\ FlushNext(trig.by)
    /\ UNCHANGED <<queueVars, rotten, temp, target, life, timer, manual, complete,
                   copied, hasError, owed, loose>>
    /\ sync' = IF Holds("sync") /\ refused' # refused THEN [sync EXCEPT !.at = "failed"] ELSE sync

FlushWritten ==
    /\ trig.at = "write"
    /\ F!WriteEnd
    /\ trig' = [trig EXCEPT !.at = "flush"]
    /\ UNCHANGED <<queueVars, diskVars, bufVars, copied, hasError, sync, histVars>>

-----------------------------------------------------------------------------
(* The queue calls trigger(). *)

QueueCalls(e) ==
    /\ Q!Immediate(e)
    /\ IF pc'[e] = "calling"
       THEN Trigger(task, e)
       ELSE UNCHANGED <<fileVars, data, list, manual, trigVars, refused>>
    /\ UNCHANGED <<rotten, temp, target, life, timer, complete, sync, owed, loose>>

QueueReturns(e) ==
    /\ ~Holds(e)
    /\ Q!Settle(e)
    /\ UNCHANGED <<fileVars, diskVars, bufVars, trigVars, sync, histVars>>

\* Mutant: sync() does not wait for queue.promise.
SyncTriggersAtOnce ==
    /\ sync.at = "queue"
    /\ Trigger("sync", "sync")
    /\ sync' = [sync EXCEPT !.at = IF refused' # refused THEN "failed" ELSE "trigger"]
    /\ UNCHANGED <<queueVars, rotten, temp, target, life, timer, complete, owed, loose>>

\* sync() goes on when queue.promise is settled: rejected, it rejects as well,
\* and the queue stays locked.
SyncTriggers ==
    /\ sync.at = "queue"
    /\ promise # NoExec => ~Q!Live(promise)
    /\ IF promise # NoExec /\ pc[promise] = "rejected"
       THEN /\ sync' = [sync EXCEPT !.at = "failed"]
            /\ UNCHANGED <<fileVars, data, list, manual, trigVars, refused>>
       ELSE /\ IF complete
               THEN UNCHANGED <<fileVars, data, list, manual, trigVars, refused>>
               ELSE Trigger("sync", "sync")
            /\ sync' = [sync EXCEPT !.at =
                            IF refused' # refused THEN "failed" ELSE "trigger"]
    /\ UNCHANGED <<queueVars, rotten, temp, target, life, timer, complete, owed, loose>>

SyncEnd ==
    /\ sync.at = "trigger" /\ ~Holds("sync")
    /\ sync' = [sync EXCEPT !.at = "done"]
    /\ Q!Unlock
    /\ owed' = {}
    /\ UNCHANGED <<fileVars, diskVars, bufVars, trigVars, refused, loose>>

-----------------------------------------------------------------------------
(* __rebuildFinalFile() *)

Blank == [b \in Bytes |-> "zero"]

Overwrite(file, bytes, value) == [b \in Bytes |-> IF b \in bytes THEN value ELSE file[b]]

\* makeEmptyFile() keeps a file of the right size; then the writer is closed.
RebuildOpen ==
    /\ trig.at = "open"
    /\ temp' = IF temp = NoFile THEN Blank ELSE temp
    /\ IF writer
       THEN F!CloseWriter(TRUE) /\ trig' = [trig EXCEPT !.at = "close"]
       ELSE F!StartEmitting /\ trig' = [trig EXCEPT !.at = "fill"]
    /\ copied' = 0 /\ hasError' = FALSE
    /\ UNCHANGED <<queueVars, data, rotten, target, bufVars, sync, histVars>>

RebuildClosed ==
    /\ trig.at = "close"
    /\ F!CloseEnd
    /\ trig' = [trig EXCEPT !.at = "fill"]
    /\ UNCHANGED <<queueVars, diskVars, bufVars, copied, hasError, sync, histVars>>

\* What is still in memory goes to the new file directly.
RebuildFill ==
    /\ trig.at = "fill"
    /\ IF FirstInMemory(list) = 0
       THEN /\ trig' = [trig EXCEPT !.at = "copy"]
            /\ UNCHANGED <<temp, list, loose>>
       ELSE LET item == list[FirstInMemory(list)]
            IN  /\ list' = ShiftList(list)
                /\ temp' = Overwrite(temp, Span(item), "good")
                /\ loose' = loose \union Span(item)
                /\ UNCHANGED trig
    /\ UNCHANGED <<fileVars, queueVars, data, rotten, target, life, timer, manual, complete,
                   copied, hasError, sync, owed, refused>>

\* The disk may have damaged a section since it was written; that is decided
\* when the section is read.
Damaged(id) ==
    \/ UNCHANGED rotten
    \/ /\ Cardinality(rotten) < MaxRot
       /\ rotten' = rotten \union {id}

\* Mutant: a bad part does not end the rebuild.
RebuildCopyOn ==
    /\ trig.at = "copy" /\ copied < Len(sections)
    /\ LET part == sections[copied + 1]
           range == data[part.id]
       IN  /\ Damaged(part.id)
           /\ IF part.id \in rotten'
              THEN /\ temp' = Overwrite(temp, Span(range), "wrong")
                   /\ F!MarkBad(copied + 1)
                   /\ list' = PunchList(list, range.start, range.end)
                   /\ owed' = owed \ Span(range)
                   /\ UNCHANGED hasError
              ELSE /\ temp' = Overwrite(temp, Span(range), "good")
                   /\ UNCHANGED <<fileVars, list, hasError, owed>>
    /\ copied' = copied + 1
    /\ UNCHANGED <<queueVars, data, target, life, timer, manual, complete, trig,
                   sync, refused, loose>>

\* Mutant: the range of a bad part is not missing again.
RebuildCopyNoHole ==
    /\ trig.at = "copy" /\ copied < Len(sections)
    /\ LET part == sections[copied + 1]
           range == data[part.id]
       IN  /\ Damaged(part.id)
           /\ IF part.id \in rotten'
              THEN /\ temp' = Overwrite(temp, Span(range), "wrong")
                   /\ F!MarkBad(copied + 1)
                   /\ UNCHANGED <<list, owed>>
                   /\ hasError' = TRUE
              ELSE /\ temp' = Overwrite(temp, Span(range), "good")
                   /\ UNCHANGED <<fileVars, list, hasError, owed>>
    /\ copied' = copied + 1
    /\ UNCHANGED <<queueVars, data, target, life, timer, manual, complete, trig,
                   sync, refused, loose>>

\* The next part of the cache file.  A bad one is taken out of the array that is
\* iterated, so the one behind it is passed over.
RebuildCopy ==
    /\ trig.at = "copy" /\ copied < Len(sections)
    /\ LET part == sections[copied + 1]
           range == data[part.id]
       IN  /\ Damaged(part.id)
           /\ IF part.id \in rotten'
              THEN /\ temp' = Overwrite(temp, Span(range), "wrong")
                   /\ F!MarkBad(copied + 1)
                   /\ list' = PunchList(list, range.start, range.end)
                   /\ owed' = owed \ Span(range)
                   /\ hasError' = TRUE
              ELSE /\ temp' = Overwrite(temp, Span(range), "good")
                   /\ UNCHANGED <<fileVars, list, hasError, owed>>
    /\ copied' = copied + 1
    /\ UNCHANGED <<queueVars, data, target, life, timer, manual, complete, trig,
                   sync, refused, loose>>

\* A bad part ends the rebuild: the reader is closed, and no writer opened.
RebuildGivesUp ==
    /\ trig.at = "copy" /\ copied >= Len(sections) /\ hasError
    /\ F!StopEmitting
    /\ trig' = NoTrigger
    /\ UNCHANGED <<queueVars, diskVars, bufVars, copied, hasError, sync, histVars>>

RebuildRenames ==
    /\ trig.at = "copy" /\ copied >= Len(sections) /\ ~hasError
    /\ target' = temp /\ temp' = NoFile
    /\ trig' = [trig EXCEPT !.at = "destroy"]
    /\ UNCHANGED <<fileVars, queueVars, data, rotten, bufVars, copied, hasError, sync, histVars>>

RebuildCompletes ==
    /\ trig.at = "destroy"
    /\ F!Destroy
    /\ complete' = TRUE /\ timer' = FALSE
    /\ trig' = NoTrigger
    /\ UNCHANGED <<queueVars, diskVars, life, list, manual, copied, hasError, sync, histVars>>

-----------------------------------------------------------------------------
(* The end of an instance, and of a process. *)

\* dispose() after its sync(): the timer, the queue, then the file.
Dispose ==
    /\ life = "up" /\ sync.at = "done" /\ sync.dispose
    /\ Q!Dispose
    /\ life' = "disposing" /\ timer' = FALSE
    /\ UNCHANGED <<fileVars, diskVars, list, manual, complete, trigVars, sync, histVars>>

\* The stream of the file is ended.
DisposeEnd ==
    /\ life = "disposing"
    /\ Q!DisposeEnd
    /\ life' = "disposed"
    /\ landed' = Len(recs) /\ writer' = FALSE
    /\ UNCHANGED <<exists, recs, tail, inst, meta, sections, fileLock, bad, op, written, crashes>>
    /\ UNCHANGED <<diskVars, list, timer, manual, complete, trigVars, sync, histVars>>

RestartedBuffer ==
    /\ life' = "new" /\ list' = <<>>
    /\ timer' = FALSE /\ manual' = FALSE /\ complete' = FALSE
    /\ trig' = NoTrigger /\ copied' = 0 /\ hasError' = FALSE
    /\ sync' = [at |-> None, dispose |-> FALSE]
    /\ owed' = {} /\ refused' = {} /\ loose' = {}
    /\ state' = "idle" /\ task' = NoExec /\ promise' = NoExec
    /\ pc' = [e \in Execs |-> "free"] /\ arg' = [e \in Execs |-> NoExec]
    /\ queueLock' = FALSE /\ busy' = FALSE /\ disposing' = "no"

Crash ==
    /\ F!Crash
    /\ RestartedBuffer
    /\ data' = data
    /\ UNCHANGED <<rotten, temp, target>>

\* The owner drops an instance whose start() failed, or that is disposed, and
\* makes another one.
Renew ==
    /\ life \in {"failed", "disposed"}
    /\ target = NoFile
    /\ RestartedBuffer
    /\ F!Restarted
    /\ UNCHANGED <<exists, recs, tail, landed, written, crashes, diskVars>>

-----------------------------------------------------------------------------

Start == StartOpen \/ StartCreate \/ StartCreated \/ StartAppend

Rebuild ==
    \/ RebuildOpen \/ RebuildClosed \/ RebuildFill \/ RebuildCopy
    \/ RebuildGivesUp \/ RebuildRenames \/ RebuildCompletes

Next ==
    \/ Start
    \/ \E from, to \in 0..MaxSize : Push(from, to)
    \/ Timer
    \/ ForceSync
    \/ \E dispose \in BOOLEAN : Sync(dispose)
    \/ \E e \in Execs : QueueCalls(e) \/ QueueReturns(e)
    \/ FlushStep \/ FlushWritten
    \/ SyncTriggers \/ SyncEnd
    \/ Rebuild
    \/ Dispose \/ DisposeEnd
    \/ Crash \/ Renew

\* What was awaited is resumed, and the timer goes on.
Fairness ==
    /\ WF_vars(Start) /\ WF_vars(Rebuild)
    /\ WF_vars(FlushStep) /\ WF_vars(FlushWritten)
    /\ WF_vars(SyncTriggers) /\ WF_vars(SyncEnd)
    /\ WF_vars(Dispose) /\ WF_vars(DisposeEnd)
    /\ \A e \in Execs : WF_vars(QueueCalls(e)) /\ WF_vars(QueueReturns(e))
    /\ WF_vars(Timer)

Spec == Init /\ [][Next]_vars /\ Fairness

-----------------------------------------------------------------------------
(* Properties. *)

\* "file shoud be same": the final file holds the bytes that were received.
FinalIsRight == target # NoFile => \A b \in Bytes : target[b] = "good"

\* However the process was interrupted, flushed and restarted, a byte of the
\* final file is wrong only if its write was refused after it had been taken out
\* of memory.
WrongOnlyIfRefused ==
    [][target' # target => \A b \in Bytes : target'[b] = "good" \/ b \in refused]_vars

\* What the list calls written is in the cache file, on its way there, in the
\* unfinished final file, or was refused: no byte is forgotten silently.
FiledIsKept ==
    ~complete /\ life = "up" =>
        Filed(list) \subseteq Saved(sections) \union refused \union loose
            \union (IF trig.at = "write" THEN Span(data[written]) ELSE {})

\* sync() does not resolve while a byte that was in memory when it was called
\* is there still.
SyncFlushes ==
    [][sync.at # "done" /\ sync'.at = "done" => owed \intersect InMemory(list) = {}]_vars

\* No call of the cache file meets a lock that is held or another call that is
\* awaited: AsyncLock throws only for the flush that finds no writer, after a bad
\* part.
CallsFindTheFile ==
    /\ life = "opened" => fileLock = None /\ op.call = None /\ (meta => ~F!NothingThere)
    /\ life = "up" /\ fileLock = "write" /\ trig.at \in {None, "flush"} =>
           writer /\ op.call = None
    /\ trig.at = "write" => op.call = "writing"
    /\ trig.at = "open" =>
           op.call = None /\ (fileLock # None => writer) /\ ~F!NothingThere
    /\ trig.at = "close" => op.call = "closing"
    /\ trig.at \in {"fill", "copy"} => op.call = None /\ fileLock = "emit"
    /\ trig.at = "destroy" => op.call = None /\ exists

\* As long as the owner awaits its sync(), nobody who calls trigger() finds its
\* lock held, so that nobody's call is skipped.
TriggersNeverMeet ==
    /\ \A e \in Execs : pc[e] = "immediate" => trig = NoTrigger
    /\ sync.at = "queue" /\ (promise # NoExec => ~Q!Live(promise)) => trig = NoTrigger

\* When dispose() has ended nothing is called any more, and everything that was
\* written has reached the file.
QuietAfterDispose ==
    life = "disposed" =>
        trig = NoTrigger /\ (\A e \in Execs : ~Q!Live(e)) /\ landed = Len(recs)

\* What FullCompletes does not promise: the queue has failed the assertion of
\* _execute and runs nothing any more, as after forceSync(), or a sync() that
\* rejected left it locked, or a forceSync() keeps the timer and the pushes away.
QueueStalled ==
    \/ \E e \in Execs : pc[e] = "rejected"
    \/ queueLock /\ sync.at = "failed"
    \/ manual

\* Once every byte has arrived and somebody is to look, that is the timer or a
\* push that got through to the queue, the final file is built, or a bad part is
\* found, or the queue is stalled, or the instance ends.  An instance that was
\* started on a full cache with a bad part has no timer, and a push that fills the
\* hole while sync() holds the queue is looked at by nobody.
FullCompletes ==
    (Started /\ IsFullfilled(list) /\ (timer \/ \E e \in Execs : Q!Live(e)))
        ~> (complete \/ life # "up" \/ QueueStalled \/ ~IsFullfilled(list))
=============================================================================
