---------------------------- MODULE LastTaskQueue ----------------------------
(***************************************************************************)
(* What @idlebox/section-buffer's LossyAsyncQueue promises its owner: a    *)
(* one-place mailbox in front of one worker.  A newer task replaces an     *)
(* older one that has not started ("lossy"), a task that was accepted is   *)
(* started or replaced, one task runs at a time, and once the queue is     *)
(* closed nothing starts any more.                                         *)
(***************************************************************************)
CONSTANTS
    Tasks,      \* the values the owner pushes
    None        \* no task

VARIABLES
    waiting,    \* the accepted task that has not started, or None
    current,    \* the task that runs, or None
    closed      \* dispose() was called

vars == <<waiting, current, closed>>

TypeOK ==
    /\ waiting \in Tasks \union {None}
    /\ current \in Tasks \union {None}
    /\ closed \in BOOLEAN

Init ==
    /\ waiting = None
    /\ current = None
    /\ closed = FALSE

\* The owner hands in a task: the last one wins.
Accept(t) ==
    /\ ~closed
    /\ waiting' = t
    /\ UNCHANGED <<current, closed>>

\* The waiting task starts; nothing else is running.
Start ==
    /\ ~closed
    /\ waiting # None
    /\ current = None
    /\ current' = waiting
    /\ waiting' = None
    /\ UNCHANGED closed

\* The running task ends, well or badly.
Finish ==
    /\ current # None
    /\ current' = None
    /\ UNCHANGED <<waiting, closed>>

Close ==
    /\ ~closed
    /\ closed' = TRUE
    /\ UNCHANGED <<waiting, current>>

Next ==
    \/ \E t \in Tasks : Accept(t)
    \/ Start
    \/ Finish
    \/ Close

Spec == Init /\ [][Next]_vars /\ WF_vars(Start) /\ WF_vars(Finish)
=============================================================================
