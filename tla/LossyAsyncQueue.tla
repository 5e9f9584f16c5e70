--------------------------- MODULE LossyAsyncQueue ---------------------------
(***************************************************************************)
(* @idlebox/section-buffer, common/AsyncQueue.ts: the queue that runs one  *)
(* flush of the download cache at a time and keeps only the last task      *)
(* pushed meanwhile.  It is a SimpleStateMachine (@idlebox/common) whose   *)
(* listener starts `_execute' coroutines; a coroutine waits for a          *)
(* setImmediate, takes the task, calls back and reports `taskDone'.        *)
(*                                                                         *)
(* The steps are the synchronous stretches of the code: a call of          *)
(* pushQueue, lock or dispose, and the two resumptions of `_execute'.      *)
(***************************************************************************)
CONSTANTS
    Tasks,      \* the values the owner pushes
    Falsy,      \* those of them JavaScript tests as false (0 in an enum)
    None,       \* `undefined'
    Execs,      \* identities of the promises `_execute' returns
    Lockable    \* whether the owner ever calls lock()

ASSUME QueueAssumption ==
    /\ Falsy \subseteq Tasks
    /\ None \notin Tasks
    /\ None \notin Execs
    /\ Lockable \in BOOLEAN

VARIABLES
    state,      \* currentState of the state machine
    task,       \* this.task
    promise,    \* this._promise: the coroutine it belongs to, or None
    pc,         \* where each coroutine stands
    arg,        \* the task a coroutine called back with
    lock,       \* this._lock
    busy,       \* the last value fired by onBusy
    disposing   \* progress of dispose(): "no", "waiting", "done" or "failed"

vars == <<state, task, promise, pc, arg, lock, busy, disposing>>

States == {"idle", "prepareWork", "working", "waitting", "dispose"}

TypeOK ==
    /\ state \in States
    /\ task \in Tasks \union {None}
    /\ promise \in Execs \union {None}
    /\ pc \in [Execs -> {"free", "immediate", "calling", "rejected"}]
    /\ arg \in [Execs -> Tasks \union {None}]
    /\ lock \in BOOLEAN
    /\ busy \in BOOLEAN
    /\ disposing \in {"no", "waiting", "done", "failed"}

Init ==
    /\ state = "idle"
    /\ task = None
    /\ promise = None
    /\ pc = [e \in Execs |-> "free"]
    /\ arg = [e \in Execs |-> None]
    /\ lock = FALSE
    /\ busy = FALSE
    /\ disposing = "no"

-----------------------------------------------------------------------------
(* The state machine. *)

\* The transition table; an event outside the domain makes change() throw.
Rules ==
    [ idle        |-> [recvTask |-> "prepareWork", dispose |-> "dispose",
                       cancel |-> "idle"],
      prepareWork |-> [recvTask |-> "prepareWork", schedule |-> "working",
                       dispose |-> "dispose", cancel |-> "idle"],
      working     |-> [recvTask |-> "waitting", taskDone |-> "idle",
                       dispose |-> "dispose", cancel |-> "working"],
      waitting    |-> [recvTask |-> "waitting", taskDone |-> "prepareWork",
                       dispose |-> "dispose", cancel |-> "working"],
      dispose     |-> [none |-> "dispose"] ]

Allows(event) == event \in DOMAIN Rules[state]

Live(e) == pc[e] \in {"immediate", "calling"}

\* `this._promise = this._execute()': a fresh coroutine up to its first await.
StartExecute(pcs) ==
    \E e \in Execs :
        /\ pcs[e] = "free"
        /\ pc' = [pcs EXCEPT ![e] = "immediate"]
        /\ promise' = e

\* Mutant: "idle" starts a coroutine without looking at _promise.
HandleChangeUnchecked(from, to, pcs) ==
    IF to = "prepareWork" /\ from \in {"idle", "waitting"}
    THEN StartExecute(pcs)
    ELSE /\ pc' = pcs
         /\ promise' = IF from = "working" /\ to = "idle" THEN None ELSE promise

\* handleStateChange.  SimpleStateMachine fires it with fireNoError, so its own
\* `throw new Error(...)' only skips the rest of it.
HandleChange(from, to, pcs) ==
    IF \/ from = "idle" /\ to = "prepareWork" /\ promise = None
       \/ from = "waitting" /\ to = "prepareWork" /\ promise # None
    THEN StartExecute(pcs)
    ELSE /\ pc' = pcs
         /\ promise' = IF from = "working" /\ to = "idle" THEN None ELSE promise

\* The transitions on which handleStateChange forgets the task.
DropsTask(from, to) ==
    <<from, to>> \in {<<"idle", "idle">>, <<"prepareWork", "idle">>,
                      <<"waitting", "working">>}

\* Mutant: nobody fires onBusy(false).
BusyNeverEnds(from, to) ==
    busy \/ (from \in {"working", "waitting"} /\ to = "waitting")

BusyAfter(from, to) ==
    IF from = "working" /\ to = "idle" /\ promise # None THEN FALSE
    ELSE IF from \in {"working", "waitting"} /\ to = "waitting" THEN TRUE
    ELSE busy

\* state.change(event), with this.task and the coroutines as they stand then.
Change(event, tsk, pcs) ==
    LET to == Rules[state][event]
    IN  /\ state' = to
        /\ HandleChange(state, to, pcs)
        /\ task' = IF DropsTask(state, to) THEN None ELSE tsk
        /\ busy' = BusyAfter(state, to)

-----------------------------------------------------------------------------
(* The owner's calls. *)

\* pushQueue(t); while the queue is locked the task is only put down.
PushQueue(t) ==
    /\ disposing = "no"
    /\ IF lock
       THEN task' = t /\ UNCHANGED <<state, promise, pc, busy>>
       ELSE Allows("recvTask") /\ Change("recvTask", t, pc)
    /\ UNCHANGED <<arg, lock, disposing>>

\* lock(true) cancels what has not started; after dispose change() throws, and
\* only the flag is set.
Lock ==
    /\ Lockable
    /\ lock' = TRUE
    /\ IF Allows("cancel")
       THEN Change("cancel", task, pc)
       ELSE UNCHANGED <<state, task, promise, pc, busy>>
    /\ UNCHANGED <<arg, disposing>>

Unlock ==
    /\ lock
    /\ lock' = FALSE
    /\ UNCHANGED <<state, task, promise, pc, arg, busy, disposing>>

\* Mutant: the state machine learns of dispose() only when it is over.
DisposeLate ==
    /\ disposing = "no"
    /\ disposing' = "waiting"
    /\ UNCHANGED <<state, task, promise, pc, arg, lock, busy>>

\* dispose() up to `await this._promise'.
Dispose ==
    /\ disposing = "no"
    /\ disposing' = "waiting"
    /\ Allows("dispose")
    /\ Change("dispose", task, pc)
    /\ UNCHANGED <<arg, lock>>

\* Mutant: dispose() does not await _promise.
DisposeEndAtOnce ==
    /\ disposing = "waiting"
    /\ disposing' = "done"
    /\ UNCHANGED <<state, task, promise, pc, arg, lock, busy>>

\* Mutant: dispose() waits for _promise to be cleared instead of settled.
DisposeEndOnClear ==
    /\ disposing = "waiting"
    /\ promise = None
    /\ disposing' = "done"
    /\ UNCHANGED <<state, task, promise, pc, arg, lock, busy>>

\* The awaited promise is settled; a rejection ends dispose() before the
\* emitters are disposed.
DisposeEnd ==
    /\ disposing = "waiting"
    /\ promise # None => ~Live(promise)
    /\ disposing' = IF promise # None /\ pc[promise] = "rejected"
                    THEN "failed" ELSE "done"
    /\ UNCHANGED <<state, task, promise, pc, arg, lock, busy>>

-----------------------------------------------------------------------------
(* The two resumptions of _execute. *)

Reject(e) ==
    /\ pc' = [pc EXCEPT ![e] = "rejected"]
    /\ UNCHANGED <<state, promise, busy>>

\* Mutant: `await' is missing before the callback.
ImmediateNoAwait(e) ==
    /\ pc[e] = "immediate"
    /\ state = "prepareWork" /\ task # None
    /\ arg' = [arg EXCEPT ![e] = task]
    /\ pc' = [pc EXCEPT ![e] = "calling"]
    /\ state' = "idle" /\ promise' = None /\ task' = None
    /\ UNCHANGED <<busy, lock, disposing>>

\* Mutant: the task is not taken out when its call starts.
ImmediateKeepTask(e) ==
    /\ pc[e] = "immediate"
    /\ \/ /\ state = "dispose"
          /\ pc' = [pc EXCEPT ![e] = "free"]
          /\ UNCHANGED <<state, task, promise, arg, busy>>
       \/ /\ state # "dispose" /\ task # None /\ Allows("schedule")
          /\ arg' = [arg EXCEPT ![e] = task]
          /\ Change("schedule", task, [pc EXCEPT ![e] = "calling"])
    /\ UNCHANGED <<lock, disposing>>

\* After the setImmediate: return if disposed, else take the task and call back.
Immediate(e) ==
    /\ pc[e] = "immediate"
    /\ \/ /\ state = "dispose"
          /\ pc' = [pc EXCEPT ![e] = "free"]
          /\ UNCHANGED <<state, task, promise, arg, busy>>
       \/ /\ state # "dispose"
          /\ task \in Falsy \union {None} \/ ~Allows("schedule")
          /\ Reject(e)
          /\ task' = None
          /\ UNCHANGED arg
       \/ /\ state # "dispose"
          /\ task \notin Falsy \union {None}
          /\ Allows("schedule")
          /\ arg' = [arg EXCEPT ![e] = task]
          /\ Change("schedule", None, [pc EXCEPT ![e] = "calling"])
    /\ UNCHANGED <<lock, disposing>>

\* The callback settles; success and failure both lead to taskDone.
Settle(e) ==
    /\ pc[e] = "calling"
    /\ arg' = [arg EXCEPT ![e] = None]
    /\ \/ /\ state = "dispose"
          /\ pc' = [pc EXCEPT ![e] = "free"]
          /\ UNCHANGED <<state, task, promise, busy>>
       \/ /\ state # "dispose"
          /\ Allows("taskDone")
          /\ Change("taskDone", task, [pc EXCEPT ![e] = "free"])
       \/ /\ state # "dispose"
          /\ ~Allows("taskDone")
          /\ Reject(e)
          /\ UNCHANGED task
    /\ UNCHANGED <<lock, disposing>>

-----------------------------------------------------------------------------

Next ==
    \/ \E t \in Tasks : PushQueue(t)
    \/ Lock
    \/ Unlock
    \/ Dispose
    \/ DisposeEnd
    \/ \E e \in Execs : Immediate(e) \/ Settle(e)

\* setImmediate and settled promises are always resumed; Settle also stands for
\* the owner's callback, assumed to settle in the end.
Fairness ==
    /\ WF_vars(DisposeEnd)
    /\ \A e \in Execs : WF_vars(Immediate(e)) /\ WF_vars(Settle(e))

Spec == Init /\ [][Next]_vars /\ Fairness

-----------------------------------------------------------------------------
(* Properties. *)

\* Two flushes of the cache never overlap, whatever is pushed, cancelled or
\* disposed between the awaits of _execute.
OneCallAtATime ==
    \A e, f \in Execs : pc[e] = "calling" /\ pc[f] = "calling" => e = f

\* `queue.promise' is the coroutine that is alive: sync() and dispose() await
\* it to be sure that no callback runs any more.
PromiseCoversWork == \A e \in Execs : Live(e) => promise = e

\* dispose() resolves only after the callback has returned.
DisposedMeansQuiet == disposing = "done" => \A e \in Execs : ~Live(e)

\* The last onBusy event is not stale: "busy" is taken back once the pushed
\* task has been worked off (a queue that is never locked).
BusyMeansWork == busy /\ state # "dispose" => \E e \in Execs : Live(e)

\* A task pushed before dispose() never starts after it.
NoStartAfterDispose ==
    [][disposing # "no" =>
        \A e \in Execs : pc'[e] = "calling" => pc[e] = "calling"]_vars

\* dispose() returns.
DisposeReturns == disposing = "waiting" ~> disposing = "done"

\* A queue that is never locked implements the mailbox it stands for.
Mailbox == INSTANCE LastTaskQueue WITH
    waiting <- task,
    current <- IF \E e \in Execs : pc[e] = "calling"
               THEN arg[CHOOSE e \in Execs : pc[e] = "calling"] ELSE None,
    closed <- disposing # "no"

ImplementsMailbox == Mailbox!Spec
=============================================================================
