------------------------ MODULE LossyAsyncQueue_proofs ------------------------
(***************************************************************************)
(* Theorems about LossyAsyncQueue, for every set of tasks and coroutines.  *)
(*                                                                         *)
(* The argument is that _promise names the only coroutine that is alive    *)
(* (PromiseCoversWork): a new one is started from "idle" only while        *)
(* _promise is empty, and from "waitting" only by the coroutine that ends. *)
(***************************************************************************)
EXTENDS LossyAsyncQueue, TLAPS

\* A disposed queue stays in the state the table gives no events for.
DisposeState == disposing # "no" => state = "dispose"

IInv ==
    /\ TypeOK
    /\ PromiseCoversWork
    /\ DisposeState
    /\ DisposedMeansQuiet

-----------------------------------------------------------------------------

\* What the transition table allows, event by event.
LEMMA RulesLemma ==
    ASSUME TypeOK
    PROVE  /\ Allows("recvTask") => Rules[state]["recvTask"] \in States \ {"dispose"}
           /\ Allows("schedule") => state = "prepareWork" /\ Rules[state]["schedule"] = "working"
           /\ Allows("cancel") => Rules[state]["cancel"] \in {"idle", "working"}
           /\ Allows("taskDone") =>
                \/ state = "working" /\ Rules[state]["taskDone"] = "idle"
                \/ state = "waitting" /\ Rules[state]["taskDone"] = "prepareWork"
           /\ Allows("dispose") => Rules[state]["dispose"] = "dispose"
           /\ state = "dispose" =>
                \A ev \in {"recvTask", "schedule", "cancel", "taskDone", "dispose"} :
                    ~Allows(ev)
  BY DEF TypeOK, States, Rules, Allows

\* handleStateChange keeps the coroutines well typed, and keeps _promise on the
\* only live one if what it is given does and either the queue was not idle or
\* nothing else is alive.
LEMMA HandleChangeLemma ==
    ASSUME TypeOK,
           NEW from \in States, NEW to \in States,
           NEW pcs \in [Execs -> {"free", "immediate", "calling", "rejected"}],
           HandleChange(from, to, pcs),
           \A x \in Execs : pcs[x] \in {"immediate", "calling"} => promise = x,
           <<from, to>> \in {<<"working", "idle">>, <<"waitting", "prepareWork">>} =>
                \A x \in Execs : pcs[x] \notin {"immediate", "calling"}
    PROVE  /\ pc' \in [Execs -> {"free", "immediate", "calling", "rejected"}]
           /\ promise' \in Execs \union {None}
           /\ PromiseCoversWork'
           /\ \A x \in Execs : pc'[x] = "calling" => pcs[x] = "calling"
           /\ to = "dispose" => pc' = pcs /\ promise' = promise
<1> USE QueueAssumption DEF TypeOK, PromiseCoversWork, Live
<1>1. CASE \/ from = "idle" /\ to = "prepareWork" /\ promise = None
           \/ from = "waitting" /\ to = "prepareWork" /\ promise # None
  <2>1. PICK e \in Execs : /\ pcs[e] = "free"
                           /\ pc' = [pcs EXCEPT ![e] = "immediate"]
                           /\ promise' = e
    BY <1>1 DEF HandleChange, StartExecute
  <2>2. \A x \in Execs : pcs[x] \notin {"immediate", "calling"}
    BY <1>1
  <2> QED BY <1>1, <2>1, <2>2
<1>2. CASE ~(\/ from = "idle" /\ to = "prepareWork" /\ promise = None
             \/ from = "waitting" /\ to = "prepareWork" /\ promise # None)
  <2>1. /\ pc' = pcs
        /\ promise' = IF from = "working" /\ to = "idle" THEN None ELSE promise
    BY <1>2 DEF HandleChange
  <2>2. from = "working" /\ to = "idle" =>
            \A x \in Execs : pcs[x] \notin {"immediate", "calling"}
    OBVIOUS
  <2> QED BY <2>1, <2>2
<1> QED BY <1>1, <1>2

PCs == [Execs -> {"free", "immediate", "calling", "rejected"}]
Events == {"recvTask", "schedule", "taskDone", "dispose", "cancel"}

\* state.change(event) keeps the types and _promise on the live coroutine; only
\* taskDone may be reported, and only once its coroutine has ended, from a state
\* that lets go of _promise.
LEMMA ChangeLemma ==
    ASSUME TypeOK,
           NEW event \in Events, Allows(event),
           NEW tsk \in Tasks \union {None},
           NEW pcs \in PCs,
           Change(event, tsk, pcs),
           \A x \in Execs : pcs[x] \in {"immediate", "calling"} => promise = x,
           event = "taskDone" => \A x \in Execs : pcs[x] \notin {"immediate", "calling"}
    PROVE  /\ state' \in States /\ task' \in Tasks \union {None} /\ busy' \in BOOLEAN
           /\ pc' \in PCs
           /\ promise' \in Execs \union {None}
           /\ PromiseCoversWork'
           /\ \A x \in Execs : pc'[x] = "calling" => pcs[x] = "calling"
           /\ event = "dispose" => state' = "dispose" /\ pc' = pcs
<1> DEFINE to == Rules[state][event]
<1>1. to \in States
  BY RulesLemma DEF Events, States
<1>2. /\ state' = to
      /\ HandleChange(state, to, pcs)
      /\ task' = IF DropsTask(state, to) THEN None ELSE tsk
      /\ busy' = BusyAfter(state, to)
  BY DEF Change
<1>3. <<state, to>> \in {<<"working", "idle">>, <<"waitting", "prepareWork">>} =>
        event = "taskDone"
  BY RulesLemma DEF Events, Rules, Allows, TypeOK, States
<1>4. event = "dispose" => to = "dispose"
  BY RulesLemma
<1>5. state \in States
  BY DEF TypeOK
<1> HIDE DEF to
<1>6. /\ pc' \in PCs
      /\ promise' \in Execs \union {None}
      /\ PromiseCoversWork'
      /\ \A x \in Execs : pc'[x] = "calling" => pcs[x] = "calling"
      /\ to = "dispose" => pc' = pcs /\ promise' = promise
  BY <1>1, <1>2, <1>3, <1>5, HandleChangeLemma DEF PCs
<1>7. task' \in Tasks \union {None} /\ busy' \in BOOLEAN
  BY <1>2 DEF BusyAfter, TypeOK
<1> QED BY <1>1, <1>2, <1>4, <1>6, <1>7

-----------------------------------------------------------------------------

\* The inductive step, one action at a time.
LEMMA IInvStep == IInv /\ [Next]_vars => IInv'
<1> SUFFICES ASSUME IInv, [Next]_vars PROVE IInv'
  OBVIOUS
<1>0. /\ TypeOK /\ DisposeState
      /\ \A x \in Execs : pc[x] \in {"immediate", "calling"} => promise = x
      /\ pc \in PCs
      /\ disposing # "done" \/ \A x \in Execs : pc[x] \notin {"immediate", "calling"}
  BY DEF IInv, PromiseCoversWork, DisposedMeansQuiet, Live, PCs, TypeOK
<1>1. ASSUME NEW t \in Tasks, PushQueue(t) PROVE IInv'
  <2>1. CASE lock
    BY <1>0, <1>1, <2>1 DEF PushQueue, IInv, TypeOK, PromiseCoversWork, Live, DisposeState, DisposedMeansQuiet
  <2>2. CASE ~lock
    <3>1. Allows("recvTask") /\ Change("recvTask", t, pc)
      BY <1>1, <2>2 DEF PushQueue
    <3>2. /\ state' \in States /\ task' \in Tasks \union {None} /\ busy' \in BOOLEAN
          /\ pc' \in PCs /\ promise' \in Execs \union {None} /\ PromiseCoversWork'
      BY <1>0, <3>1, ChangeLemma DEF Events
    <3>3. disposing = "no" /\ UNCHANGED <<arg, lock, disposing>>
      BY <1>1 DEF PushQueue
    <3> QED BY <1>0, <3>2, <3>3 DEF IInv, TypeOK, PCs, DisposeState, DisposedMeansQuiet
  <2> QED BY <2>1, <2>2
<1>2. CASE Lock
  <2>1. CASE ~Allows("cancel")
    BY <1>0, <1>2, <2>1 DEF Lock, IInv, TypeOK, PromiseCoversWork, Live, DisposeState, DisposedMeansQuiet
  <2>2. CASE Allows("cancel")
    <3>1. Change("cancel", task, pc) /\ lock' = TRUE /\ UNCHANGED <<arg, disposing>>
      BY <1>2, <2>2 DEF Lock
    <3>2. /\ state' \in States /\ task' \in Tasks \union {None} /\ busy' \in BOOLEAN
          /\ pc' \in PCs /\ promise' \in Execs \union {None} /\ PromiseCoversWork'
      BY <1>0, <2>2, <3>1, ChangeLemma DEF Events, TypeOK
    <3>3. disposing = "no"
      BY <1>0, <2>2, RulesLemma DEF DisposeState
    <3> QED BY <1>0, <3>1, <3>2, <3>3 DEF IInv, TypeOK, PCs, DisposeState, DisposedMeansQuiet
  <2> QED BY <2>1, <2>2
<1>3. CASE Unlock
  BY <1>0, <1>3 DEF Unlock, IInv, TypeOK, PromiseCoversWork, Live, DisposeState, DisposedMeansQuiet
<1>4. CASE Dispose
  <2>1. /\ Allows("dispose") /\ Change("dispose", task, pc)
        /\ disposing' = "waiting" /\ UNCHANGED <<arg, lock>>
    BY <1>4 DEF Dispose
  <2>2. /\ state' = "dispose" /\ task' \in Tasks \union {None} /\ busy' \in BOOLEAN
        /\ pc' \in PCs /\ promise' \in Execs \union {None} /\ PromiseCoversWork'
    BY <1>0, <2>1, ChangeLemma DEF Events, TypeOK
  <2> QED BY <1>0, <2>1, <2>2 DEF IInv, TypeOK, PCs, States, DisposeState, DisposedMeansQuiet
<1>5. CASE DisposeEnd
  <2>1. \A x \in Execs : ~Live(x)
    BY <1>0, <1>5, QueueAssumption DEF DisposeEnd, Live
  <2> QED BY <1>0, <1>5, <2>1 DEF DisposeEnd, IInv, TypeOK, PromiseCoversWork, Live, DisposeState, DisposedMeansQuiet
<1>6. ASSUME NEW e \in Execs, Immediate(e) PROVE IInv'
  <2>1. CASE state = "dispose"
    BY <1>0, <1>6, <2>1 DEF Immediate, IInv, TypeOK, PromiseCoversWork, Live, DisposeState, DisposedMeansQuiet
  <2>2. CASE state # "dispose" /\ (task \in Falsy \union {None} \/ ~Allows("schedule"))
    BY <1>0, <1>6, <2>2 DEF Immediate, Reject, IInv, TypeOK, PromiseCoversWork, Live, DisposeState, DisposedMeansQuiet
  <2>3. CASE state # "dispose" /\ task \notin Falsy \union {None} /\ Allows("schedule")
    <3> DEFINE pcs == [pc EXCEPT ![e] = "calling"]
    <3>1. /\ Change("schedule", None, pcs) /\ pc[e] = "immediate"
          /\ arg' = [arg EXCEPT ![e] = task] /\ UNCHANGED <<lock, disposing>>
      BY <1>6, <2>3 DEF Immediate
    <3>2. /\ pcs \in PCs
          /\ \A x \in Execs : pcs[x] \in {"immediate", "calling"} => promise = x
      BY <1>0, <3>1 DEF PCs
    <3> HIDE DEF pcs
    <3>3. /\ state' \in States /\ task' \in Tasks \union {None} /\ busy' \in BOOLEAN
          /\ pc' \in PCs /\ promise' \in Execs \union {None} /\ PromiseCoversWork'
      BY <1>0, <2>3, <3>1, <3>2, ChangeLemma DEF Events
    <3> QED BY <1>0, <2>3, <3>1, <3>3 DEF IInv, TypeOK, PCs, DisposeState, DisposedMeansQuiet
  <2> QED BY <2>1, <2>2, <2>3
<1>7. ASSUME NEW e \in Execs, Settle(e) PROVE IInv'
  <2>1. CASE state = "dispose"
    BY <1>0, <1>7, <2>1 DEF Settle, IInv, TypeOK, PromiseCoversWork, Live, DisposeState, DisposedMeansQuiet
  <2>2. CASE state # "dispose" /\ ~Allows("taskDone")
    BY <1>0, <1>7, <2>2 DEF Settle, Reject, IInv, TypeOK, PromiseCoversWork, Live, DisposeState, DisposedMeansQuiet
  <2>3. CASE state # "dispose" /\ Allows("taskDone")
    <3> DEFINE pcs == [pc EXCEPT ![e] = "free"]
    <3>1. /\ Change("taskDone", task, pcs) /\ pc[e] = "calling"
          /\ arg' = [arg EXCEPT ![e] = None] /\ UNCHANGED <<lock, disposing>>
      BY <1>7, <2>3 DEF Settle
    <3>2. /\ pcs \in PCs
          /\ \A x \in Execs : pcs[x] \notin {"immediate", "calling"}
      BY <1>0, <3>1 DEF PCs
    <3> HIDE DEF pcs
    <3>3. /\ state' \in States /\ task' \in Tasks \union {None} /\ busy' \in BOOLEAN
          /\ pc' \in PCs /\ promise' \in Execs \union {None} /\ PromiseCoversWork'
      BY <1>0, <2>3, <3>1, <3>2, ChangeLemma DEF Events, TypeOK
    <3> QED BY <1>0, <2>3, <3>1, <3>3 DEF IInv, TypeOK, PCs, DisposeState, DisposedMeansQuiet
  <2> QED BY <2>1, <2>2, <2>3
<1>8. CASE UNCHANGED vars
  BY <1>0, <1>8 DEF vars, IInv, TypeOK, PromiseCoversWork, Live, DisposeState, DisposedMeansQuiet
<1> QED BY <1>1, <1>2, <1>3, <1>4, <1>5, <1>6, <1>7, <1>8 DEF Next

LEMMA IInvInit == Init => IInv
  BY QueueAssumption DEF Init, IInv, TypeOK, States, PromiseCoversWork, Live, DisposeState, DisposedMeansQuiet

LEMMA IInvHolds == Spec => []IInv
  BY IInvInit, IInvStep, PTL DEF Spec

-----------------------------------------------------------------------------

\* The state of the queue keeps its types (AsyncQueue.ts, every method).
THEOREM TypeCorrect == Spec => []TypeOK
  BY IInvHolds, PTL DEF IInv

\* What sync() and dispose() rely on when they await `queue.promise': it
\* belongs to the only coroutine that is alive.
THEOREM PromiseCovers == Spec => []PromiseCoversWork
  BY IInvHolds, PTL DEF IInv

\* Two callbacks never run at the same time, however pushes, locks and dispose
\* fall between the awaits of _execute.
THEOREM Exclusive == Spec => []OneCallAtATime
<1>1. IInv => OneCallAtATime
  BY DEF IInv, PromiseCoversWork, OneCallAtATime, Live
<1> QED BY <1>1, IInvHolds, PTL

\* When dispose() has returned, no coroutine is alive.
THEOREM Quiet == Spec => []DisposedMeansQuiet
  BY IInvHolds, PTL DEF IInv

\* A task accepted before dispose() does not start after it.
THEOREM NothingStarts == Spec => NoStartAfterDispose
<1>1. IInv /\ [Next]_vars =>
        [disposing # "no" =>
            \A e \in Execs : pc'[e] = "calling" => pc[e] = "calling"]_vars
  <2> SUFFICES ASSUME IInv, Next, disposing # "no",
                      NEW e \in Execs, pc'[e] = "calling"
               PROVE  pc[e] = "calling"
    BY DEF vars
  <2>1. state = "dispose" /\ TypeOK
    BY DEF IInv, DisposeState
  <2>2. ~Allows("cancel")
    BY <2>1, RulesLemma
  <2> QED BY <2>1, <2>2 DEF Next, PushQueue, Lock, Unlock, Dispose, DisposeEnd, Immediate, Settle, TypeOK
<1> QED BY <1>1, IInvHolds, PTL DEF Spec, NoStartAfterDispose

-----------------------------------------------------------------------------
(* A queue that is never locked, with tasks JavaScript tests as true. *)

\* What _promise, the task and the last onBusy are in each state of the machine.
Phases ==
    /\ ~lock
    /\ state = "idle" => promise = None /\ task = None /\ ~busy
    /\ state = "prepareWork" => promise # None /\ pc[promise] = "immediate" /\ task # None
    /\ state = "working" => promise # None /\ pc[promise] = "calling" /\ task = None
    /\ state = "waitting" => promise # None /\ pc[promise] = "calling" /\ task # None
    /\ disposing = "no" => state # "dispose"
    /\ \A e \in Execs : pc[e] = "calling" => arg[e] # None

PlainIInv == IInv /\ Phases

\* A coroutine that waits for its setImmediate, or calls back, is the one of
\* _promise, and the state of the machine says which of the two it does.
LEMMA LiveLemma ==
    ASSUME PlainIInv, NEW e \in Execs
    PROVE  /\ pc[e] = "immediate" => promise = e /\ state \in {"prepareWork", "dispose"}
           /\ pc[e] = "calling" => promise = e /\ state \in {"working", "waitting", "dispose"}
  BY QueueAssumption DEF PlainIInv, IInv, Phases, PromiseCoversWork, Live, TypeOK, States

\* Every step keeps the invariant.
LEMMA PlainIInvStep ==
    ASSUME ~Lockable, Falsy = {}, PlainIInv, [Next]_vars
    PROVE  Phases'
<1> USE QueueAssumption
<1>0. /\ TypeOK /\ Phases /\ DisposeState
      /\ \A x \in Execs : Live(x) => promise = x
  BY DEF PlainIInv, IInv, PromiseCoversWork
<1>1. ASSUME NEW t \in Tasks, PushQueue(t) PROVE Phases'
  <2>1. /\ disposing = "no" /\ Allows("recvTask") /\ Change("recvTask", t, pc)
        /\ UNCHANGED <<arg, lock, disposing>>
    BY <1>0, <1>1 DEF PushQueue, Phases
  <2>2. CASE state = "idle"
    BY <1>0, <2>1, <2>2 DEF Change, Rules, HandleChange, StartExecute, DropsTask, BusyAfter, Phases, TypeOK
  <2>3. CASE state = "prepareWork"
    BY <1>0, <2>1, <2>3 DEF Change, Rules, HandleChange, StartExecute, DropsTask, BusyAfter, Phases, TypeOK
  <2>4. CASE state \in {"working", "waitting"}
    BY <1>0, <2>1, <2>4 DEF Change, Rules, HandleChange, StartExecute, DropsTask, BusyAfter, Phases, TypeOK
  <2> QED BY <1>0, <2>1, <2>2, <2>3, <2>4 DEF TypeOK, States, Phases
<1>2. CASE Lock \/ Unlock
  BY <1>0, <1>2 DEF Lock, Unlock, Phases
<1>3. CASE Dispose
  BY <1>0, <1>3 DEF Dispose, Change, Rules, HandleChange, TypeOK, States, Phases, Allows
<1>4. CASE DisposeEnd
  BY <1>0, <1>4 DEF DisposeEnd, Phases
<1>5. ASSUME NEW e \in Execs, Immediate(e) PROVE Phases'
  <2>1. promise = e /\ state \in {"prepareWork", "dispose"}
    BY <1>5, LiveLemma DEF Immediate
  <2>2. CASE state = "dispose"
    BY <1>0, <1>5, <2>2 DEF Immediate, Phases, TypeOK
  <2>3. CASE state = "prepareWork"
    <3>1. /\ pc[e] = "immediate" /\ task # None
          /\ arg' = [arg EXCEPT ![e] = task] /\ UNCHANGED <<lock, disposing>>
          /\ Change("schedule", None, [pc EXCEPT ![e] = "calling"])
      BY <1>0, <1>5, <2>3 DEF Immediate, Phases, Allows, Rules
    <3> QED BY <1>0, <2>1, <2>3, <3>1 DEF Change, Rules, HandleChange, DropsTask, Phases, TypeOK
  <2> QED BY <2>1, <2>2, <2>3
<1>6. ASSUME NEW e \in Execs, Settle(e) PROVE Phases'
  <2>1. promise = e /\ state \in {"working", "waitting", "dispose"} /\ pc[e] = "calling"
    BY <1>6, LiveLemma DEF Settle
  <2>2. \A x \in Execs \ {e} : pc[x] # "calling"
    BY <1>0, <2>1 DEF Live
  <2>3. CASE state = "dispose"
    BY <1>0, <1>6, <2>2, <2>3 DEF Settle, Phases, TypeOK
  <2>4. CASE state # "dispose"
    <3>1. /\ Change("taskDone", task, [pc EXCEPT ![e] = "free"])
          /\ arg' = [arg EXCEPT ![e] = None] /\ UNCHANGED <<lock, disposing>>
      BY <1>6, <2>1, <2>4 DEF Settle, Allows, Rules
    <3>2. CASE state = "working"
      BY <1>0, <2>1, <2>2, <3>1, <3>2 DEF Change, Rules, HandleChange, DropsTask, BusyAfter, Phases, TypeOK
    <3>3. CASE state = "waitting"
      BY <1>0, <2>1, <2>2, <3>1, <3>3 DEF Change, Rules, HandleChange, StartExecute, DropsTask, BusyAfter, Phases, TypeOK
    <3> QED BY <2>1, <2>4, <3>2, <3>3
  <2> QED BY <2>3, <2>4
<1>7. CASE UNCHANGED vars
  BY <1>0, <1>7 DEF vars, Phases
<1> QED BY <1>1, <1>2, <1>3, <1>4, <1>5, <1>6, <1>7 DEF Next

\* The invariant holds in every reachable state.
LEMMA PlainIInvHolds ==
    ASSUME ~Lockable, Falsy = {}
    PROVE  Spec => []PlainIInv
<1>1. Init => PlainIInv
  BY IInvInit DEF Init, PlainIInv, Phases
<1>2. PlainIInv /\ [Next]_vars => PlainIInv'
  BY IInvStep, PlainIInvStep DEF PlainIInv
<1> QED BY <1>1, <1>2, PTL DEF Spec

\* Whoever shows "busy" after onBusy(true) is told when the work has ended.
THEOREM BusyEnds ==
    ASSUME ~Lockable, Falsy = {}
    PROVE  Spec => []BusyMeansWork
<1>1. PlainIInv => BusyMeansWork
  BY QueueAssumption DEF PlainIInv, IInv, Phases, BusyMeansWork, Live, TypeOK, States
<1> QED BY <1>1, PlainIInvHolds, PTL

\* The task that is called back, as the mailbox sees it.
Current ==
    IF \E e \in Execs : pc[e] = "calling"
    THEN arg[CHOOSE e \in Execs : pc[e] = "calling"] ELSE None

\* It is the one of the only coroutine that calls back.
LEMMA CurrentLemma ==
    ASSUME NEW p, NEW a, NEW e \in Execs, p[e] = "calling",
           \A x \in Execs : p[x] = "calling" => x = e
    PROVE  (IF \E x \in Execs : p[x] = "calling"
            THEN a[CHOOSE x \in Execs : p[x] = "calling"] ELSE None) = a[e]
<1>1. (CHOOSE x \in Execs : p[x] = "calling") = e
  OBVIOUS
<1> QED BY <1>1

\* Nothing changes for the mailbox as long as the same coroutine calls back.
LEMMA CurrentStays ==
    ASSUME UNCHANGED arg, \A x \in Execs : pc'[x] = "calling" <=> pc[x] = "calling"
    PROVE  Current' = Current
<1>1. (\E e \in Execs : pc[e] = "calling") <=> \E e \in Execs : pc'[e] = "calling"
  OBVIOUS
<1>2. (CHOOSE e \in Execs : pc[e] = "calling") = CHOOSE e \in Execs : pc'[e] = "calling"
  OBVIOUS
<1> QED BY <1>1, <1>2 DEF Current

\* Every step of the queue is a step of the mailbox, or none.
LEMMA MailboxStep ==
    ASSUME ~Lockable, Falsy = {}, PlainIInv, [Next]_vars
    PROVE  [Mailbox!Next]_(Mailbox!vars)
<1> USE QueueAssumption
<1>0. /\ TypeOK /\ Phases /\ DisposeState
      /\ \A x \in Execs : Live(x) => promise = x
  BY DEF PlainIInv, IInv, PromiseCoversWork
<1> DEFINE Same == UNCHANGED <<task, Current>> /\ (disposing # "no" <=> disposing' # "no")
<1>1. ASSUME Same PROVE UNCHANGED Mailbox!vars
  BY <1>1 DEF Mailbox!vars, Current
<1>2. ASSUME NEW t \in Tasks, PushQueue(t) PROVE Mailbox!Accept(t)
  <2>1. /\ disposing = "no" /\ Allows("recvTask") /\ Change("recvTask", t, pc)
        /\ UNCHANGED <<arg, lock, disposing>>
    BY <1>0, <1>2 DEF PushQueue, Phases
  <2>2. task' = t
    BY <1>0, <2>1 DEF Change, Rules, DropsTask, Phases, TypeOK, States
  <2>3. \A x \in Execs : pc'[x] = "calling" <=> pc[x] = "calling"
    BY <1>0, <2>1 DEF Change, HandleChange, StartExecute, TypeOK
  <2>4. Current' = Current
    BY <2>1, <2>3, CurrentStays
  <2> QED BY <2>1, <2>2, <2>4 DEF Mailbox!Accept, Current
<1>3. CASE Lock \/ Unlock
  BY <1>0, <1>3 DEF Lock, Unlock, Phases
<1>4. CASE Dispose
  <2>1. disposing = "no" /\ disposing' = "waiting" /\ state # "dispose"
    BY <1>0, <1>4 DEF Dispose, Phases
  <2>2. pc' = pc /\ task' = task /\ arg' = arg
    BY <1>0, <1>4, <2>1 DEF Dispose, Change, Rules, HandleChange, DropsTask, TypeOK, States
  <2>3. Current' = Current
    BY <2>2, CurrentStays
  <2> QED BY <2>1, <2>2, <2>3 DEF Mailbox!Close, Mailbox!Next, Current
<1>5. CASE DisposeEnd
  <2>1. Current' = Current
    BY <1>5, CurrentStays DEF DisposeEnd
  <2>2. disposing # "no" /\ disposing' # "no" /\ task' = task
    BY <1>5 DEF DisposeEnd
  <2> QED BY <1>1, <2>1, <2>2
<1>6. ASSUME NEW e \in Execs, Immediate(e) PROVE UNCHANGED Mailbox!vars \/ Mailbox!Start
  <2>1. promise = e /\ state \in {"prepareWork", "dispose"} /\ pc[e] = "immediate"
    BY <1>6, LiveLemma DEF Immediate
  <2>2. \A x \in Execs : pc[x] # "calling"
    BY <1>0, <2>1 DEF Live
  <2>3. CASE state = "dispose"
    <3>1. pc' = [pc EXCEPT ![e] = "free"] /\ UNCHANGED <<task, arg, disposing>>
      BY <1>6, <2>3 DEF Immediate
    <3>2. \A x \in Execs : pc'[x] = "calling" <=> pc[x] = "calling"
      BY <1>0, <2>1, <3>1 DEF TypeOK
    <3>3. Current' = Current
      BY <3>1, <3>2, CurrentStays
    <3> QED BY <1>1, <3>1, <3>3
  <2>4. CASE state = "prepareWork"
    <3>1. /\ task # None /\ arg' = [arg EXCEPT ![e] = task] /\ UNCHANGED disposing
          /\ Change("schedule", None, [pc EXCEPT ![e] = "calling"])
      BY <1>0, <1>6, <2>4 DEF Immediate, Phases, Allows, Rules
    <3>2. task' = None /\ pc' = [pc EXCEPT ![e] = "calling"]
      BY <2>4, <3>1 DEF Change, Rules, HandleChange, DropsTask
    <3>3. /\ pc'[e] = "calling" /\ arg'[e] = task
          /\ \A x \in Execs : pc'[x] = "calling" => x = e
      BY <1>0, <2>2, <3>1, <3>2 DEF TypeOK
    <3>4. Current = None /\ Current' = task
      BY <2>2, <3>3, CurrentLemma DEF Current
    <3>5. disposing = "no" /\ disposing' = "no"
      BY <1>0, <2>4, <3>1 DEF DisposeState
    <3> QED BY <3>1, <3>2, <3>4, <3>5 DEF Mailbox!Start, Current
  <2> QED BY <2>1, <2>3, <2>4
<1>7. ASSUME NEW e \in Execs, Settle(e) PROVE Mailbox!Finish
  <2>1. promise = e /\ state \in {"working", "waitting", "dispose"} /\ pc[e] = "calling"
    BY <1>7, LiveLemma DEF Settle
  <2>2. \A x \in Execs : pc[x] = "calling" => x = e
    BY <1>0, <2>1 DEF Live
  <2>3. Current = arg[e] /\ arg[e] # None
    BY <1>0, <2>1, <2>2, CurrentLemma DEF Current, Phases
  <2>4. task' = task /\ UNCHANGED disposing /\ \A x \in Execs : pc'[x] # "calling"
    <3>1. CASE state = "dispose"
      BY <1>0, <1>7, <2>2, <3>1 DEF Settle, TypeOK
    <3>2. CASE state # "dispose"
      <4>1. Change("taskDone", task, [pc EXCEPT ![e] = "free"]) /\ UNCHANGED disposing
        BY <1>7, <2>1, <3>2 DEF Settle, Allows, Rules
      <4> QED BY <1>0, <2>1, <2>2, <3>2, <4>1
              DEF Change, Rules, HandleChange, StartExecute, DropsTask, TypeOK
    <3> QED BY <3>1, <3>2
  <2>5. Current' = None
    BY <2>4 DEF Current
  <2> QED BY <2>3, <2>4, <2>5 DEF Mailbox!Finish, Current
<1>8. CASE UNCHANGED vars
  <2>1. Current' = Current
    BY <1>8, CurrentStays DEF vars
  <2> QED BY <1>1, <1>8, <2>1 DEF vars
<1> QED BY <1>2, <1>3, <1>4, <1>5, <1>6, <1>7, <1>8 DEF Next, Mailbox!Next

\* A queue that is never locked is a mailbox: what is pushed replaces what waits,
\* only what waits is started, one at a time, and nothing after dispose().  That
\* a task which waits is started in the end is left to the run.
THEOREM MailboxSteps ==
    ASSUME ~Lockable, Falsy = {}
    PROVE  Spec => Mailbox!Init /\ [][Mailbox!Next]_(Mailbox!vars)
<1>1. Init => Mailbox!Init
  BY DEF Init, Mailbox!Init
<1>2. PlainIInv /\ [Next]_vars => [Mailbox!Next]_(Mailbox!vars)
  BY MailboxStep
<1> QED BY <1>1, <1>2, PlainIInvHolds, PTL DEF Spec
=============================================================================
