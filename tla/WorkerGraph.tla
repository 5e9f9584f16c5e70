----------------------------- MODULE WorkerGraph -----------------------------
(***************************************************************************)
(* @mpis/server: a graph whose jobs are child processes that report over   *)
(* IPC (WorkersManager).  EventTranslate turns what the worker, a          *)
(* ProtocolClientObject, emits into states of the job; ProcessIPCClient    *)
(* turns messages and the end of the process into what the worker emits.   *)
(*                                                                         *)
(* The module is JobGraph with the code of the jobs filled in: in place of *)
(* JobStep there are messages and exits of processes.  A message or an     *)
(* exit is one step: the emitters call the listeners synchronously, and    *)
(* from the end of the process to the end of Job.execute() there are only  *)
(* microtasks.                                                             *)
(***************************************************************************)
EXTENDS JobGraph

CONSTANTS
    Mode,       \* ModeKind: "build" or "watch"
    MaxMessages \* bound: how many messages one process sends

ASSUME WorkerAssumption ==
    /\ Mode \in {"build", "watch"}
    /\ MaxMessages \in Nat
    /\ {"running", "error", "success", "error-exited", "success-exited"} \subseteq Reports

VARIABLES
    wst,        \* ProtocolClientObject._state
    budget      \* the messages the process may still send

workerVars == <<wst, budget>>
allVars == <<vars, wst, budget>>

WorkerClientState == {"not_execute", "executing", "started", "failed", "succeed"}

WorkersTypeOK ==
    /\ TypeOK
    /\ wst \in [Nodes -> WorkerClientState]
    /\ budget \in [Nodes -> 0 .. MaxMessages]

WorkersInit ==
    /\ Init
    /\ wst = [n \in Nodes |-> "not_execute"]
    /\ budget = [n \in Nodes |-> MaxMessages]

-----------------------------------------------------------------------------
(* What the worker emits, and the listeners of EventTranslate. *)

Emitted == {"started", "succeed", "failed"}

JobStateOf(w) ==
    CASE w = "succeed" -> "success"
      [] w = "failed"  -> "error"
      [] OTHER         -> "running"

AttachOf(w) ==
    CASE w = "succeed" -> "data"
      [] w = "failed"  -> "error"
      [] OTHER         -> "none"

\* emitStart, emitSuccess, emitFailure.  An error of the listener, thrown by
\* setState after a fatal error, is swallowed by fireNoError.
Emit(n, w) ==
    /\ wst' = [wst EXCEPT ![n] = w]
    /\ IF MaySet(n, JobStateOf(w))
       THEN SetState(n, JobStateOf(w), AttachOf(w), FALSE)
       ELSE UNCHANGED <<st, attach, imm, fresh>>

\* Mutant: messages are read whether the process still runs or not.
MessageAnytime(n, w) ==
    /\ run[n] # "no"
    /\ ~told[n]
    /\ budget[n] > 0
    /\ budget' = [budget EXCEPT ![n] = @ - 1]
    /\ Emit(n, w)
    /\ UNCHANGED <<run, told, graphVars>>

\* onMessage.  Messages of a worker that was told to stop are ignored: its
\* emitters are disposed.  handleMessages is not awaited, so a message may be
\* read after the process ended (LateCalls).
Message(n, w) ==
    /\ run[n] = "busy" \/ (run[n] = "done" /\ LateCalls)
    /\ ~told[n]
    /\ budget[n] > 0
    /\ budget' = [budget EXCEPT ![n] = @ - 1]
    /\ Emit(n, w)
    /\ UNCHANGED <<run, told, graphVars>>

-----------------------------------------------------------------------------
(* The end of the process. *)

\* What ProcessIPCClient._execute and ProtocolClientObject.execute still emit:
\* a failure for a bad exit, unless it was reported already, and a success
\* when nothing was ever reported.
LastEmitted(n, ok) ==
    IF told[n] \/ wst[n] = "failed" THEN wst[n]
    ELSE IF ~ok THEN "failed"
    ELSE "succeed"

\* Mutant: a watcher that ends is treated as in build mode.
OutcomeAnyMode(n, w) ==
    CASE w = "succeed" -> [state |-> "success-exited", attach |-> "data"]
      [] w = "failed"  -> [state |-> "error-exited", attach |-> "error"]
      [] OTHER         -> [state |-> "running", attach |-> "none"]

\* EventTranslate._execute after worker.execute(): a watcher that was not told
\* to stop must not end; any other exit keeps success or failure.
Outcome(n, w) ==
    CASE Mode = "watch" /\ ~told[n] -> [state |-> "error-exited", attach |-> "unrecoverable"]
      [] w = "succeed"              -> [state |-> "success-exited", attach |-> "data"]
      [] w = "failed"               -> [state |-> "error-exited", attach |-> "error"]
      [] OTHER                      -> [state |-> "running", attach |-> "none"]

\* The process ends, with exit code 0 (ok) or not, and with it _execute() of
\* the worker and of the job; Job.execute() runs to its end.
WorkerExit(n, ok) ==
    LET w == LastEmitted(n, ok)
        end == Outcome(n, w)
    IN  /\ wst' = [wst EXCEPT ![n] = w]
        /\ JobReturn(n, end.state, end.attach)
        /\ UNCHANGED <<budget, graphVars>>

-----------------------------------------------------------------------------

\* A job that is started executes its worker at once.
Executing == wst' = [n \in Nodes |-> IF run[n] = "no" /\ run'[n] = "busy"
                                     THEN "executing" ELSE wst[n]]

WorkersGraphStep == GraphStep /\ Executing /\ UNCHANGED budget

ProcessStep(n) ==
    \/ \E w \in Emitted : Message(n, w)
    \/ \E ok \in BOOLEAN : WorkerExit(n, ok)

WorkersNext == WorkersGraphStep \/ \E n \in Nodes : ProcessStep(n)

\* A build ends by itself; a watcher ends when it was told to: SIGTERM, and
\* SIGKILL after 5 s.
Ends(n) ==
    /\ Mode = "build" \/ told[n]
    /\ \E ok \in BOOLEAN : WorkerExit(n, ok)

ProcessFairness == \A n \in Nodes : WF_allVars(Ends(n))

WorkersSpec == WorkersInit /\ [][WorkersNext]_allVars /\ GraphFairness /\ ProcessFairness

-----------------------------------------------------------------------------
(* Properties. *)

\* When stop() has returned or startup() has rejected, no process is left.
NoOrphan ==
    stopping = "stopped" \/ boot = "rejected" => \A n \in Nodes : run[n] # "busy"

\* A process starts only when the workers it depends on have succeeded; that
\* jobs that were killed end as "success-exited" never starts another one.
StartAfterBuilt ==
    [][\A n \in Nodes : run[n] = "no" /\ run'[n] # "no" =>
        \A d \in Deps[n] : wst[d] = "succeed"]_allVars

\* A build comes to an end: startup() settles.
BootSettles == boot \in {"waiting", "joining"} ~> boot \in {"resolved", "rejected"}

\* stop() returns, with an error if a process needed too long.
StopReturns == stopping = "stopping" ~> stopping \in {"stopped", "failed"}

\* A process that ends in watch mode without being told takes the graph down.
QuitStopsGraph ==
    (\E n \in Nodes : run[n] = "done" /\ ~told[n]) ~> stopping # "no"

\* In build mode the graph is stopped whenever a process ended badly, even if it
\* had reported a success.
FailedBuildStops ==
    (\E n \in Nodes : run[n] = "done" /\ wst[n] = "failed") ~> stopping # "no"

\* Seen from the dependency graph the workers are jobs like any others.
ImplementsJobGraph == Init /\ [][Next]_vars
=============================================================================
