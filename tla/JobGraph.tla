------------------------------- MODULE JobGraph -------------------------------
(***************************************************************************)
(* @idlebox/dependency-graph: a graph of jobs that are started when what   *)
(* they depend on is done, at most `concurrency' of them at once, and      *)
(* stopped together as soon as one of them fails for good.                 *)
(*                                                                         *)
(* A job changes its state at once (setState) but publishes the change     *)
(* from a setImmediate, and a newer change replaces the pending event      *)
(* (publishStateEvent).  The Starter therefore works with a set of running *)
(* nodes that lags behind the states it reads when it pumps.  A step of    *)
(* this module is one macrotask with its microtasks: a job's code, the     *)
(* firing of one event with all listeners, or a call of the owner.         *)
(*                                                                         *)
(* What a job does between execute() and the end of its _execute() is      *)
(* left open here (JobSet, JobReturn, JobThrow); WorkerGraph fills it in.  *)
(***************************************************************************)
EXTENDS Naturals, FiniteSets

CONSTANTS
    Nodes,
    Deps,         \* dependenciesOf(n, true): all dependencies, indirect ones too
    Order,        \* the position of a node in overallOrder
    Index,        \* the position of a node in graph.nodes
    Concurrency,  \* graph.concurrency
    Reports,      \* the states the code of a job sets by itself
    LateCalls,    \* whether a job sets states after its end, or after an exit
    OwnerStops,   \* whether somebody else than a failed job calls stop()
    Timeouts      \* whether a job may need more than 5 s to obey stop()

Last == Cardinality(Nodes)

ASSUME GraphAssumption ==
    /\ IsFiniteSet(Nodes)
    /\ Deps \in [Nodes -> SUBSET Nodes]
    /\ \A n \in Nodes : n \notin Deps[n]
    /\ \A n \in Nodes : \A m \in Deps[n] : Deps[m] \subseteq Deps[n]
    /\ Order \in [Nodes -> Nat]
    /\ \A n, m \in Nodes : Order[n] = Order[m] => n = m
    /\ Index \in [Nodes -> 1 .. Last]
    /\ \A n, m \in Nodes : Index[n] = Index[m] => n = m
    /\ Concurrency \in Nat \ {0}
    /\ Reports \subseteq {"running", "error", "success", "error-exited", "success-exited"}
    /\ LateCalls \in BOOLEAN /\ OwnerStops \in BOOLEAN /\ Timeouts \in BOOLEAN

VARIABLES
    (* the jobs *)
    st,        \* Job._state
    attach,    \* what _last_attach is: "none", "data", "error", "unrecoverable"
    imm,       \* a state event is pending (AbstractBaseNode.imm)
    run,       \* Job.execute(): "no", "busy" awaiting _process, "done"
    told,      \* Job.stop() went through: _stop() called, token cancelled
    fresh,     \* history: the job has been Running ever since execute()
    (* the Starter *)
    phase,     \* Starter.state
    working,   \* Starter.working
    deferred,  \* the promise startup() awaits
    (* the JobGraph *)
    boot,      \* startup(): "no", "waiting", "joining", "resolved", "rejected"
    stopping,  \* stop(): "no", "stopping", "joining", "stopped", "failed"
    joiner     \* per caller of joinAll, the position of the node it waits for

jobVars == <<st, attach, imm, run, told, fresh>>
graphVars == <<phase, working, deferred, boot, stopping, joiner>>
vars == <<st, attach, imm, run, told, fresh,
          phase, working, deferred, boot, stopping, joiner>>

JobState == {"not-start", "running", "error", "success", "error-exited", "success-exited"}
Attach == {"none", "data", "error", "unrecoverable"}
Joiners == {"startup", "stop"}

TypeOK ==
    /\ st \in [Nodes -> JobState]
    /\ attach \in [Nodes -> Attach]
    /\ imm \in [Nodes -> BOOLEAN]
    /\ run \in [Nodes -> {"no", "busy", "done"}]
    /\ told \in [Nodes -> BOOLEAN]
    /\ fresh \in [Nodes -> BOOLEAN]
    /\ phase \in {"pre", "run", "post"}
    /\ working \in SUBSET Nodes
    /\ deferred \in {"pending", "resolved", "rejected"}
    /\ boot \in {"no", "waiting", "joining", "resolved", "rejected"}
    /\ stopping \in {"no", "stopping", "joining", "stopped", "failed"}
    /\ joiner \in [Joiners -> 0 .. Last + 1]

Init ==
    /\ st = [n \in Nodes |-> "not-start"]
    /\ attach = [n \in Nodes |-> "none"]
    /\ imm = [n \in Nodes |-> FALSE]
    /\ run = [n \in Nodes |-> "no"]
    /\ told = [n \in Nodes |-> FALSE]
    /\ fresh = [n \in Nodes |-> FALSE]
    /\ phase = "pre"
    /\ working = {}
    /\ deferred = "pending"
    /\ boot = "no"
    /\ stopping = "no"
    /\ joiner = [p \in Joiners |-> 0]

-----------------------------------------------------------------------------
(* The predicates of Job, on a state. *)

IsStarted(s) == s # "not-start"
IsStopped(s) == s \in {"success-exited", "error-exited"}
\* Mutant: a job that is running blocks nobody.
IsBlockingFailed(s) == ~IsStarted(s) \/ s \in {"error", "error-exited"}
IsBlocking(s) == s \notin {"success", "success-exited"}
IsFailling(s) == s \in {"error", "error-exited"}

\* Mutant: only the class of the error counts.
IsUnrecoverable(n) == attach[n] = "unrecoverable"
IsFatalError(n) == attach[n] = "unrecoverable" \/ st[n] = "error-exited"

\* Started and not stopped: what stop(), join() and joinAll() look at.
Alive(s) == IsStarted(s) /\ ~IsStopped(s)

-----------------------------------------------------------------------------
(* Jobs.  These leave the Starter and the JobGraph alone. *)

AttachFor(s) ==
    CASE s \in {"success", "success-exited"} -> {"data"}
      [] s \in {"error", "error-exited"}     -> {"error", "unrecoverable"}
      [] OTHER                               -> {"none"}

\* setState throws instead of moving from a fatal error to an error.
MaySet(n, s) == IsFailling(s) => ~IsFatalError(n)

\* setState(s, a) moves at once; the event goes out later, and only if the
\* state is another one.
SetState(n, s, a, publish) ==
    /\ st' = [st EXCEPT ![n] = s]
    /\ attach' = [attach EXCEPT ![n] = a]
    /\ imm' = [imm EXCEPT ![n] = @ \/ s # st[n] \/ publish]
    /\ fresh' = [fresh EXCEPT ![n] = @ /\ s = "running"]

\* The job's own code calls setState; unless LateCalls, not after an exit.
JobSet(n, s, a) ==
    /\ \/ run[n] = "busy" /\ ~IsStopped(st[n])
       \/ run[n] # "no" /\ LateCalls
    /\ MaySet(n, s)
    /\ SetState(n, s, a, FALSE)
    /\ UNCHANGED <<run, told>>

\* _execute() sets a last state and returns, or just returns; execute() turns
\* "running" into "success-exited" and publishes in any case.
JobReturn(n, s, a) ==
    /\ run[n] = "busy"
    /\ \/ s = st[n] /\ a = attach[n]
       \/ MaySet(n, s) /\ (LateCalls \/ ~IsStopped(st[n]))
    /\ IF s = "running"
       THEN SetState(n, "success-exited", "data", TRUE)
       ELSE SetState(n, s, a, TRUE)
    /\ run' = [run EXCEPT ![n] = "done"]
    /\ UNCHANGED told

\* _execute() rejects; after a fatal error the setState of execute() throws, so
\* that execute() itself rejects, which nobody awaits.
JobThrow(n) ==
    /\ run[n] = "busy"
    /\ IF MaySet(n, "error-exited")
       THEN \E a \in AttachFor("error-exited") : SetState(n, "error-exited", a, FALSE)
       ELSE UNCHANGED <<st, attach, imm, fresh>>
    /\ run' = [run EXCEPT ![n] = "done"]
    /\ UNCHANGED told

-----------------------------------------------------------------------------
(* The Starter. *)

\* shouldExecuteNode: not started, and nothing it depends on is blocking.
ShouldExecute(n) ==
    /\ ~IsStarted(st[n])
    /\ \A d \in Deps[n] : ~IsBlocking(st[d])

\* Mutant: slots that are taken already do not count.
IsScheduleUnslotted(chosen, wk) ==
    LET ready == {n \in Nodes : ShouldExecute(n)}
    IN  /\ chosen \subseteq ready
        /\ \A n \in chosen, m \in ready : Order[m] < Order[n] => m \in chosen
        /\ Cardinality(chosen) <= Concurrency
        /\ chosen # ready => Cardinality(chosen) = Concurrency

\* What one pump starts: of the nodes that may start, the first ones in
\* overallOrder, as many as there are free slots.
IsSchedule(chosen, wk) ==
    LET ready == {n \in Nodes : ShouldExecute(n)}
        taken == Cardinality(chosen) + Cardinality(wk)
    IN  /\ chosen \subseteq ready
        /\ \A n \in chosen, m \in ready : Order[m] < Order[n] => m \in chosen
        /\ chosen # {} => taken <= Concurrency
        /\ chosen # ready => taken >= Concurrency

\* The end of the start phase: everything is started, nothing is working.
Finished(wk) == wk = {} /\ \A n \in Nodes : IsStarted(st[n])

\* execute() of the chosen jobs up to the first await.
Execute(chosen) ==
    /\ st' = [n \in Nodes |-> IF n \in chosen THEN "running" ELSE st[n]]
    /\ attach' = [n \in Nodes |-> IF n \in chosen THEN "none" ELSE attach[n]]
    /\ run' = [n \in Nodes |-> IF n \in chosen THEN "busy" ELSE run[n]]
    /\ fresh' = [n \in Nodes |-> n \in chosen \/ fresh[n]]

\* pump() with the working set wk and the promise as it stands; a stop() that
\* follows in the same event disposes the Starter.
Pump(wk, promise, stops) ==
    IF Finished(wk)
    THEN /\ Execute({})
         /\ working' = wk
         /\ phase' = "post"
         /\ deferred' = IF promise = "pending" THEN "resolved" ELSE promise
    ELSE \E chosen \in SUBSET Nodes :
         /\ IsSchedule(chosen, wk)
         /\ Execute(chosen)
         /\ working' = wk \union chosen
         /\ phase' = IF stops THEN "post" ELSE "run"
         /\ deferred' = promise

\* Mutant: a job that ends keeps its slot.
WorkingLeaks(n) == IF st[n] = "running" THEN working \union {n} ELSE working

\* Mutant: a job that runs again is not counted again.
WorkingAfterOnce(n) == IF st[n] = "running" THEN working ELSE working \ {n}
\* checkRemoveWorking, its first half
WorkingAfter(n) == IF st[n] = "running" THEN working \union {n} ELSE working \ {n}

-----------------------------------------------------------------------------
(* The JobGraph. *)

\* Mutant: joinAll waits for running jobs only, not for failing ones.
JoinAllRunning(p, k) ==
    /\ joiner'[p] >= k
    /\ \A n \in Nodes : Index[n] \in k .. (joiner'[p] - 1) => st'[n] # "running"
    /\ joiner'[p] <= Last => \E n \in Nodes : Index[n] = joiner'[p] /\ Alive(st'[n])

\* joinAll of p has come to the first node from k on that is alive.
JoinAllFrom(p, k) ==
    /\ joiner'[p] >= k
    /\ \A n \in Nodes : Index[n] \in k .. (joiner'[p] - 1) => ~Alive(st'[n])
    /\ joiner'[p] <= Last => \E n \in Nodes : Index[n] = joiner'[p] /\ Alive(st'[n])

\* Mutant: stop() tells only the jobs that are running at the moment.
TellRunning == told' = [n \in Nodes |-> told[n] \/ st'[n] = "running"]

\* stop() up to its awaits: it tells every started job that has not stopped.
TellJobs == told' = [n \in Nodes |-> told[n] \/ Alive(st'[n])]

\* Mutant: startup() rejects without joinAll.
BootStepAtOnce ==
    boot' = CASE boot = "waiting" /\ deferred' = "resolved" -> "resolved"
              [] boot = "waiting" /\ deferred' = "rejected" -> "rejected"
              [] OTHER -> boot

\* What startup() does next: its promise is settled, or its joinAll is done.
BootStep ==
    boot' = CASE boot = "waiting" /\ deferred' = "resolved" -> "resolved"
              [] boot \in {"waiting", "joining"} /\ joiner'["startup"] > Last -> "rejected"
              [] boot = "waiting" /\ deferred' = "rejected" -> "joining"
              [] OTHER -> boot

\* startup(): a disposed Starter only warns, and its promise stays pending.
Startup ==
    /\ boot = "no"
    /\ IF phase = "post"
       THEN UNCHANGED <<st, attach, imm, run, fresh, working, phase, deferred>>
       ELSE /\ Pump(working, deferred, FALSE)
            /\ imm' = [m \in Nodes |-> imm[m] \/ st'[m] # st[m]]
    /\ boot' = IF deferred' = "resolved" THEN "resolved" ELSE "waiting"
    /\ UNCHANGED <<told, stopping, joiner>>

\* The setImmediate of publishStateEvent fires the event of n.  Its listeners,
\* the last registered first: joins, the Starter, JobGraph.onNodeChange.
StateEvent(n) ==
    LET stops == stopping = "no" /\ IsFatalError(n)
        promise == IF deferred = "pending" /\ IsFatalError(n) THEN "rejected" ELSE deferred
    IN  /\ imm[n]
        /\ IF phase = "post"
           THEN UNCHANGED <<st, attach, run, fresh, working, phase, deferred>>
           ELSE Pump(WorkingAfter(n), promise, stops)
        /\ imm' = [m \in Nodes |-> st'[m] # st[m] \/ (imm[m] /\ m # n)]
        /\ IF stops THEN TellJobs ELSE UNCHANGED told
        /\ joiner' \in [Joiners -> 0 .. Last + 1]
        /\ \A p \in Joiners :
              IF \/ p = "startup" /\ boot = "waiting" /\ deferred' = "rejected"
              THEN JoinAllFrom(p, 1)
              ELSE IF joiner[p] = Index[n] /\ IsStopped(st[n])
              THEN JoinAllFrom(p, Index[n] + 1)
              ELSE joiner'[p] = joiner[p]
        /\ BootStep
        /\ stopping' = IF stops THEN "stopping"
                       ELSE IF stopping = "joining" /\ joiner'["stop"] > Last THEN "stopped"
                       ELSE stopping

\* Mutant: stop() forgets to dispose the Starter.
StopOnly ==
    /\ OwnerStops
    /\ stopping = "no"
    /\ stopping' = "stopping"
    /\ UNCHANGED <<st, attach, imm, run, fresh, phase, working, deferred, boot, joiner>>
    /\ TellJobs

\* stop() called by the owner, for instance by dispose().
Stop ==
    /\ OwnerStops
    /\ stopping = "no"
    /\ stopping' = "stopping"
    /\ phase' = "post"
    /\ UNCHANGED <<st, attach, imm, run, fresh, working, deferred, boot, joiner>>
    /\ TellJobs

\* Every job that was told has settled: stop() goes on with joinAll.
StopJoin ==
    /\ stopping = "stopping"
    /\ \A n \in Nodes : told[n] => run[n] = "done"
    /\ UNCHANGED <<st, attach, imm, run, told, fresh, working, phase, deferred, boot>>
    /\ joiner' \in [Joiners -> 0 .. Last + 1]
    /\ joiner'["startup"] = joiner["startup"]
    /\ JoinAllFrom("stop", 1)
    /\ stopping' = IF joiner'["stop"] > Last THEN "stopped" ELSE "joining"

\* raceTimeout(5000) of Job.stop rejects, and so does stop() of the graph.
StopTimeout ==
    /\ Timeouts
    /\ stopping = "stopping"
    /\ \E n \in Nodes : told[n] /\ run[n] = "busy"
    /\ stopping' = "failed"
    /\ UNCHANGED <<jobVars, phase, working, deferred, boot, joiner>>

-----------------------------------------------------------------------------

JobStep(n) ==
    /\ \/ \E s \in Reports : \E a \in AttachFor(s) : JobSet(n, s, a) \/ JobReturn(n, s, a)
       \/ JobReturn(n, st[n], attach[n])
       \/ JobThrow(n)
    /\ UNCHANGED graphVars

GraphStep ==
    \/ Startup
    \/ \E n \in Nodes : StateEvent(n)
    \/ Stop
    \/ StopJoin
    \/ StopTimeout

Next == GraphStep \/ \E n \in Nodes : JobStep(n)

\* A setImmediate fires, a settled await goes on.
GraphFairness ==
    /\ WF_vars(Startup)
    /\ \A n \in Nodes : WF_vars(StateEvent(n))
    /\ WF_vars(StopJoin)

Spec == Init /\ [][Next]_vars /\ GraphFairness

-----------------------------------------------------------------------------
(* Properties. *)

\* A started job never overtook a dependency: everything it depends on, however
\* indirectly, was started before and has left its first run.
StartedInOrder ==
    \A n \in Nodes : IsStarted(st[n]) =>
        \A d \in Deps[n] : IsStarted(st[d]) /\ ~fresh[d]

\* The working set is only late, never wrong: where it disagrees with the state
\* of a job, an event of that job is on its way.  A slot is neither leaked nor
\* given away twice.
WorkingIsTracked ==
    phase = "run" => \A n \in Nodes : (st[n] = "running" <=> n \in working) \/ imm[n]

\* The jobs that run for the first time never exceed the concurrency, although
\* the Starter counts them by events that arrive late and merged.
StartLoadBounded == Cardinality({n \in Nodes : fresh[n]}) <= Concurrency

\* When startup() has rejected, it has waited for every job that was started.
RejectedAfterJoin ==
    boot = "rejected" => \A n \in Nodes : ~Alive(st[n])

\* When stop() has returned, no started job is left.
StoppedMeansStopped ==
    stopping = "stopped" => \A n \in Nodes : ~Alive(st[n])

\* No job starts once stop() was called, or once startup() knows of a failure.
NoStartAfterStop ==
    [][stopping # "no" \/ deferred = "rejected" =>
        \A n \in Nodes : run'[n] = "busy" => run[n] = "busy"]_vars

\* A job that exited with an error takes the whole graph down, even if its
\* event was merged with others.
FailureStopsGraph ==
    (\E n \in Nodes : st[n] = "error-exited") ~> stopping # "no"
=============================================================================
