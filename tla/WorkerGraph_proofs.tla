--------------------------- MODULE WorkerGraph_proofs ---------------------------
(***************************************************************************)
(* Proofs about JobGraph and about WorkerGraph, which implements it.       *)
(*                                                                         *)
(* JobGraph, for every finite graph, every concurrency and every kind of   *)
(* job: types, the order of the starts, the bookkeeping of the Starter,    *)
(* the bound on the load, and that nothing starts after stop().  For jobs  *)
(* that do not set their state after their end (~LateCalls) also that      *)
(* stop() and a failed startup() end last.                                 *)
(*                                                                         *)
(* WorkerGraph: everything proved about jobs holds of worker processes; no *)
(* process outlives stop() or a rejected startup(); and a process starts   *)
(* only on processes that have succeeded.                                  *)
(***************************************************************************)
EXTENDS WorkerGraph, FiniteSetTheorems, TLAPS

-----------------------------------------------------------------------------
(* JobGraph: the inductive invariant. *)

\* A job is past execute() exactly when it is not "not-start" any more; a job
\* in its first run is running.
Started ==
    \A n \in Nodes :
        /\ run[n] = "no" <=> st[n] = "not-start"
        /\ fresh[n] => st[n] = "running"

\* Before startup() nothing has happened.
BeforeStart ==
    phase = "pre" =>
        /\ working = {}
        /\ \A n \in Nodes : st[n] = "not-start" /\ ~imm[n]

\* Jobs in their first run occupy a slot.
FreshIsWorking ==
    phase = "run" => \A n \in Nodes : fresh[n] => n \in working

\* A failure leads to stop() in the same step, and stop() ends the start phase.
StopEndsStart ==
    /\ stopping # "no" => phase = "post"
    /\ deferred = "rejected" => stopping # "no"

\* What joinAll has passed is over, and stays so: only then is a join done.
Joined ==
    ~LateCalls =>
        \A p \in Joiners : joiner[p] # 0 =>
            /\ phase = "post"
            /\ \A n \in Nodes : Index[n] < joiner[p] => ~Alive(st[n])

\* startup() rejects, and stop() returns, behind the end of joinAll.
EndsLast ==
    /\ boot = "rejected" => joiner["startup"] > Last
    /\ stopping = "stopped" => joiner["stop"] > Last

IInv ==
    /\ TypeOK
    /\ Started
    /\ BeforeStart
    /\ StartedInOrder
    /\ WorkingIsTracked
    /\ FreshIsWorking
    /\ StartLoadBounded
    /\ StopEndsStart
    /\ Joined
    /\ EndsLast

-----------------------------------------------------------------------------
(* Sets of nodes. *)

\* There are finitely many nodes, and positions beyond the last one are none.
LEMMA NodesFinite == IsFiniteSet(Nodes) /\ Last \in Nat
BY GraphAssumption, FS_CardinalityType DEF Last

\* A subset of two sets that fit together into a bound fits into the bound.
LEMMA LoadLemma ==
    ASSUME NEW S \in SUBSET Nodes, NEW T \in SUBSET Nodes,
           NEW F \in SUBSET Nodes, F \subseteq S \union T,
           Cardinality(S) + Cardinality(T) <= Concurrency
    PROVE  Cardinality(F) <= Concurrency
<1>1. IsFiniteSet(S) /\ IsFiniteSet(T)
  BY NodesFinite, FS_Subset
<1>2. /\ IsFiniteSet(S \union T)
      /\ Cardinality(S \union T) =
            Cardinality(S) + Cardinality(T) - Cardinality(S \intersect T)
  BY <1>1, FS_Union
<1>3. Cardinality(F) <= Cardinality(S \union T) /\ Cardinality(F) \in Nat
  BY <1>2, FS_Subset, FS_CardinalityType
<1>4. /\ Cardinality(S) \in Nat /\ Cardinality(T) \in Nat
      /\ Cardinality(S \intersect T) \in Nat
  BY <1>1, FS_CardinalityType, FS_Intersection
<1>5. Concurrency \in Nat
  BY GraphAssumption
<1> QED  BY <1>2, <1>3, <1>4, <1>5

\* Fewer nodes are not more.
LEMMA FewerLemma ==
    ASSUME NEW S \in SUBSET Nodes, NEW F \in SUBSET S,
           Cardinality(S) <= Concurrency
    PROVE  Cardinality(F) <= Concurrency
<1>1. IsFiniteSet(S)
  BY NodesFinite, FS_Subset
<1>2. /\ Cardinality(F) <= Cardinality(S)
      /\ Cardinality(F) \in Nat /\ Cardinality(S) \in Nat
  BY <1>1, FS_Subset, FS_CardinalityType
<1> QED  BY <1>2, GraphAssumption

-----------------------------------------------------------------------------
(* What the steps of a job change. *)

\* What any step of job n leaves behind.
JobChange(n) ==
    /\ st' \in [Nodes -> JobState] /\ attach' \in [Nodes -> Attach]
    /\ imm' \in [Nodes -> BOOLEAN] /\ fresh' \in [Nodes -> BOOLEAN]
    /\ \A m \in Nodes \ {n} :
          st'[m] = st[m] /\ imm'[m] = imm[m] /\ fresh'[m] = fresh[m]
    /\ st'[n] # "not-start"
    /\ st'[n] # st[n] => imm'[n]
    /\ imm[n] => imm'[n]
    /\ fresh'[n] => fresh[n] /\ st'[n] = "running"
    /\ ~LateCalls /\ IsStopped(st[n]) => IsStopped(st'[n])

\* setState to a started state is such a step.
LEMMA SetStateLemma ==
    ASSUME TypeOK, NEW n \in Nodes, NEW s \in JobState, s # "not-start",
           NEW a \in Attach, NEW publish \in BOOLEAN, SetState(n, s, a, publish),
           ~LateCalls /\ IsStopped(st[n]) => IsStopped(s)
    PROVE  JobChange(n)
<1>1. st'[n] = s /\ st' \in [Nodes -> JobState] /\ \A m \in Nodes \ {n} : st'[m] = st[m]
  BY DEF SetState, TypeOK
<1>2. attach' \in [Nodes -> Attach]
  BY DEF SetState, TypeOK
<1>3. /\ imm' \in [Nodes -> BOOLEAN]
      /\ \A m \in Nodes \ {n} : imm'[m] = imm[m]
      /\ s # st[n] => imm'[n]
      /\ imm[n] => imm'[n]
  BY DEF SetState, TypeOK
<1>4. /\ fresh' \in [Nodes -> BOOLEAN]
      /\ \A m \in Nodes \ {n} : fresh'[m] = fresh[m]
      /\ fresh'[n] => fresh[n] /\ s = "running"
  BY DEF SetState, TypeOK
<1> QED  BY <1>1, <1>2, <1>3, <1>4 DEF JobChange

\* What a job attaches fits the state.
LEMMA AttachLemma ==
    ASSUME NEW s \in JobState PROVE AttachFor(s) \subseteq Attach
BY DEF AttachFor, Attach, JobState

\* A step of a job changes nothing but this job, which is past execute().
LEMMA JobStepLemma ==
    ASSUME TypeOK, Started, NEW n \in Nodes, JobStep(n)
    PROVE  /\ JobChange(n)
           /\ run' \in [Nodes -> {"no", "busy", "done"}]
           /\ \A m \in Nodes \ {n} : run'[m] = run[m]
           /\ run[n] # "no" /\ run'[n] # "no"
           /\ run'[n] = "busy" => run[n] = "busy"
           /\ UNCHANGED <<told, phase, working, deferred, boot, stopping, joiner>>
<1> USE DEF JobState
<1>1. Reports \subseteq JobState \ {"not-start"}
  BY GraphAssumption
<1>2. UNCHANGED <<phase, working, deferred, boot, stopping, joiner>>
  BY DEF JobStep, graphVars
<1>3. ASSUME NEW s \in Reports, NEW a \in AttachFor(s), JobSet(n, s, a)
      PROVE  JobChange(n) /\ UNCHANGED <<run, told>> /\ run[n] # "no"
  <2>1. a \in Attach
    BY <1>1, <1>3, AttachLemma
  <2>2. ~LateCalls /\ IsStopped(st[n]) => IsStopped(s)
    BY <1>3 DEF JobSet
  <2>3. JobChange(n)
    BY <1>1, <1>3, <2>1, <2>2, SetStateLemma DEF JobSet
  <2> QED  BY <1>3, <2>3 DEF JobSet
<1>4. ASSUME NEW s \in JobState, NEW a \in Attach, s # "not-start",
             JobReturn(n, s, a)
      PROVE  /\ JobChange(n) /\ run[n] = "busy"
             /\ run' = [run EXCEPT ![n] = "done"] /\ told' = told
  <2>1. ~LateCalls /\ IsStopped(st[n]) => IsStopped(s)
    BY <1>4 DEF JobReturn
  <2>2. CASE s = "running"
    BY <1>4, <2>2, <2>1, SetStateLemma DEF JobReturn, IsStopped, Attach
  <2>3. CASE s # "running"
    BY <1>4, <2>3, <2>1, SetStateLemma DEF JobReturn
  <2> QED  BY <1>4, <2>2, <2>3 DEF JobReturn
<1>5. ASSUME JobThrow(n)
      PROVE  /\ JobChange(n) /\ run[n] = "busy"
             /\ run' = [run EXCEPT ![n] = "done"] /\ told' = told
  <2>1. CASE MaySet(n, "error-exited")
    <3>1. PICK a \in AttachFor("error-exited") : SetState(n, "error-exited", a, FALSE)
      BY <1>5, <2>1 DEF JobThrow
    <3>2. a \in Attach
      BY <3>1, AttachLemma
    <3>3. JobChange(n)
      BY <3>1, <3>2, SetStateLemma DEF IsStopped
    <3> QED  BY <1>5, <3>3 DEF JobThrow
  <2>2. CASE ~MaySet(n, "error-exited")
    <3>1. UNCHANGED <<st, attach, imm, fresh>> /\ run[n] = "busy"
      BY <1>5, <2>2 DEF JobThrow
    <3>2. JobChange(n)
      BY <3>1 DEF JobChange, TypeOK, Started
    <3> QED  BY <1>5, <3>2 DEF JobThrow
  <2> QED  BY <2>1, <2>2
<1>6. run[n] = "busy" => st[n] \in JobState /\ st[n] # "not-start" /\ attach[n] \in Attach
  BY DEF TypeOK, Started
<1>7. \/ \E s \in Reports : \E a \in AttachFor(s) : JobSet(n, s, a) \/ JobReturn(n, s, a)
      \/ JobReturn(n, st[n], attach[n])
      \/ JobThrow(n)
  BY DEF JobStep
<1>8. CASE \E s \in Reports : \E a \in AttachFor(s) : JobSet(n, s, a)
  BY <1>2, <1>3, <1>8 DEF TypeOK
<1>9. CASE \E s \in Reports : \E a \in AttachFor(s) : JobReturn(n, s, a)
  <2>1. JobChange(n) /\ run[n] = "busy" /\ run' = [run EXCEPT ![n] = "done"] /\ told' = told
    BY <1>1, <1>4, <1>9, AttachLemma
  <2> QED  BY <1>2, <2>1 DEF TypeOK
<1>10. CASE JobReturn(n, st[n], attach[n])
  <2>1. JobChange(n) /\ run[n] = "busy" /\ run' = [run EXCEPT ![n] = "done"] /\ told' = told
    BY <1>4, <1>6, <1>10 DEF JobReturn
  <2> QED  BY <1>2, <2>1 DEF TypeOK
<1>11. CASE JobThrow(n)
  BY <1>2, <1>5, <1>11 DEF TypeOK
<1> QED  BY <1>7, <1>8, <1>9, <1>10, <1>11

-----------------------------------------------------------------------------
(* What pump() changes. *)

\* pump() starts a set of jobs that may start and fit into the free slots, and
\* rejects nothing by itself.
Pumped(chosen, wk, promise, stops) ==
    /\ Execute(chosen)
    /\ \A n \in chosen : ShouldExecute(n)
    /\ chosen # {} => Cardinality(chosen) + Cardinality(wk) <= Concurrency
    /\ working' = wk \union chosen
    /\ phase' \in {"run", "post"}
    /\ stops => phase' = "post"
    /\ deferred' \in {"pending", "resolved", "rejected"}
    /\ deferred' = "rejected" => promise = "rejected"

LEMMA PumpLemma ==
    ASSUME NEW wk \in SUBSET Nodes, NEW promise \in {"pending", "resolved", "rejected"},
           NEW stops \in BOOLEAN, Pump(wk, promise, stops)
    PROVE  \E chosen \in SUBSET Nodes : Pumped(chosen, wk, promise, stops)
<1>1. CASE Finished(wk)
  <2>1. Execute({}) /\ working' = wk \union {} /\ phase' = "post"
    BY <1>1 DEF Pump
  <2>2. deferred' = IF promise = "pending" THEN "resolved" ELSE promise
    BY <1>1 DEF Pump
  <2>3. Pumped({}, wk, promise, stops)
    BY <2>1, <2>2 DEF Pumped
  <2> QED  BY <2>3
<1>2. CASE ~Finished(wk)
  <2>1. PICK chosen \in SUBSET Nodes :
          /\ IsSchedule(chosen, wk)
          /\ Execute(chosen)
          /\ working' = wk \union chosen
          /\ phase' = IF stops THEN "post" ELSE "run"
          /\ deferred' = promise
    BY <1>2 DEF Pump
  <2>2. /\ \A n \in chosen : ShouldExecute(n)
        /\ chosen # {} => Cardinality(chosen) + Cardinality(wk) <= Concurrency
    BY <2>1 DEF IsSchedule
  <2>3. Pumped(chosen, wk, promise, stops)
    BY <2>1, <2>2 DEF Pumped
  <2> QED  BY <2>3
<1> QED  BY <1>1, <1>2

\* The jobs that pump() starts had not started; their dependencies have ended
\* their first run.  All types and the order of the starts are kept.
LEMMA ExecuteLemma ==
    ASSUME TypeOK, Started, StartedInOrder, NEW chosen \in SUBSET Nodes,
           Execute(chosen), \A n \in chosen : ShouldExecute(n)
    PROVE  /\ st' \in [Nodes -> JobState] /\ attach' \in [Nodes -> Attach]
           /\ run' \in [Nodes -> {"no", "busy", "done"}]
           /\ fresh' \in [Nodes -> BOOLEAN]
           /\ \A n \in chosen : st[n] = "not-start" /\ st'[n] = "running"
           /\ \A n \in Nodes \ chosen :
                 st'[n] = st[n] /\ run'[n] = run[n] /\ fresh'[n] = fresh[n]
           /\ Started' /\ StartedInOrder'
<1>1. /\ st' = [n \in Nodes |-> IF n \in chosen THEN "running" ELSE st[n]]
      /\ attach' = [n \in Nodes |-> IF n \in chosen THEN "none" ELSE attach[n]]
      /\ run' = [n \in Nodes |-> IF n \in chosen THEN "busy" ELSE run[n]]
      /\ fresh' = [n \in Nodes |-> n \in chosen \/ fresh[n]]
  BY DEF Execute
<1>2. /\ st' \in [Nodes -> JobState] /\ attach' \in [Nodes -> Attach]
      /\ run' \in [Nodes -> {"no", "busy", "done"}]
  BY <1>1 DEF TypeOK, JobState, Attach
<1>3. fresh' \in [Nodes -> BOOLEAN]
  BY <1>1
<1>4. \A n \in chosen : st[n] = "not-start" /\ st'[n] = "running" /\ run'[n] = "busy"
  BY <1>1 DEF ShouldExecute, IsStarted
<1>5. \A n \in Nodes \ chosen :
        st'[n] = st[n] /\ run'[n] = run[n] /\ fresh'[n] = fresh[n]
  BY <1>1 DEF TypeOK
<1>6. Started'
  BY <1>1, <1>4, <1>5 DEF Started
<1>7. ASSUME NEW n \in Nodes, IsStarted(st'[n]), NEW d \in Deps[n]
      PROVE  IsStarted(st'[d]) /\ ~fresh'[d]
  <2>1. d \in Nodes
    BY GraphAssumption
  <2>2. IsStarted(st[d]) /\ ~fresh[d]
    <3>1. CASE n \in chosen
      <4>1. st[d] \in {"success", "success-exited"}
        BY <2>1, <3>1 DEF ShouldExecute, IsBlocking, TypeOK, JobState
      <4> QED  BY <2>1, <4>1 DEF IsStarted, Started
    <3>2. CASE n \notin chosen
      BY <1>5, <1>7, <3>2 DEF StartedInOrder
    <3> QED  BY <3>1, <3>2
  <2>3. d \notin chosen
    BY <1>4, <2>2 DEF IsStarted
  <2> QED  BY <1>5, <2>1, <2>2, <2>3
<1>8. StartedInOrder'
  BY <1>7 DEF StartedInOrder
<1> QED  BY <1>2, <1>3, <1>4, <1>5, <1>6, <1>8

-----------------------------------------------------------------------------
(* The invariant is inductive. *)

LEMMA IInvInit == Init => IInv
<1> SUFFICES ASSUME Init PROVE IInv
  OBVIOUS
<1>1. TypeOK
  BY NodesFinite DEF Init, TypeOK, JobState, Attach
<1>2. Started /\ BeforeStart /\ StartedInOrder /\ WorkingIsTracked /\ FreshIsWorking
  BY DEF Init, Started, BeforeStart, StartedInOrder, IsStarted, WorkingIsTracked, FreshIsWorking
<1>3. StartLoadBounded
  <2>1. {n \in Nodes : fresh[n]} = {}
    BY DEF Init
  <2>2. Cardinality({n \in Nodes : fresh[n]}) = 0
    BY <2>1, FS_EmptySet
  <2> QED  BY <2>2, GraphAssumption DEF StartLoadBounded
<1>4. StopEndsStart /\ EndsLast
  BY DEF Init, StopEndsStart, EndsLast
<1>5. Joined
  BY DEF Init, Joined
<1> QED  BY <1>1, <1>2, <1>3, <1>4, <1>5 DEF IInv

\* A step of a job.
LEMMA IInvJobStep ==
    ASSUME IInv, NEW n \in Nodes, JobStep(n) PROVE IInv'
<1> USE DEF IInv
<1>1. /\ JobChange(n)
      /\ run' \in [Nodes -> {"no", "busy", "done"}]
      /\ \A m \in Nodes \ {n} : run'[m] = run[m]
      /\ run[n] # "no" /\ run'[n] # "no"
      /\ UNCHANGED <<told, phase, working, deferred, boot, stopping, joiner>>
  BY JobStepLemma
<1>2. st[n] # "not-start"
  BY <1>1 DEF Started
<1>3. TypeOK'
  BY <1>1 DEF TypeOK, JobChange
<1>4. Started'
  BY <1>1 DEF Started, JobChange
<1>5. BeforeStart'
  BY <1>1, <1>2 DEF BeforeStart
<1>6. StartedInOrder'
  <2>1. \A m \in Nodes : IsStarted(st[m]) <=> IsStarted(st'[m])
    BY <1>1, <1>2 DEF JobChange, IsStarted
  <2>2. \A m \in Nodes : fresh'[m] => fresh[m]
    BY <1>1 DEF JobChange
  <2> QED  BY <2>1, <2>2, GraphAssumption DEF StartedInOrder
<1>7. WorkingIsTracked'
  <2>1. \A m \in Nodes : (imm[m] => imm'[m]) /\ (st'[m] = st[m] \/ imm'[m])
    BY <1>1 DEF JobChange
  <2> QED  BY <1>1, <2>1 DEF WorkingIsTracked, TypeOK, JobChange
<1>8. FreshIsWorking'
  BY <1>1 DEF FreshIsWorking, JobChange
<1>9. StartLoadBounded'
  <2>1. {m \in Nodes : fresh'[m]} \subseteq {m \in Nodes : fresh[m]}
    BY <1>1 DEF JobChange
  <2> QED  BY <2>1, FewerLemma DEF StartLoadBounded
<1>10. StopEndsStart' /\ EndsLast'
  BY <1>1 DEF StopEndsStart, EndsLast
<1>11. Joined'
  <2>1. ~LateCalls => \A m \in Nodes : ~Alive(st[m]) => ~Alive(st'[m])
    BY <1>1, <1>2 DEF JobChange, Alive, IsStarted
  <2> QED  BY <1>1, <2>1 DEF Joined
<1> QED  BY <1>3, <1>4, <1>5, <1>6, <1>7, <1>8, <1>9, <1>10, <1>11

\* startup().
LEMMA IInvStartup ==
    ASSUME IInv, Startup PROVE IInv'
<1> USE DEF IInv
<1>1. CASE phase = "post"
  <2>1. /\ UNCHANGED <<st, attach, imm, run, told, fresh>>
        /\ UNCHANGED <<phase, working, deferred, stopping, joiner>>
        /\ boot' \in {"waiting", "resolved"}
    BY <1>1 DEF Startup
  <2>2. TypeOK' /\ Started' /\ BeforeStart' /\ StartedInOrder'
    BY <2>1 DEF TypeOK, Started, BeforeStart, StartedInOrder
  <2>3. WorkingIsTracked' /\ FreshIsWorking' /\ StartLoadBounded'
    BY <2>1 DEF WorkingIsTracked, FreshIsWorking, StartLoadBounded
  <2>4. StopEndsStart' /\ Joined' /\ EndsLast'
    BY <2>1 DEF StopEndsStart, Joined, EndsLast
  <2> QED  BY <2>2, <2>3, <2>4
<1>2. CASE phase # "post"
  <2>1. /\ Pump(working, deferred, FALSE)
        /\ imm' = [m \in Nodes |-> imm[m] \/ st'[m] # st[m]]
        /\ boot' \in {"waiting", "resolved"}
        /\ UNCHANGED <<told, stopping, joiner>>
    BY <1>2 DEF Startup
  <2>2. PICK chosen \in SUBSET Nodes : Pumped(chosen, working, deferred, FALSE)
    BY <2>1, PumpLemma DEF TypeOK
  <2>3. /\ st' \in [Nodes -> JobState] /\ attach' \in [Nodes -> Attach]
        /\ run' \in [Nodes -> {"no", "busy", "done"}]
        /\ fresh' \in [Nodes -> BOOLEAN]
        /\ \A n \in chosen : st[n] = "not-start" /\ st'[n] = "running"
        /\ \A n \in Nodes \ chosen :
              st'[n] = st[n] /\ run'[n] = run[n] /\ fresh'[n] = fresh[n]
        /\ Started' /\ StartedInOrder'
    BY <2>2, ExecuteLemma DEF Pumped
  <2>4. /\ working' = working \union chosen
        /\ phase' \in {"run", "post"}
        /\ deferred' \in {"pending", "resolved", "rejected"}
        /\ deferred' = "rejected" => deferred = "rejected"
        /\ chosen # {} => Cardinality(chosen) + Cardinality(working) <= Concurrency
    BY <2>2 DEF Pumped
  <2>5. TypeOK'
    BY <2>1, <2>3, <2>4 DEF TypeOK
  <2>6. BeforeStart'
    BY <2>4 DEF BeforeStart
  <2>7. WorkingIsTracked'
    <3>1. ASSUME NEW n \in Nodes PROVE (st'[n] = "running" <=> n \in working') \/ imm'[n]
      <4>1. CASE n \in chosen
        BY <2>1, <2>3, <4>1
      <4>2. CASE n \notin chosen
        <5>1. (st[n] = "running" <=> n \in working) \/ imm[n]
          BY <1>2 DEF WorkingIsTracked, BeforeStart, TypeOK
        <5>2. imm'[n] = (imm[n] \/ st'[n] # st[n])
          BY <2>1
        <5>3. st'[n] = st[n] /\ (n \in working' <=> n \in working)
          BY <2>3, <2>4, <4>2
        <5> QED  BY <5>1, <5>2, <5>3
      <4> QED  BY <4>1, <4>2
    <3> QED  BY <3>1 DEF WorkingIsTracked
  <2>8. \A n \in Nodes : fresh[n] => n \in working
    BY <1>2 DEF FreshIsWorking, BeforeStart, Started, TypeOK
  <2>9. \A n \in Nodes : fresh'[n] => n \in working \union chosen
    BY <2>3, <2>8
  <2>10. FreshIsWorking'
    BY <2>4, <2>9 DEF FreshIsWorking
  <2>11. StartLoadBounded'
    <3>1. CASE chosen = {}
      <4>1. {n \in Nodes : fresh'[n]} \subseteq {n \in Nodes : fresh[n]}
        BY <2>3, <3>1
      <4> QED  BY <4>1, FewerLemma DEF StartLoadBounded
    <3>2. CASE chosen # {}
      <4>1. {n \in Nodes : fresh'[n]} \subseteq chosen \union working
        BY <2>9
      <4>2. working \in SUBSET Nodes
        BY DEF TypeOK
      <4> QED  BY <2>4, <3>2, <4>1, <4>2, LoadLemma DEF StartLoadBounded
    <3> QED  BY <3>1, <3>2
  <2>12. StopEndsStart'
    BY <1>2, <2>1, <2>4 DEF StopEndsStart
  <2>13. Joined'
    BY <1>2, <2>1 DEF Joined
  <2>14. EndsLast'
    BY <2>1 DEF EndsLast
  <2> QED  BY <2>3, <2>5, <2>6, <2>7, <2>10, <2>11, <2>12, <2>13, <2>14
<1> QED  BY <1>1, <1>2

\* The event of a job, seen by the Starter: what holds of the jobs, the Starter
\* and the promise afterwards.
LEMMA EventStarterLemma ==
    ASSUME IInv, NEW n \in Nodes, StateEvent(n)
    PROVE  /\ TypeOK' /\ Started' /\ BeforeStart' /\ StartedInOrder'
           /\ WorkingIsTracked' /\ FreshIsWorking' /\ StartLoadBounded'
           /\ StopEndsStart'
           /\ phase = "post" => phase' = "post" /\ st' = st
           /\ IsFatalError(n) => phase' = "post"
           /\ deferred' = "rejected" => phase' = "post"
<1> USE DEF IInv
<1> DEFINE stops == stopping = "no" /\ IsFatalError(n)
           promise == IF deferred = "pending" /\ IsFatalError(n) THEN "rejected" ELSE deferred
<1>1. /\ imm[n]
      /\ imm' = [m \in Nodes |-> st'[m] # st[m] \/ (imm[m] /\ m # n)]
      /\ told' \in [Nodes -> BOOLEAN]
      /\ joiner' \in [Joiners -> 0 .. Last + 1]
      /\ stopping' \in {"no", "stopping", "joining", "stopped", "failed"}
      /\ stops => stopping' = "stopping"
      /\ stopping # "no" => stopping' # "no"
      /\ stopping = "no" /\ ~stops => stopping' = "no"
  <2>1. told' \in [Nodes -> BOOLEAN]
    BY DEF StateEvent, TellJobs, TypeOK
  <2> QED  BY <2>1 DEF StateEvent, TypeOK
<1>2. boot' \in {"no", "waiting", "joining", "resolved", "rejected"}
  BY DEF StateEvent, BootStep, TypeOK
<1>3. phase # "pre"
  BY <1>1 DEF BeforeStart
<1>4. CASE phase = "post"
  <2>1. UNCHANGED <<st, attach, run, fresh, working, phase, deferred>>
    BY <1>4 DEF StateEvent
  <2>2. TypeOK'
    BY <1>1, <1>2, <2>1 DEF TypeOK
  <2>3. Started' /\ BeforeStart' /\ StartedInOrder'
    BY <1>4, <2>1 DEF Started, BeforeStart, StartedInOrder
  <2>4. WorkingIsTracked' /\ FreshIsWorking' /\ StartLoadBounded'
    BY <1>4, <2>1 DEF WorkingIsTracked, FreshIsWorking, StartLoadBounded
  <2>5. StopEndsStart'
    BY <1>1, <1>4, <2>1 DEF StopEndsStart
  <2> QED  BY <1>4, <2>1, <2>2, <2>3, <2>4, <2>5
<1>5. CASE phase = "run"
  <2> DEFINE wk == WorkingAfter(n)
  <2>1. Pump(wk, promise, stops)
    BY <1>5 DEF StateEvent
  <2>2. /\ wk \in SUBSET Nodes
        /\ st[n] = "running" <=> n \in wk
        /\ \A m \in Nodes \ {n} : m \in wk <=> m \in working
    BY DEF WorkingAfter, TypeOK
  <2>3. promise \in {"pending", "resolved", "rejected"} /\ stops \in BOOLEAN
    BY DEF TypeOK
  <2>4. PICK chosen \in SUBSET Nodes : Pumped(chosen, wk, promise, stops)
    <3> HIDE DEF wk, promise, stops
    <3> QED  BY <2>1, <2>2, <2>3, PumpLemma
  <2>5. /\ st' \in [Nodes -> JobState] /\ attach' \in [Nodes -> Attach]
        /\ run' \in [Nodes -> {"no", "busy", "done"}]
        /\ fresh' \in [Nodes -> BOOLEAN]
        /\ \A m \in chosen : st[m] = "not-start" /\ st'[m] = "running"
        /\ \A m \in Nodes \ chosen :
              st'[m] = st[m] /\ run'[m] = run[m] /\ fresh'[m] = fresh[m]
        /\ Started' /\ StartedInOrder'
    BY <2>4, ExecuteLemma DEF Pumped
  <2>6. /\ working' = wk \union chosen
        /\ phase' \in {"run", "post"}
        /\ stops => phase' = "post"
        /\ deferred' \in {"pending", "resolved", "rejected"}
        /\ deferred' = "rejected" => promise = "rejected"
        /\ chosen # {} => Cardinality(chosen) + Cardinality(wk) <= Concurrency
    BY <2>4 DEF Pumped
  <2>7. stopping = "no"
    BY <1>5 DEF StopEndsStart
  <2>8. promise = "rejected" => stops
    BY <2>7 DEF StopEndsStart
  <2>9. IsFatalError(n) => stops
    BY <2>7
  <2> HIDE DEF wk, promise, stops
  <2>10. TypeOK'
    BY <1>1, <1>2, <2>2, <2>5, <2>6 DEF TypeOK
  <2>11. BeforeStart'
    BY <2>6 DEF BeforeStart
  <2>12. WorkingIsTracked'
    <3>1. ASSUME NEW m \in Nodes PROVE (st'[m] = "running" <=> m \in working') \/ imm'[m]
      <4>1. CASE m \in chosen
        BY <1>1, <2>5, <4>1
      <4>2. CASE m \notin chosen
        <5>1. st'[m] = st[m] /\ (m \in working' <=> m \in wk)
          BY <2>5, <2>6, <4>2
        <5>2. CASE m = n
          BY <2>2, <5>1, <5>2
        <5>3. CASE m # n
          <6>1. (st[m] = "running" <=> m \in working) \/ imm[m]
            BY <1>5 DEF WorkingIsTracked
          <6>2. m \in wk <=> m \in working
            BY <2>2, <5>3
          <6>3. imm[m] => imm'[m]
            BY <1>1, <5>3
          <6> QED  BY <5>1, <6>1, <6>2, <6>3
        <5> QED  BY <5>2, <5>3
      <4> QED  BY <4>1, <4>2
    <3> QED  BY <3>1 DEF WorkingIsTracked
  <2>13. \A m \in Nodes : fresh[m] => m \in wk
    BY <1>5, <2>2 DEF FreshIsWorking, Started
  <2>14. \A m \in Nodes : fresh'[m] => m \in wk \union chosen
    BY <2>5, <2>13
  <2>15. FreshIsWorking'
    BY <2>6, <2>14 DEF FreshIsWorking
  <2>16. StartLoadBounded'
    <3>1. CASE chosen = {}
      <4>1. {m \in Nodes : fresh'[m]} \subseteq {m \in Nodes : fresh[m]}
        BY <2>5, <3>1
      <4> QED  BY <4>1, FewerLemma DEF StartLoadBounded
    <3>2. CASE chosen # {}
      <4>1. {m \in Nodes : fresh'[m]} \subseteq chosen \union wk
        BY <2>14
      <4> QED  BY <2>2, <2>6, <3>2, <4>1, LoadLemma DEF StartLoadBounded
    <3> QED  BY <3>1, <3>2
  <2>17. StopEndsStart'
    BY <1>1, <2>6, <2>7, <2>8 DEF StopEndsStart
  <2> QED  BY <1>5, <2>5, <2>6, <2>8, <2>9, <2>10, <2>11, <2>12, <2>15, <2>16, <2>17
<1> QED  BY <1>3, <1>4, <1>5 DEF TypeOK

\* The event of a job.
LEMMA IInvStateEvent ==
    ASSUME IInv, NEW n \in Nodes, StateEvent(n) PROVE IInv'
<1> USE DEF IInv
<1>1. /\ TypeOK' /\ Started' /\ BeforeStart' /\ StartedInOrder'
      /\ WorkingIsTracked' /\ FreshIsWorking' /\ StartLoadBounded'
      /\ StopEndsStart'
      /\ phase = "post" => phase' = "post" /\ st' = st
      /\ deferred' = "rejected" => phase' = "post"
  BY EventStarterLemma
<1>2. Joined'
  <2> SUFFICES ASSUME ~LateCalls, NEW p \in Joiners, joiner'[p] # 0,
                      NEW m \in Nodes
               PROVE  phase' = "post" /\ (Index[m] < joiner'[p] => ~Alive(st'[m]))
    BY DEF Joined
  <2>1. /\ Index[m] \in 1 .. Last /\ Index[n] \in 1 .. Last
        /\ Index[m] = Index[n] => m = n
        /\ joiner[p] \in 0 .. Last + 1 /\ joiner'[p] \in 0 .. Last + 1
        /\ Last \in Nat
    BY <1>1, GraphAssumption, NodesFinite DEF TypeOK
  <2>2. CASE p = "startup" /\ boot = "waiting" /\ deferred' = "rejected"
    <3>1. JoinAllFrom(p, 1)
      BY <2>2 DEF StateEvent
    <3>2. Index[m] < joiner'[p] => Index[m] \in 1 .. (joiner'[p] - 1)
      BY <2>1
    <3>3. Index[m] < joiner'[p] => ~Alive(st'[m])
      BY <3>1, <3>2 DEF JoinAllFrom
    <3> QED  BY <1>1, <2>2, <3>3
  <2>3. CASE /\ ~(p = "startup" /\ boot = "waiting" /\ deferred' = "rejected")
             /\ joiner[p] = Index[n] /\ IsStopped(st[n])
    <3>1. JoinAllFrom(p, Index[n] + 1)
      BY <2>3 DEF StateEvent
    <3>2. phase = "post" /\ (Index[m] < Index[n] => ~Alive(st[m]))
      BY <2>1, <2>3 DEF Joined
    <3>3. ~Alive(st[n])
      BY <2>3 DEF Alive
    <3>4. Index[m] < joiner'[p] =>
            Index[m] < Index[n] \/ m = n \/ Index[m] \in (Index[n] + 1) .. (joiner'[p] - 1)
      BY <2>1
    <3>5. Index[m] \in (Index[n] + 1) .. (joiner'[p] - 1) => ~Alive(st'[m])
      BY <3>1 DEF JoinAllFrom
    <3> QED  BY <1>1, <3>2, <3>3, <3>4, <3>5
  <2>4. CASE /\ ~(p = "startup" /\ boot = "waiting" /\ deferred' = "rejected")
             /\ ~(joiner[p] = Index[n] /\ IsStopped(st[n]))
    <3>1. joiner'[p] = joiner[p]
      BY <2>4 DEF StateEvent
    <3>2. phase = "post" /\ (Index[m] < joiner[p] => ~Alive(st[m]))
      BY <3>1 DEF Joined
    <3> QED  BY <1>1, <3>1, <3>2
  <2> QED  BY <2>2, <2>3, <2>4
<1>3. \A p \in Joiners : joiner[p] > Last =>
          joiner'[p] > Last \/ (p = "startup" /\ boot = "waiting")
  <2> SUFFICES ASSUME NEW p \in Joiners, joiner[p] > Last,
                      ~(p = "startup" /\ boot = "waiting")
               PROVE  joiner'[p] > Last
    OBVIOUS
  <2>1. joiner[p] # Index[n]
    BY GraphAssumption, NodesFinite DEF TypeOK
  <2>2. joiner'[p] = joiner[p]
    BY <2>1 DEF StateEvent
  <2> QED  BY <2>2
<1>4. EndsLast'
  <2>1. boot' = "rejected" => joiner'["startup"] > Last
    <3>1. CASE boot = "rejected"
      BY <1>3, <3>1 DEF EndsLast, Joiners
    <3>2. CASE boot # "rejected"
      BY <3>2 DEF StateEvent, BootStep
    <3> QED  BY <3>1, <3>2
  <2>2. stopping' = "stopped" => joiner'["stop"] > Last
    <3>1. CASE stopping = "stopped"
      BY <1>3, <3>1 DEF EndsLast, Joiners
    <3>2. CASE stopping # "stopped"
      BY <3>2 DEF StateEvent
    <3> QED  BY <3>1, <3>2
  <2> QED  BY <2>1, <2>2 DEF EndsLast
<1> QED  BY <1>1, <1>2, <1>4

\* stop() called by the owner.
LEMMA IInvStop ==
    ASSUME IInv, Stop PROVE IInv'
<1> USE DEF IInv
<1>1. /\ phase' = "post" /\ stopping' = "stopping"
      /\ UNCHANGED <<st, attach, imm, run, fresh, working, deferred, boot, joiner>>
      /\ told' \in [Nodes -> BOOLEAN]
  BY DEF Stop, TellJobs, TypeOK
<1>2. TypeOK' /\ Started' /\ BeforeStart' /\ StartedInOrder'
  BY <1>1 DEF TypeOK, Started, BeforeStart, StartedInOrder
<1>3. WorkingIsTracked' /\ FreshIsWorking' /\ StartLoadBounded'
  BY <1>1 DEF WorkingIsTracked, FreshIsWorking, StartLoadBounded
<1>4. StopEndsStart' /\ Joined' /\ EndsLast'
  BY <1>1 DEF StopEndsStart, Joined, EndsLast
<1> QED  BY <1>2, <1>3, <1>4

\* stop() begins to join.
LEMMA IInvStopJoin ==
    ASSUME IInv, StopJoin PROVE IInv'
<1> USE DEF IInv
<1>1. /\ stopping = "stopping" /\ phase = "post"
      /\ UNCHANGED <<st, attach, imm, run, told, fresh, working, phase, deferred, boot>>
      /\ joiner' \in [Joiners -> 0 .. Last + 1]
      /\ joiner'["startup"] = joiner["startup"]
      /\ JoinAllFrom("stop", 1)
      /\ stopping' = IF joiner'["stop"] > Last THEN "stopped" ELSE "joining"
  BY DEF StopJoin, StopEndsStart
<1>2. TypeOK' /\ Started' /\ BeforeStart' /\ StartedInOrder'
  BY <1>1 DEF TypeOK, Started, BeforeStart, StartedInOrder
<1>3. WorkingIsTracked' /\ FreshIsWorking' /\ StartLoadBounded'
  BY <1>1 DEF WorkingIsTracked, FreshIsWorking, StartLoadBounded
<1>4. StopEndsStart' /\ EndsLast'
  BY <1>1 DEF StopEndsStart, EndsLast
<1>5. Joined'
  <2> SUFFICES ASSUME ~LateCalls, NEW p \in Joiners, joiner'[p] # 0,
                      NEW m \in Nodes, Index[m] < joiner'[p]
               PROVE  ~Alive(st'[m])
    BY <1>1 DEF Joined
  <2>1. CASE p = "startup"
    BY <1>1, <2>1 DEF Joined
  <2>2. CASE p = "stop"
    <3>1. Index[m] \in 1 .. (joiner'[p] - 1)
      BY <1>1, GraphAssumption, NodesFinite
    <3> QED  BY <1>1, <2>2, <3>1 DEF JoinAllFrom
  <2> QED  BY <2>1, <2>2 DEF Joiners
<1> QED  BY <1>2, <1>3, <1>4, <1>5

\* stop() gives up.
LEMMA IInvStopTimeout ==
    ASSUME IInv, StopTimeout PROVE IInv'
<1> USE DEF IInv
<1>1. /\ stopping = "stopping" /\ stopping' = "failed"
      /\ UNCHANGED <<st, attach, imm, run, told, fresh>>
      /\ UNCHANGED <<phase, working, deferred, boot, joiner>>
  BY DEF StopTimeout, jobVars
<1>2. TypeOK' /\ Started' /\ BeforeStart' /\ StartedInOrder'
  BY <1>1 DEF TypeOK, Started, BeforeStart, StartedInOrder
<1>3. WorkingIsTracked' /\ FreshIsWorking' /\ StartLoadBounded'
  BY <1>1 DEF WorkingIsTracked, FreshIsWorking, StartLoadBounded
<1>4. StopEndsStart' /\ Joined' /\ EndsLast'
  BY <1>1 DEF StopEndsStart, Joined, EndsLast
<1> QED  BY <1>2, <1>3, <1>4

\* Nothing happens.
LEMMA IInvStutter ==
    ASSUME IInv, UNCHANGED vars PROVE IInv'
<1> USE DEF IInv, vars
<1>1. TypeOK' /\ Started' /\ BeforeStart' /\ StartedInOrder'
  BY DEF TypeOK, Started, BeforeStart, StartedInOrder
<1>2. WorkingIsTracked' /\ FreshIsWorking' /\ StartLoadBounded'
  BY DEF WorkingIsTracked, FreshIsWorking, StartLoadBounded
<1>3. StopEndsStart' /\ Joined' /\ EndsLast'
  BY DEF StopEndsStart, Joined, EndsLast
<1> QED  BY <1>1, <1>2, <1>3

LEMMA IInvStep == IInv /\ [Next]_vars => IInv'
<1> SUFFICES ASSUME IInv, [Next]_vars PROVE IInv'
  OBVIOUS
<1>1. CASE Startup
  BY <1>1, IInvStartup
<1>2. CASE \E n \in Nodes : StateEvent(n)
  BY <1>2, IInvStateEvent
<1>3. CASE Stop
  BY <1>3, IInvStop
<1>4. CASE StopJoin
  BY <1>4, IInvStopJoin
<1>5. CASE StopTimeout
  BY <1>5, IInvStopTimeout
<1>6. CASE \E n \in Nodes : JobStep(n)
  BY <1>6, IInvJobStep
<1>7. CASE UNCHANGED vars
  BY <1>7, IInvStutter
<1> QED  BY <1>1, <1>2, <1>3, <1>4, <1>5, <1>6, <1>7 DEF Next, GraphStep

\* Every behaviour of the graph keeps the invariant; fairness is not needed.
THEOREM IInvHolds == Init /\ [][Next]_vars => []IInv
BY IInvInit, IInvStep, PTL

-----------------------------------------------------------------------------
(* Theorems. *)

\* The jobs, the Starter and the graph keep their types, for every graph.
THEOREM TypeCorrect == Spec => []TypeOK
<1>1. IInv => TypeOK
  BY DEF IInv
<1> QED  BY <1>1, IInvHolds, PTL DEF Spec

\* Starter.shouldExecuteNode and pump: no job overtakes what it depends on.
THEOREM InOrder == Spec => []StartedInOrder
<1>1. IInv => StartedInOrder
  BY DEF IInv
<1> QED  BY <1>1, IInvHolds, PTL DEF Spec

\* Starter.checkRemoveWorking: the working set is late but never wrong.
THEOREM Tracked == Spec => []WorkingIsTracked
<1>1. IInv => WorkingIsTracked
  BY DEF IInv
<1> QED  BY <1>1, IInvHolds, PTL DEF Spec

\* Starter.pump: first runs never exceed graph.concurrency.
THEOREM LoadBounded == Spec => []StartLoadBounded
<1>1. IInv => StartLoadBounded
  BY DEF IInv
<1> QED  BY <1>1, IInvHolds, PTL DEF Spec

\* JobGraph.stop: when it has returned, no job is left, provided that jobs do
\* not set their state after their end.
THEOREM StoppedLast ==
    ASSUME ~LateCalls PROVE Spec => []StoppedMeansStopped
<1>1. IInv => StoppedMeansStopped
  <2> SUFFICES ASSUME IInv, stopping = "stopped", NEW n \in Nodes
               PROVE  ~Alive(st[n])
    BY DEF StoppedMeansStopped
  <2>1. joiner["stop"] > Last /\ joiner["stop"] \in 0 .. Last + 1
    BY DEF IInv, EndsLast, TypeOK, Joiners
  <2>2. Index[n] < joiner["stop"] /\ joiner["stop"] # 0
    BY <2>1, GraphAssumption, NodesFinite
  <2> QED  BY <2>2 DEF IInv, Joined, Joiners
<1> QED  BY <1>1, IInvHolds, PTL DEF Spec

\* JobGraph.startup: it does not reject before all jobs are over, provided that
\* jobs do not set their state after their end.
THEOREM RejectedLast ==
    ASSUME ~LateCalls PROVE Spec => []RejectedAfterJoin
<1>1. IInv => RejectedAfterJoin
  <2> SUFFICES ASSUME IInv, boot = "rejected", NEW n \in Nodes
               PROVE  ~Alive(st[n])
    BY DEF RejectedAfterJoin
  <2>1. joiner["startup"] > Last /\ joiner["startup"] \in 0 .. Last + 1
    BY DEF IInv, EndsLast, TypeOK, Joiners
  <2>2. Index[n] < joiner["startup"] /\ joiner["startup"] # 0
    BY <2>1, GraphAssumption, NodesFinite
  <2> QED  BY <2>2 DEF IInv, Joined, Joiners
<1> QED  BY <1>1, IInvHolds, PTL DEF Spec

\* Once stop() was called, or startup() knows of a failure, no job starts.
LEMMA StopStep ==
    IInv /\ [Next]_vars =>
        [stopping # "no" \/ deferred = "rejected" =>
            \A n \in Nodes : run'[n] = "busy" => run[n] = "busy"]_vars
<1> SUFFICES ASSUME IInv, Next, stopping # "no" \/ deferred = "rejected",
                    NEW n \in Nodes, run'[n] = "busy"
             PROVE  run[n] = "busy"
  OBVIOUS
<1>1. phase = "post"
  BY DEF IInv, StopEndsStart
<1>2. CASE Startup
  BY <1>1, <1>2 DEF Startup
<1>3. CASE \E m \in Nodes : StateEvent(m)
  BY <1>1, <1>3 DEF StateEvent
<1>4. CASE Stop
  BY <1>4 DEF Stop
<1>5. CASE StopJoin
  BY <1>5 DEF StopJoin
<1>6. CASE StopTimeout
  BY <1>6 DEF StopTimeout, jobVars
<1>7. CASE \E m \in Nodes : JobStep(m)
  BY <1>7, JobStepLemma DEF IInv
<1> QED  BY <1>2, <1>3, <1>4, <1>5, <1>6, <1>7 DEF Next, GraphStep

THEOREM NothingStarts == Spec => NoStartAfterStop
BY StopStep, IInvHolds, PTL DEF Spec, NoStartAfterStop

-----------------------------------------------------------------------------
(* WorkerGraph: the inductive invariant, on top of IInv. *)

\* A job whose process runs is alive.
BusyIsAlive == \A n \in Nodes : run[n] = "busy" => Alive(st[n])

\* Only a job that has ended failed for good.
FatalHasEnded == \A n \in Nodes : attach[n] = "unrecoverable" => st[n] = "error-exited"

\* Workers are told to stop only after the start phase.
ToldIsPost == \A n \in Nodes : told[n] => phase = "post"

\* A job that counts as successful has a worker that is, unless it was told to
\* stop: then it may have been killed while it was running.
SuccessIsBuilt ==
    \A n \in Nodes : ~told[n] /\ ~IsBlocking(st[n]) => wst[n] = "succeed"

WInv ==
    /\ IInv
    /\ wst \in [Nodes -> WorkerClientState]
    /\ BusyIsAlive
    /\ FatalHasEnded
    /\ ToldIsPost
    /\ SuccessIsBuilt

-----------------------------------------------------------------------------
(* Steps of the processes are steps of jobs. *)

\* What a worker emits is something a job may report.
LEMMA EmittedLemma ==
    ASSUME NEW w \in Emitted
    PROVE  /\ JobStateOf(w) \in Reports /\ JobStateOf(w) \in JobState
           /\ JobStateOf(w) \notin {"not-start", "error-exited", "success-exited"}
           /\ AttachOf(w) \in AttachFor(JobStateOf(w))
           /\ AttachOf(w) \in Attach /\ AttachOf(w) # "unrecoverable"
           /\ JobStateOf(w) = "success" => w = "succeed"
           /\ w \in WorkerClientState
<1>1. CASE w = "started"
  <2>1. JobStateOf(w) = "running" /\ AttachOf(w) = "none"
    BY <1>1 DEF JobStateOf, AttachOf
  <2>2. AttachFor("running") = {"none"}
    BY DEF AttachFor
  <2> QED  BY <1>1, <2>1, <2>2, WorkerAssumption DEF JobState, Attach, WorkerClientState
<1>2. CASE w = "succeed"
  <2>1. JobStateOf(w) = "success" /\ AttachOf(w) = "data"
    BY <1>2 DEF JobStateOf, AttachOf
  <2>2. AttachFor("success") = {"data"}
    BY DEF AttachFor
  <2> QED  BY <1>2, <2>1, <2>2, WorkerAssumption DEF JobState, Attach, WorkerClientState
<1>3. CASE w = "failed"
  <2>1. JobStateOf(w) = "error" /\ AttachOf(w) = "error"
    BY <1>3 DEF JobStateOf, AttachOf
  <2>2. AttachFor("error") = {"error", "unrecoverable"}
    BY DEF AttachFor
  <2> QED  BY <1>3, <2>1, <2>2, WorkerAssumption DEF JobState, Attach, WorkerClientState
<1> QED  BY <1>1, <1>2, <1>3 DEF Emitted

\* A message is a report of the job, or lost in fireNoError.
LEMMA MessageLemma ==
    ASSUME WInv, NEW n \in Nodes, NEW w \in Emitted, Message(n, w)
    PROVE  JobStep(n) \/ UNCHANGED vars
<1> USE DEF WInv
<1>1. CASE MaySet(n, JobStateOf(w))
  <2>1. SetState(n, JobStateOf(w), AttachOf(w), FALSE)
    BY <1>1 DEF Message, Emit
  <2>2. \/ run[n] = "busy" /\ ~IsStopped(st[n])
        \/ run[n] # "no" /\ LateCalls
    BY DEF Message, BusyIsAlive, Alive
  <2>3. JobSet(n, JobStateOf(w), AttachOf(w))
    BY <1>1, <2>1, <2>2 DEF JobSet, Message
  <2> QED  BY <2>3, EmittedLemma DEF JobStep, Message
<1>2. CASE ~MaySet(n, JobStateOf(w))
  BY <1>2 DEF Message, Emit, vars, graphVars
<1> QED  BY <1>1, <1>2

\* The ends a job of a process can come to.
LEMMA OutcomeCases ==
    ASSUME NEW n \in Nodes, NEW w
    PROVE  \/ Outcome(n, w) = [state |-> "error-exited", attach |-> "unrecoverable"]
           \/ /\ Outcome(n, w) = [state |-> "success-exited", attach |-> "data"]
              /\ w = "succeed"
           \/ Outcome(n, w) = [state |-> "error-exited", attach |-> "error"]
           \/ /\ Outcome(n, w) = [state |-> "running", attach |-> "none"]
              /\ told[n] \/ w \notin {"succeed", "failed"}
<1>1. CASE Mode = "watch" /\ ~told[n]
  BY <1>1 DEF Outcome
<1>2. CASE ~(Mode = "watch" /\ ~told[n]) /\ w = "succeed"
  BY <1>2 DEF Outcome
<1>3. CASE ~(Mode = "watch" /\ ~told[n]) /\ w = "failed"
  BY <1>3 DEF Outcome
<1>4. CASE ~(Mode = "watch" /\ ~told[n]) /\ w # "succeed" /\ w # "failed"
  BY <1>4 DEF Outcome
<1> QED  BY <1>1, <1>2, <1>3, <1>4

\* How the job of a process ends is something a job may report.
LEMMA OutcomeLemma ==
    ASSUME NEW n \in Nodes, NEW w
    PROVE  LET end == Outcome(n, w) IN
           /\ end.state \in Reports
           /\ end.attach \in AttachFor(end.state)
<1> DEFINE end == Outcome(n, w)
<1>1. CASE end = [state |-> "error-exited", attach |-> "unrecoverable"]
  <2>1. AttachFor("error-exited") = {"error", "unrecoverable"}
    BY DEF AttachFor
  <2> QED  BY <1>1, <2>1, WorkerAssumption
<1>2. CASE end = [state |-> "success-exited", attach |-> "data"]
  <2>1. AttachFor("success-exited") = {"data"}
    BY DEF AttachFor
  <2> QED  BY <1>2, <2>1, WorkerAssumption
<1>3. CASE end = [state |-> "error-exited", attach |-> "error"]
  <2>1. AttachFor("error-exited") = {"error", "unrecoverable"}
    BY DEF AttachFor
  <2> QED  BY <1>3, <2>1, WorkerAssumption
<1>4. CASE end = [state |-> "running", attach |-> "none"]
  <2>1. AttachFor("running") = {"none"}
    BY DEF AttachFor
  <2> QED  BY <1>4, <2>1, WorkerAssumption
<1>5. \/ end = [state |-> "error-exited", attach |-> "unrecoverable"]
      \/ end = [state |-> "success-exited", attach |-> "data"]
      \/ end = [state |-> "error-exited", attach |-> "error"]
      \/ end = [state |-> "running", attach |-> "none"]
  BY OutcomeCases
<1> QED  BY <1>1, <1>2, <1>3, <1>4, <1>5

\* The end of a process is the end of its job.
LEMMA ExitLemma ==
    ASSUME NEW n \in Nodes, NEW ok, WorkerExit(n, ok)
    PROVE  JobStep(n)
<1> DEFINE end == Outcome(n, LastEmitted(n, ok))
<1>1. JobReturn(n, end.state, end.attach) /\ UNCHANGED graphVars
  BY DEF WorkerExit
<1>2. end.state \in Reports /\ end.attach \in AttachFor(end.state)
  BY OutcomeLemma
<1> HIDE DEF end
<1> QED  BY <1>1, <1>2 DEF JobStep

\* Every step is a step of the graph of jobs, or none.
LEMMA StepLemma ==
    ASSUME WInv, [WorkersNext]_allVars PROVE [Next]_vars
<1>1. CASE WorkersGraphStep
  BY <1>1 DEF WorkersGraphStep, Next
<1>2. CASE \E n \in Nodes : \E w \in Emitted : Message(n, w)
  BY <1>2, MessageLemma DEF Next
<1>3. CASE \E n \in Nodes : \E ok \in BOOLEAN : WorkerExit(n, ok)
  BY <1>3, ExitLemma DEF Next
<1>4. CASE UNCHANGED allVars
  BY <1>4 DEF allVars
<1> QED  BY <1>1, <1>2, <1>3, <1>4 DEF WorkersNext, ProcessStep

-----------------------------------------------------------------------------
(* The invariant is inductive. *)

LEMMA WInvInit == WorkersInit => WInv
<1> SUFFICES ASSUME WorkersInit PROVE WInv
  OBVIOUS
<1>1. IInv
  BY IInvInit DEF WorkersInit
<1>2. wst \in [Nodes -> WorkerClientState]
  BY DEF WorkersInit, WorkerClientState
<1>3. BusyIsAlive /\ FatalHasEnded /\ ToldIsPost /\ SuccessIsBuilt
  BY DEF WorkersInit, Init, BusyIsAlive, FatalHasEnded, ToldIsPost, SuccessIsBuilt, IsBlocking
<1> QED  BY <1>1, <1>2, <1>3 DEF WInv

\* A message.
LEMMA WInvMessage ==
    ASSUME WInv, IInv', NEW n \in Nodes, NEW w \in Emitted, Message(n, w)
    PROVE  WInv'
<1> USE DEF WInv
<1> DEFINE s == JobStateOf(w)
           a == AttachOf(w)
<1>1. /\ s \in JobState /\ s \notin {"not-start", "error-exited", "success-exited"}
      /\ a # "unrecoverable" /\ (s = "success" => w = "succeed") /\ w \in WorkerClientState
  BY EmittedLemma
<1>2. /\ wst' = [wst EXCEPT ![n] = w] /\ ~told[n]
      /\ UNCHANGED <<run, told, phase>>
      /\ \/ MaySet(n, s) /\ SetState(n, s, a, FALSE)
         \/ ~MaySet(n, s) /\ UNCHANGED <<st, attach>>
  BY DEF Message, Emit, graphVars
<1> HIDE DEF s, a
<1>3. wst' \in [Nodes -> WorkerClientState] /\ wst'[n] = w
      /\ \A m \in Nodes \ {n} : wst'[m] = wst[m]
  BY <1>1, <1>2
<1>4. CASE MaySet(n, s)
  <2>1. /\ st'[n] = s /\ attach'[n] = a
        /\ \A m \in Nodes \ {n} : st'[m] = st[m] /\ attach'[m] = attach[m]
    BY <1>2, <1>4 DEF SetState, IInv, TypeOK
  <2>2. BusyIsAlive'
    BY <1>1, <1>2, <2>1 DEF BusyIsAlive, Alive, IsStarted, IsStopped
  <2>3. FatalHasEnded'
    BY <1>1, <2>1 DEF FatalHasEnded
  <2>4. SuccessIsBuilt'
    <3>1. ASSUME NEW m \in Nodes, ~told'[m], ~IsBlocking(st'[m]) PROVE wst'[m] = "succeed"
      <4>1. CASE m = n
        BY <1>1, <1>3, <2>1, <3>1, <4>1 DEF IsBlocking
      <4>2. CASE m # n
        BY <1>2, <1>3, <2>1, <3>1, <4>2 DEF SuccessIsBuilt
      <4> QED  BY <4>1, <4>2
    <3> QED  BY <3>1 DEF SuccessIsBuilt
  <2>5. ToldIsPost'
    BY <1>2 DEF ToldIsPost
  <2> QED  BY <1>3, <2>2, <2>3, <2>4, <2>5
<1>5. CASE ~MaySet(n, s)
  <2>1. UNCHANGED <<st, attach>>
    BY <1>2, <1>5
  <2>2. st[n] = "error-exited"
    BY <1>5 DEF MaySet, IsFatalError, FatalHasEnded
  <2>3. BusyIsAlive' /\ FatalHasEnded' /\ ToldIsPost'
    BY <1>2, <2>1 DEF BusyIsAlive, FatalHasEnded, ToldIsPost
  <2>4. SuccessIsBuilt'
    <3>1. ASSUME NEW m \in Nodes, ~told'[m], ~IsBlocking(st'[m]) PROVE wst'[m] = "succeed"
      <4>1. CASE m = n
        BY <2>1, <2>2, <3>1, <4>1 DEF IsBlocking
      <4>2. CASE m # n
        BY <1>2, <1>3, <2>1, <3>1, <4>2 DEF SuccessIsBuilt
      <4> QED  BY <4>1, <4>2
    <3> QED  BY <3>1 DEF SuccessIsBuilt
  <2> QED  BY <1>3, <2>3, <2>4
<1> QED  BY <1>4, <1>5

\* The end of a process.
LEMMA WInvExit ==
    ASSUME WInv, IInv', NEW n \in Nodes, NEW ok \in BOOLEAN, WorkerExit(n, ok)
    PROVE  WInv'
<1> USE DEF WInv
<1> DEFINE w == LastEmitted(n, ok)
           end == Outcome(n, w)
<1>1. /\ wst' = [wst EXCEPT ![n] = w]
      /\ JobReturn(n, end.state, end.attach)
      /\ UNCHANGED phase
  BY DEF WorkerExit, graphVars
<1>2. w \in WorkerClientState
  BY DEF LastEmitted, WorkerClientState
<1>3. ~told[n] => w \in {"failed", "succeed"}
  BY DEF LastEmitted
<1>4. \/ /\ end.state = "error-exited"
         /\ end.attach \in Attach
      \/ /\ end.state = "success-exited" /\ end.attach = "data"
         /\ w = "succeed"
      \/ /\ end.state = "running" /\ end.attach = "none"
         /\ told[n]
  <2>1. \/ end = [state |-> "error-exited", attach |-> "unrecoverable"]
        \/ end = [state |-> "success-exited", attach |-> "data"] /\ w = "succeed"
        \/ end = [state |-> "error-exited", attach |-> "error"]
        \/ /\ end = [state |-> "running", attach |-> "none"]
           /\ told[n] \/ w \notin {"succeed", "failed"}
    BY OutcomeCases
  <2> HIDE DEF w, end
  <2> QED  BY <1>3, <2>1 DEF Attach
<1> HIDE DEF w, end
<1>5. /\ run' = [run EXCEPT ![n] = "done"] /\ told' = told
      /\ st'[n] = IF end.state = "running" THEN "success-exited" ELSE end.state
      /\ attach'[n] = IF end.state = "running" THEN "data" ELSE end.attach
      /\ \A m \in Nodes \ {n} : st'[m] = st[m] /\ attach'[m] = attach[m]
  BY <1>1 DEF JobReturn, SetState, IInv, TypeOK
<1>6. /\ run'[n] = "done"
      /\ \A m \in Nodes \ {n} : run'[m] = run[m] /\ wst'[m] = wst[m]
      /\ wst'[n] = w
      /\ wst' \in [Nodes -> WorkerClientState]
  BY <1>1, <1>2, <1>5 DEF IInv, TypeOK
<1>7. BusyIsAlive'
  BY <1>5, <1>6 DEF BusyIsAlive
<1>8. FatalHasEnded'
  BY <1>4, <1>5 DEF FatalHasEnded
<1>9. ToldIsPost'
  BY <1>1, <1>5 DEF ToldIsPost
<1>10. SuccessIsBuilt'
  <2>1. ASSUME NEW m \in Nodes, ~told'[m], ~IsBlocking(st'[m]) PROVE wst'[m] = "succeed"
    <3>1. CASE m = n
      BY <1>4, <1>5, <1>6, <2>1, <3>1 DEF IsBlocking
    <3>2. CASE m # n
      BY <1>5, <1>6, <2>1, <3>2 DEF SuccessIsBuilt
    <3> QED  BY <3>1, <3>2
  <2> QED  BY <2>1 DEF SuccessIsBuilt
<1> QED  BY <1>6, <1>7, <1>8, <1>9, <1>10

\* What a step of the graph does to the jobs: it starts jobs whose dependencies
\* do not block, while nobody was told to stop, and tells jobs to stop only when
\* the start phase is over.
LEMMA GraphStepLemma ==
    ASSUME IInv, GraphStep
    PROVE  /\ \A n \in Nodes :
                \/ st'[n] = st[n] /\ attach'[n] = attach[n] /\ run'[n] = run[n]
                \/ /\ phase # "post" /\ run[n] = "no" /\ ShouldExecute(n)
                   /\ st'[n] = "running" /\ attach'[n] = "none" /\ run'[n] = "busy"
           /\ phase = "post" => phase' = "post"
           /\ \A n \in Nodes : (told[n] => told'[n]) /\ (told'[n] => told[n] \/ phase' = "post")
<1> USE DEF IInv
<1>1. ASSUME NEW chosen \in SUBSET Nodes, Execute(chosen), phase # "post",
             \A n \in chosen : ShouldExecute(n)
      PROVE  \A n \in Nodes :
                \/ st'[n] = st[n] /\ attach'[n] = attach[n] /\ run'[n] = run[n]
                \/ /\ phase # "post" /\ run[n] = "no" /\ ShouldExecute(n)
                   /\ st'[n] = "running" /\ attach'[n] = "none" /\ run'[n] = "busy"
  <2> SUFFICES ASSUME NEW n \in Nodes
               PROVE  \/ st'[n] = st[n] /\ attach'[n] = attach[n] /\ run'[n] = run[n]
                      \/ /\ phase # "post" /\ run[n] = "no" /\ ShouldExecute(n)
                         /\ st'[n] = "running" /\ attach'[n] = "none" /\ run'[n] = "busy"
    OBVIOUS
  <2>1. CASE n \in chosen
    <3>1. st'[n] = "running" /\ attach'[n] = "none" /\ run'[n] = "busy"
      BY <1>1, <2>1 DEF Execute
    <3>2. run[n] = "no"
      BY <1>1, <2>1 DEF ShouldExecute, IsStarted, Started
    <3> QED  BY <1>1, <2>1, <3>1, <3>2
  <2>2. CASE n \notin chosen
    BY <1>1, <2>2 DEF Execute
  <2> QED  BY <2>1, <2>2
<1>2. CASE Startup
  <2>1. CASE phase = "post"
    BY <1>2, <2>1 DEF Startup
  <2>2. CASE phase # "post"
    <3>1. Pump(working, deferred, FALSE) /\ told' = told
      BY <1>2, <2>2 DEF Startup
    <3>2. PICK chosen \in SUBSET Nodes : Pumped(chosen, working, deferred, FALSE)
      BY <3>1, PumpLemma DEF TypeOK
    <3> QED  BY <1>1, <2>2, <3>1, <3>2 DEF Pumped
  <2> QED  BY <2>1, <2>2
<1>3. CASE \E n \in Nodes : StateEvent(n)
  <2> PICK n \in Nodes : StateEvent(n)
    BY <1>3
  <2>1. /\ phase = "post" => phase' = "post"
        /\ IsFatalError(n) => phase' = "post"
    BY EventStarterLemma
  <2>2. \A m \in Nodes : (told[m] => told'[m]) /\ (told'[m] => told[m] \/ phase' = "post")
    <3>1. CASE stopping = "no" /\ IsFatalError(n)
      BY <2>1, <3>1 DEF StateEvent, TellJobs, TypeOK
    <3>2. CASE ~(stopping = "no" /\ IsFatalError(n))
      BY <3>2 DEF StateEvent
    <3> QED  BY <3>1, <3>2
  <2>3. CASE phase = "post"
    BY <2>1, <2>2, <2>3 DEF StateEvent
  <2>4. CASE phase # "post"
    <3> DEFINE stops == stopping = "no" /\ IsFatalError(n)
               promise == IF deferred = "pending" /\ IsFatalError(n) THEN "rejected" ELSE deferred
               wk == WorkingAfter(n)
    <3>1. Pump(wk, promise, stops)
      BY <2>4 DEF StateEvent
    <3>2. /\ promise \in {"pending", "resolved", "rejected"} /\ stops \in BOOLEAN
          /\ wk \in SUBSET Nodes
      BY DEF TypeOK, WorkingAfter
    <3> HIDE DEF stops, promise, wk
    <3>3. PICK chosen \in SUBSET Nodes : Pumped(chosen, wk, promise, stops)
      BY <3>1, <3>2, PumpLemma
    <3> QED  BY <1>1, <2>2, <2>4, <3>3 DEF Pumped
  <2> QED  BY <2>3, <2>4
<1>4. CASE Stop
  <2>1. /\ UNCHANGED <<st, attach, run>> /\ phase' = "post"
        /\ told' = [n \in Nodes |-> told[n] \/ Alive(st'[n])]
    BY <1>4 DEF Stop, TellJobs
  <2> QED  BY <2>1
<1>5. CASE StopJoin
  BY <1>5 DEF StopJoin
<1>6. CASE StopTimeout
  BY <1>6 DEF StopTimeout, jobVars
<1> QED  BY <1>2, <1>3, <1>4, <1>5, <1>6 DEF GraphStep

\* A step of the graph.
LEMMA WInvGraphStep ==
    ASSUME WInv, IInv', WorkersGraphStep PROVE WInv'
<1> USE DEF WInv
<1>1. /\ \A n \in Nodes :
           \/ st'[n] = st[n] /\ attach'[n] = attach[n] /\ run'[n] = run[n]
           \/ /\ phase # "post" /\ run[n] = "no" /\ ShouldExecute(n)
              /\ st'[n] = "running" /\ attach'[n] = "none" /\ run'[n] = "busy"
      /\ phase = "post" => phase' = "post"
      /\ \A n \in Nodes : (told[n] => told'[n]) /\ (told'[n] => told[n] \/ phase' = "post")
  BY GraphStepLemma DEF WorkersGraphStep
<1>2. wst' = [n \in Nodes |-> IF run[n] = "no" /\ run'[n] = "busy" THEN "executing" ELSE wst[n]]
  BY DEF WorkersGraphStep, Executing
<1>3. wst' \in [Nodes -> WorkerClientState]
  BY <1>2 DEF WorkerClientState
<1>4. BusyIsAlive'
  BY <1>1 DEF BusyIsAlive, Alive, IsStarted, IsStopped
<1>5. FatalHasEnded'
  BY <1>1 DEF FatalHasEnded
<1>6. ToldIsPost'
  BY <1>1 DEF ToldIsPost
<1>7. SuccessIsBuilt'
  <2>1. ASSUME NEW n \in Nodes, ~told'[n], ~IsBlocking(st'[n]) PROVE wst'[n] = "succeed"
    <3>1. st'[n] # "running"
      BY <2>1 DEF IsBlocking
    <3>2. st'[n] = st[n] /\ run'[n] = run[n]
      BY <1>1, <3>1
    <3>3. wst'[n] = wst[n]
      BY <1>2, <3>2
    <3> QED  BY <1>1, <2>1, <3>2, <3>3 DEF SuccessIsBuilt
  <2> QED  BY <2>1 DEF SuccessIsBuilt
<1> QED  BY <1>3, <1>4, <1>5, <1>6, <1>7

LEMMA WInvStep == WInv /\ [WorkersNext]_allVars => WInv'
<1> SUFFICES ASSUME WInv, [WorkersNext]_allVars PROVE WInv'
  OBVIOUS
<1>1. IInv'
  BY StepLemma, IInvStep DEF WInv
<1>2. CASE WorkersGraphStep
  BY <1>1, <1>2, WInvGraphStep
<1>3. CASE \E n \in Nodes : \E w \in Emitted : Message(n, w)
  BY <1>1, <1>3, WInvMessage
<1>4. CASE \E n \in Nodes : \E ok \in BOOLEAN : WorkerExit(n, ok)
  BY <1>1, <1>4, WInvExit
<1>5. CASE UNCHANGED allVars
  BY <1>1, <1>5 DEF allVars, vars, WInv, BusyIsAlive, FatalHasEnded, ToldIsPost, SuccessIsBuilt
<1> QED  BY <1>2, <1>3, <1>4, <1>5 DEF WorkersNext, ProcessStep

THEOREM WInvHolds == WorkersSpec => []WInv
BY WInvInit, WInvStep, PTL DEF WorkersSpec

-----------------------------------------------------------------------------
(* Theorems. *)

\* The types of jobs and workers; a process sends no more messages than it may.
THEOREM WorkersTypeCorrect == WorkersSpec => []WorkersTypeOK
<1> DEFINE Budget == budget \in [Nodes -> 0 .. MaxMessages]
<1>1. WorkersInit => Budget
  BY WorkerAssumption DEF WorkersInit
<1>2. Budget /\ [WorkersNext]_allVars => Budget'
  <2> SUFFICES ASSUME Budget, [WorkersNext]_allVars PROVE Budget'
    OBVIOUS
  <2>1. CASE WorkersGraphStep
    BY <2>1 DEF WorkersGraphStep
  <2>2. ASSUME NEW n \in Nodes, NEW w \in Emitted, Message(n, w) PROVE Budget'
    <3>1. budget[n] \in 0 .. MaxMessages /\ budget[n] > 0
      BY <2>2 DEF Message
    <3>2. budget[n] - 1 \in 0 .. MaxMessages
      BY <3>1, WorkerAssumption
    <3>3. budget' = [budget EXCEPT ![n] = budget[n] - 1]
      BY <2>2 DEF Message
    <3> QED BY <3>2, <3>3
  <2>3. ASSUME NEW n \in Nodes, NEW ok \in BOOLEAN, WorkerExit(n, ok) PROVE Budget'
    <3>1. UNCHANGED budget
      BY <2>3 DEF WorkerExit
    <3> QED BY <3>1
  <2>4. CASE UNCHANGED allVars
    BY <2>4 DEF allVars
  <2> QED BY <2>1, <2>2, <2>3, <2>4 DEF WorkersNext, ProcessStep
<1>3. WInv /\ Budget => WorkersTypeOK
  BY DEF WInv, IInv, WorkersTypeOK
<1> QED BY <1>1, <1>2, <1>3, WInvHolds, PTL DEF WorkersSpec

\* A graph of workers (WorkersManager) is a graph of jobs: EventTranslate makes
\* every message and every end of a process a step a job may take.
THEOREM WorkersImplementJobs == WorkersSpec => ImplementsJobGraph
<1>1. WorkersInit => Init
  BY DEF WorkersInit
<1>2. WInv /\ [WorkersNext]_allVars => [Next]_vars
  BY StepLemma
<1> QED  BY <1>1, <1>2, WInvHolds, PTL DEF WorkersSpec, ImplementsJobGraph

\* stop() and a rejected startup() leave no process behind, provided that no
\* message is read after the end of a process.
THEOREM NoProcessLeft ==
    ASSUME ~LateCalls PROVE WorkersSpec => []NoOrphan
<1>1. WInv => NoOrphan
  <2> SUFFICES ASSUME WInv, stopping = "stopped" \/ boot = "rejected",
                      NEW n \in Nodes, run[n] = "busy"
               PROVE  FALSE
    BY DEF NoOrphan
  <2>1. Alive(st[n])
    BY DEF WInv, BusyIsAlive
  <2>2. PICK p \in Joiners : joiner[p] > Last
    BY DEF WInv, IInv, EndsLast, Joiners
  <2>3. Index[n] < joiner[p] /\ joiner[p] # 0
    BY <2>2, GraphAssumption, NodesFinite DEF WInv, IInv, TypeOK
  <2> QED  BY <2>1, <2>3 DEF WInv, IInv, Joined
<1> QED  BY <1>1, WInvHolds, PTL

\* A process starts only when the workers it depends on have succeeded, and not
\* merely because they were killed.
LEMMA StartStep ==
    WInv /\ [WorkersNext]_allVars =>
        [\A n \in Nodes : run[n] = "no" /\ run'[n] # "no" =>
            \A d \in Deps[n] : wst[d] = "succeed"]_allVars
<1> SUFFICES ASSUME WInv, WorkersNext, NEW n \in Nodes,
                    run[n] = "no", run'[n] # "no", NEW d \in Deps[n]
             PROVE  wst[d] = "succeed"
  OBVIOUS
<1> USE DEF WInv
<1>1. d \in Nodes
  BY GraphAssumption
<1>2. CASE WorkersGraphStep
  <2>1. phase # "post" /\ ShouldExecute(n)
    BY <1>2, GraphStepLemma DEF WorkersGraphStep
  <2>2. ~told[d] /\ ~IsBlocking(st[d])
    BY <1>1, <2>1 DEF ToldIsPost, ShouldExecute
  <2> QED  BY <1>1, <2>2 DEF SuccessIsBuilt
<1>3. CASE \E m \in Nodes : \E w \in Emitted : Message(m, w)
  BY <1>3 DEF Message
<1>4. CASE \E m \in Nodes : \E ok \in BOOLEAN : WorkerExit(m, ok)
  <2> PICK m \in Nodes, ok \in BOOLEAN : WorkerExit(m, ok)
    BY <1>4
  <2>1. run[m] = "busy" /\ run' = [run EXCEPT ![m] = "done"]
    BY DEF WorkerExit, JobReturn
  <2> QED  BY <2>1 DEF IInv, TypeOK
<1> QED  BY <1>2, <1>3, <1>4 DEF WorkersNext, ProcessStep

THEOREM StartsOnBuilt == WorkersSpec => StartAfterBuilt
BY StartStep, WInvHolds, PTL DEF WorkersSpec, StartAfterBuilt

\* What was proved of jobs holds of workers; for instance, no more processes
\* make their first run at once than graph.concurrency allows.
THEOREM WorkersLoadBounded == WorkersSpec => []StartLoadBounded
<1>1. WInv => StartLoadBounded
  BY DEF WInv, IInv
<1> QED  BY <1>1, WInvHolds, PTL
=============================================================================
