-------------------------------- MODULE Codegen --------------------------------
(***************************************************************************)
(* @build-script/codegen in watch mode, for one generator: WatchHelper     *)
(* calls runOnce() with the files that changed, runOnce() asks the         *)
(* generator whether it must be compiled or executed, and a SpawnExecuter  *)
(* does both through a process (Session) that has imported the generator.  *)
(* Nothing awaits runOnce(), so several passes run at the same time;       *)
(* execute() is wrapped by makeQueuedLatest(), build() is not.             *)
(*                                                                         *)
(* A step is what runs between two awaits, of the program or of one of its *)
(* child processes.  shutdown(66) ends the model.  Messages to the parent  *)
(* process, the text of results and generators that appear or vanish are   *)
(* left out.                                                               *)
(***************************************************************************)
EXTENDS Naturals

CONSTANTS
    MaxEdits,       \* bound on the edits of all files
    MaxPasses,      \* bound on the passes at one time
    MaxSessions,    \* bound on the sessions in use at one time
    Faults          \* what may go wrong besides

ASSUME CodegenAssumption ==
    /\ MaxEdits \in Nat /\ MaxPasses \in Nat \ {0} /\ MaxSessions \in Nat \ {0}
    /\ Faults \subseteq {"generate", "timeout", "crash"}

\* The generator with what it imports, a file its runs ask to be watched, by its
\* own name or by that of its folder, and one nobody asks for.
Files == {"source", "data", "other"}

VARIABLES
    disk,           \* version of each file
    unreported,     \* files whose last edit chokidar has not reported
    watched,        \* which of the two the runs put into userWatchFiles
    state, timer, changes, run,     \* WatchHelper
    pass,           \* the calls of runOnce()
    result,         \* this.result of the generator
    built,          \* this.built
    loop,           \* runLoop() of makeQueuedLatest
    builds,         \* the calls of build() and of _rebuild(), by who awaits them
    session,        \* this.session, or 0
    proc,           \* the Session objects and their processes
    ran,            \* the data the last run began with, and the code that answered last
    ended           \* shutdown(66) was called

W == INSTANCE WatchHelper WITH Paths <- Files

diskVars == <<disk, unreported, watched>>
watchVars == <<state, timer, changes, run>>
execVars == <<result, loop, ran>>
buildVars == <<built, builds, session, proc>>
vars == <<diskVars, watchVars, pass, execVars, buildVars, ended>>

Passes == 1..MaxPasses
Sessions == 1..MaxSessions

\* Who awaits a build: a pass, runLoop(), or nobody after a timeout.
Loop == 0
Nobody == MaxPasses + 1
Callers == Passes \union {Loop, Nobody}

NoPass == [at |-> "free", trigger |-> {}, seen |-> [f \in Files |-> 0]]
NoBuild == [at |-> "none", session |-> 0]
NoProc == [is |-> "exited", ready |-> FALSE, code |-> 0, call |-> "no"]

TypeOK ==
    /\ W!TypeOK
    /\ disk \in [Files -> Nat] /\ unreported \subseteq Files
    /\ watched \in {"file", "folder"}
    /\ pass \in [Passes -> [at : {"free", "configure", "building", "pool", "waiting"},
                            trigger : SUBSET Files, seen : [Files -> Nat]]]
    /\ result \in {"none", "success", "failure"}
    /\ loop \in [at : {"idle", "build", "execute", "ended"}, queued : BOOLEAN,
                 on : Sessions \union {0}]
    /\ builds \in [Callers -> [at : {"none", "dispose", "initialize"},
                               session : Sessions \union {0}]]
    /\ session \in Sessions \union {0}
    /\ proc \in [Sessions -> [is : {"alive", "quitting", "exited"},
                              ready : BOOLEAN, code : Nat,
                              call : {"no", "sent", "lost"}]]
    /\ built \in BOOLEAN /\ ended \in BOOLEAN

\* startWatchMode() begins with executeAll(), triggered by the source files.
Init ==
    /\ disk = [f \in Files |-> 0] /\ unreported = {}
    /\ watched \in {"file", "folder"}
    /\ W!Init
    /\ pass = [p \in Passes |->
                IF p = 1 THEN [NoPass EXCEPT !.at = "configure", !.trigger = {"source"}]
                ELSE NoPass]
    /\ result = "none" /\ built = FALSE
    /\ loop = [at |-> "idle", queued |-> FALSE, on |-> 0]
    /\ builds = [c \in Callers |-> NoBuild]
    /\ session = 0
    /\ proc = [s \in Sessions |-> NoProc]
    /\ ran = [data |-> 0, code |-> 0]
    /\ ended = FALSE

-----------------------------------------------------------------------------
(* Files, and the watcher. *)

Edit(f) ==
    /\ ~ended /\ disk["source"] + disk["data"] + disk["other"] < MaxEdits
    /\ disk' = [disk EXCEPT ![f] = @ + 1]
    /\ unreported' = unreported \union {f}
    /\ UNCHANGED <<watched, watchVars, pass, execVars, buildVars, ended>>

Report(f) ==
    /\ ~ended /\ f \in unreported
    /\ unreported' = unreported \ {f}
    /\ W!Event({f}, FALSE)
    /\ UNCHANGED <<disk, watched, pass, execVars, buildVars, ended>>

WatchTimer ==
    /\ ~ended
    /\ W!Debounced
    /\ UNCHANGED <<diskVars, pass, execVars, buildVars, ended>>

\* onChange: runOnce() begins.
WatchCall(p) ==
    /\ ~ended
    /\ pass[p].at = "free" /\ \A q \in 1..(p - 1) : pass[q].at # "free"
    /\ W!Call
    /\ pass' = [pass EXCEPT ![p] =
                    [at |-> "configure", trigger |-> run.batch,
                     seen |-> [f \in Files |-> IF f \in run.batch THEN disk[f] ELSE 0]]]
    /\ UNCHANGED <<diskVars, execVars, buildVars, ended>>

WatchSettle ==
    /\ ~ended
    /\ W!Settle
    /\ UNCHANGED <<diskVars, pass, execVars, buildVars, ended>>

-----------------------------------------------------------------------------
(* build() and _rebuild() *)

\* A new Session for the caller c; objects nobody refers to are used again.
Spawn(c) ==
    \E s \in Sessions :
        LET unused == {t \in Sessions : /\ proc[t].is = "exited" /\ t # session
                                        /\ \A d \in Callers : builds[d].session # t \/ d = c}
        IN  /\ s \in unused /\ \A t \in unused : s <= t
            /\ proc' = [proc EXCEPT ![s] = [NoProc EXCEPT !.is = "alive"]]
            /\ builds' = [builds EXCEPT ![c] = [at |-> "initialize", session |-> s]]
            /\ session' = s

\* The session there is is disposed first.
Build(c) ==
    IF session = 0
    THEN Spawn(c)
    ELSE /\ proc' = [proc EXCEPT ![session].is = IF @ = "alive" THEN "quitting" ELSE @]
         /\ builds' = [builds EXCEPT ![c] = [at |-> "dispose", session |-> session]]
         /\ UNCHANGED session

\* Its process is gone.
BuildSpawns(c) ==
    /\ ~ended
    /\ builds[c].at = "dispose" /\ proc[builds[c].session].is = "exited"
    /\ Spawn(c)
    /\ UNCHANGED <<diskVars, watchVars, pass, execVars, built, ended>>

Awaited(s) == loop.at = "execute" /\ loop.on = s

\* The child imports the generator and says so.  If it cannot, it says that and
\* ends, which to the program is the same as ending first.
ProcLoads(s) ==
    /\ ~ended
    /\ proc[s].is # "exited" /\ ~proc[s].ready
    /\ proc' = [proc EXCEPT ![s].ready = TRUE, ![s].code = disk["source"]]
    /\ UNCHANGED <<diskVars, watchVars, pass, execVars, built, builds, session, ended>>

\* A process ends.  The run that awaits its answer throws, which execute() takes
\* for a defect of its own.
ProcExits(s) ==
    /\ ~ended
    /\ \/ proc[s].is = "quitting"
       \/ proc[s].is = "alive" /\ "crash" \in Faults
    /\ proc' = [proc EXCEPT ![s].is = "exited", ![s].call = "no"]
    /\ ended' = Awaited(s)
    /\ UNCHANGED <<diskVars, watchVars, pass, execVars, built, builds, session>>

-----------------------------------------------------------------------------
(* execute(): one turn of runLoop(). *)

\* executeOnce() throws if the session executes still or its process is gone, and
\* shutdown(66) follows.  A session that is being disposed sends nothing.  A
\* message to a process that does not listen yet may be refused, which nobody
\* catches.
ExecuteOnce(turn, data) ==
    LET p == proc[session]
    IN  /\ loop' = [turn EXCEPT !.at = "execute", !.on = session]
        /\ ran' = [ran EXCEPT !.data = data]
        /\ IF p.call # "no" \/ p.is = "exited"
           THEN ended' = TRUE /\ UNCHANGED proc
           ELSE /\ ended' \in {FALSE, p.is = "alive" /\ ~p.ready}
                /\ proc' = [proc EXCEPT ![session].call =
                                IF p.is = "alive" THEN "sent" ELSE "lost"]

StartRun(turn) ==
    /\ result' = "none"
    /\ IF built
       THEN ExecuteOnce(turn, disk["data"]) /\ UNCHANGED <<built, builds, session>>
       ELSE /\ Build(Loop)
            /\ loop' = [turn EXCEPT !.at = "build"]
            /\ ran' = [ran EXCEPT !.data = disk["data"]]
            /\ UNCHANGED <<built, ended>>

\* The child has run the generator it imported, be it after it was asked to.  Late
\* answers end the call all the same.
Answer(s, outcome) ==
    /\ ~ended
    /\ proc[s].call = "sent" /\ proc[s].ready
    /\ outcome = "failure" => "generate" \in Faults
    /\ proc' = [proc EXCEPT ![s].call = "no"]
    /\ IF Awaited(s)
       THEN /\ result' = outcome /\ loop' = [loop EXCEPT !.at = "ended"]
            /\ ran' = [ran EXCEPT !.code = proc[s].code]
       ELSE UNCHANGED execVars
    /\ UNCHANGED <<diskVars, watchVars, pass, built, builds, session, ended>>

\* 30 seconds have passed; the call goes on.
ExecuteTimeout ==
    /\ ~ended
    /\ "timeout" \in Faults
    /\ loop.at = "execute"
    /\ result' = "failure" /\ loop' = [loop EXCEPT !.at = "ended"]
    /\ UNCHANGED <<diskVars, watchVars, pass, ran, buildVars, ended>>

\* Mutant: calls during the run get its result, and there is no other run.
LoopTurnsOnce ==
    /\ ~ended
    /\ loop.at = "ended"
    /\ loop' = [at |-> "idle", queued |-> FALSE, on |-> 0]
    /\ pass' = [p \in Passes |-> IF pass[p].at = "waiting" THEN NoPass ELSE pass[p]]
    /\ UNCHANGED <<result, ran, buildVars, ended>>
    /\ UNCHANGED <<diskVars, watchVars>>

\* Mutant: only callers of a successful run are answered.
LoopTurnsUnlessFailed ==
    /\ ~ended
    /\ loop.at = "ended"
    /\ IF loop.queued
       THEN StartRun([loop EXCEPT !.queued = FALSE]) /\ UNCHANGED pass
       ELSE /\ loop' = [at |-> "idle", queued |-> FALSE, on |-> 0]
            /\ pass' = [p \in Passes |->
                            IF pass[p].at = "waiting" /\ result = "success" THEN NoPass
                            ELSE pass[p]]
            /\ UNCHANGED <<result, ran, buildVars, ended>>
    /\ UNCHANGED <<diskVars, watchVars>>

\* A run that was called meanwhile is run again; then all callers are answered.
LoopTurns ==
    /\ ~ended
    /\ loop.at = "ended"
    /\ IF loop.queued
       THEN StartRun([loop EXCEPT !.queued = FALSE]) /\ UNCHANGED pass
       ELSE /\ loop' = [at |-> "idle", queued |-> FALSE, on |-> 0]
            /\ pass' = [p \in Passes |-> IF pass[p].at = "waiting" THEN NoPass ELSE pass[p]]
            /\ UNCHANGED <<result, ran, buildVars, ended>>
    /\ UNCHANGED <<diskVars, watchVars>>

-----------------------------------------------------------------------------
(* runOnce() *)

\* shouldExecute(): the files the generator watches come before its own, which
\* are looked at only after a success.  For a file in a watched folder it is
\* compiled again.
ShouldExecute(trigger) ==
    IF result # "success" \/ (watched = "file" /\ "data" \in trigger) THEN "NeedExecute"
    ELSE IF {"source", "data"} \cap trigger # {} THEN "NeedCompile"
    ELSE "NoNeed"

\* configureCodeGenerators() is done, and executeRelated() asks the generator.
Configured(p) ==
    /\ ~ended
    /\ pass[p].at = "configure"
    /\ LET reason == ShouldExecute(pass[p].trigger)
       IN  \/ /\ reason = "NeedExecute"
              /\ pass' = [pass EXCEPT ![p].at = "pool"]
              /\ UNCHANGED <<proc, builds, session>>
           \/ /\ reason = "NeedCompile"
              /\ pass' = [pass EXCEPT ![p].at = "building"]
              /\ Build(p)
           \/ /\ reason = "NoNeed"
              /\ pass' = [pass EXCEPT ![p] = NoPass]
              /\ UNCHANGED <<proc, builds, session>>
    /\ UNCHANGED <<diskVars, watchVars, execVars, built, ended>>

\* The pool calls execute().
Pooled(p) ==
    /\ ~ended
    /\ pass[p].at = "pool"
    /\ pass' = [pass EXCEPT ![p].at = "waiting"]
    /\ IF loop.at = "idle"
       THEN StartRun(loop)
       ELSE loop' = [loop EXCEPT !.queued = TRUE] /\ UNCHANGED <<result, ran, buildVars, ended>>
    /\ UNCHANGED <<diskVars, watchVars>>

\* build() has ended: in runLoop() the generator is executed next, or the run
\* fails; a pass goes to the pool, or runOnce() catches what it calls unexpected.
BuildEnds(c, ok) ==
    /\ ~ended
    /\ builds[c].at = "initialize"
    /\ LET p == proc[builds[c].session]
       IN  IF ok THEN p.ready
           ELSE (~p.ready /\ p.is = "exited") \/ "timeout" \in Faults
    /\ builds' = [builds EXCEPT ![c] = NoBuild]
    /\ built' = (built \/ (ok /\ c # Nobody))
    /\ \/ c = Loop /\ ok /\ ExecuteOnce(loop, ran.data) /\ UNCHANGED pass
       \/ /\ c = Loop /\ ~ok
          /\ loop' = [loop EXCEPT !.at = "ended"]
          /\ UNCHANGED <<proc, ran, ended, pass>>
       \/ /\ c \in Passes /\ ok
          /\ pass' = [pass EXCEPT ![c].at = "pool"]
          /\ UNCHANGED <<proc, loop, ran, ended>>
       \/ /\ c \in Passes /\ ~ok
          /\ ended' = TRUE
          /\ UNCHANGED <<proc, loop, ran, pass>>
       \/ c = Nobody /\ UNCHANGED <<proc, loop, ran, ended, pass>>
    /\ UNCHANGED <<diskVars, watchVars, result, session>>

\* 10 seconds have passed before the old process was gone; _rebuild() goes on.
BuildTimeout(c) ==
    /\ ~ended
    /\ "timeout" \in Faults
    /\ builds[c].at = "dispose" /\ builds[Nobody] = NoBuild
    /\ IF c = Loop
       THEN /\ loop' = [loop EXCEPT !.at = "ended"]
            /\ builds' = [builds EXCEPT ![c] = NoBuild, ![Nobody] = builds[c]]
            /\ UNCHANGED ended
       ELSE c \in Passes /\ ended' = TRUE /\ UNCHANGED <<loop, builds>>
    /\ UNCHANGED <<diskVars, watchVars, pass, result, ran, built, session, proc>>

-----------------------------------------------------------------------------

\* What goes on by itself: chokidar, timers, and what was awaited.
Program ==
    \/ \E f \in Files : Report(f)
    \/ WatchTimer
    \/ \E p \in Passes : WatchCall(p)
    \/ WatchSettle
    \/ \E p \in Passes : Configured(p) \/ Pooled(p)
    \/ \E c \in Callers : BuildSpawns(c) \/ BuildTimeout(c)
    \/ \E c \in Callers, ok \in BOOLEAN : BuildEnds(c, ok)
    \/ ExecuteTimeout
    \/ LoopTurns

Child ==
    \/ \E s \in Sessions : ProcLoads(s) \/ ProcExits(s)
    \/ \E s \in Sessions, outcome \in {"success", "failure"} : Answer(s, outcome)

Next == Program \/ Child \/ \E f \in Files : Edit(f)

\* As long as the program or a child can go on, one of them does.
Fairness == WF_vars(Program \/ Child)

Spec == Init /\ [][Next]_vars /\ Fairness

-----------------------------------------------------------------------------
(* Properties. *)

\* Whoever calls execute() is answered by a run that began with the files as
\* they were when the change was passed on, or later; so says makeQueuedLatest().
AnsweredByLaterRun ==
    [][\A p \in Passes : pass[p].at = "waiting" /\ pass'[p].at = "free" =>
            ran.data >= pass[p].seen["data"]]_vars

\* Every version of a file the generator watches reaches a run, unless the
\* program ends.
ChangeReachesRun ==
    \A v \in 1..MaxEdits : disk["data"] >= v ~> ran.data >= v \/ ended

\* No pass is left waiting.
PassEnds == \A p \in Passes : pass[p].at # "free" ~> pass[p].at = "free" \/ ended

\* "the source file has changed and should be compiled again": the answer to a
\* pass that was told of a change of the source comes from code as new as that.
RunsReportedSource ==
    [][\A p \in Passes : pass[p].at = "waiting" /\ pass'[p].at = "free" =>
            ran.code >= pass[p].seen["source"]]_vars
=============================================================================
