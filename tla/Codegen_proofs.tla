----------------------------- MODULE Codegen_proofs -----------------------------
(***************************************************************************)
(* What makeQueuedLatest() promises to the passes of codegen, for any      *)
(* number of edits, passes and sessions and whatever goes wrong: the run   *)
(* that answers a pass began after the change the pass was told of.        *)
(*                                                                         *)
(* A pass that waits has its answer ahead: either another run is queued,   *)
(* or the run that goes on began with what the pass has seen.              *)
(***************************************************************************)
EXTENDS Codegen, TLAPS

PassType == [at : {"free", "configure", "building", "pool", "waiting"},
             trigger : SUBSET Files, seen : [Files -> Nat]]
LoopType == [at : {"idle", "build", "execute", "ended"}, queued : BOOLEAN,
             on : Sessions \union {0}]
BuildType == [at : {"none", "dispose", "initialize"}, session : Sessions \union {0}]
ProcType == [is : {"alive", "quitting", "exited"}, ready : BOOLEAN, code : Nat,
             call : {"no", "sent", "lost"}]

\* ran.code is what a process told; the argument does not need it.
RanIsRecord == ran = [data |-> ran.data, code |-> ran.code] /\ ran.data \in Nat

FilesTypes ==
    /\ disk \in [Files -> Nat] /\ unreported \subseteq Files /\ watched \in {"file", "folder"}
    /\ W!TypeOK

BuildsTypes ==
    /\ builds \in [Callers -> BuildType]
    /\ session \in Sessions \union {0}
    /\ proc \in [Sessions -> ProcType]

RunTypes ==
    /\ result \in {"none", "success", "failure"}
    /\ loop \in LoopType
    /\ RanIsRecord
    /\ built \in BOOLEAN /\ ended \in BOOLEAN

Types == FilesTypes /\ BuildsTypes /\ RunTypes /\ pass \in [Passes -> PassType]

\* Nobody has seen more than there is.
SeenIsOnDisk == \A p \in Passes : pass[p].seen["data"] <= disk["data"]

\* Who waits, waits for a run that is queued or that has read enough.
AnswerAhead ==
    \A p \in Passes : pass[p].at = "waiting" =>
        /\ loop.at # "idle"
        /\ loop.queued \/ ran.data >= pass[p].seen["data"]

IInv == Types /\ SeenIsOnDisk /\ AnswerAhead

-----------------------------------------------------------------------------
(* Builds and runs. *)

\* The file versions the proofs speak of.
LEMMA FilesLemma ==
    ASSUME disk \in [Files -> Nat]
    PROVE  disk["source"] \in Nat /\ disk["data"] \in Nat /\ disk["other"] \in Nat
BY DEF Files

\* A new session, and a session that is disposed, are of their types.
LEMMA BuildLemma ==
    ASSUME BuildsTypes, NEW c \in Callers, Build(c) \/ Spawn(c)
    PROVE  BuildsTypes'
<1>1. CASE Spawn(c)
  <2>1. PICK s \in Sessions :
            /\ proc' = [proc EXCEPT ![s] = [NoProc EXCEPT !.is = "alive"]]
            /\ builds' = [builds EXCEPT ![c] = [at |-> "initialize", session |-> s]]
            /\ session' = s
    BY <1>1 DEF Spawn
  <2>2. [NoProc EXCEPT !.is = "alive"] \in ProcType
    BY DEF NoProc, ProcType
  <2>3. [at |-> "initialize", session |-> s] \in BuildType
    BY DEF BuildType
  <2> QED BY <2>1, <2>2, <2>3 DEF BuildsTypes
<1>2. CASE session # 0 /\ Build(c)
  <2>1. /\ proc' = [proc EXCEPT ![session].is = IF @ = "alive" THEN "quitting" ELSE @]
        /\ builds' = [builds EXCEPT ![c] = [at |-> "dispose", session |-> session]]
        /\ session' = session
    BY <1>2 DEF Build
  <2>2. [at |-> "dispose", session |-> session] \in BuildType
    BY DEF BuildsTypes, BuildType
  <2>3. builds' \in [Callers -> BuildType]
    BY <2>1, <2>2 DEF BuildsTypes
  <2>4. proc' \in [Sessions -> ProcType]
    BY <2>1 DEF BuildsTypes, ProcType
  <2> QED BY <2>1, <2>3, <2>4 DEF BuildsTypes
<1> QED BY <1>1, <1>2 DEF Build

\* executeOnce() keeps the data its run began with.
LEMMA ExecuteLemma ==
    ASSUME BuildsTypes, RanIsRecord,
           NEW turn \in LoopType, NEW data \in Nat, ExecuteOnce(turn, data)
    PROVE  /\ loop' \in LoopType /\ loop'.at = "execute" /\ loop'.queued = turn.queued
           /\ RanIsRecord' /\ ran'.data = data
           /\ ended' \in BOOLEAN
           /\ proc' \in [Sessions -> ProcType]
<1>1. /\ loop' = [turn EXCEPT !.at = "execute", !.on = session]
      /\ ran' = [ran EXCEPT !.data = data]
  BY DEF ExecuteOnce
<1>2. session \in Sessions \union {0}
  BY DEF BuildsTypes
<1>3. loop' \in LoopType /\ loop'.at = "execute" /\ loop'.queued = turn.queued
  BY <1>1, <1>2 DEF LoopType
<1>4. RanIsRecord' /\ ran'.data = data
  BY <1>1 DEF RanIsRecord
<1>5. \/ ended' = TRUE /\ UNCHANGED proc
      \/ /\ ended' \in {FALSE, proc[session].is = "alive" /\ ~proc[session].ready}
         /\ \E call \in {"sent", "lost"} : proc' = [proc EXCEPT ![session].call = call]
  BY DEF ExecuteOnce
<1>6. ended' \in BOOLEAN
  BY <1>5
<1>7. proc' \in [Sessions -> ProcType]
  BY <1>5 DEF BuildsTypes, ProcType
<1> QED BY <1>3, <1>4, <1>6, <1>7

\* A run begins with the data on the disk, whether it builds first or not.
LEMMA StartLemma ==
    ASSUME Types, NEW turn \in LoopType, StartRun(turn)
    PROVE  /\ BuildsTypes' /\ RunTypes'
           /\ loop'.at # "idle" /\ loop'.queued = turn.queued
           /\ ran'.data = disk["data"]
<1>1. disk["data"] \in Nat /\ BuildsTypes /\ RunTypes /\ result' = "none"
  BY FilesLemma DEF Types, FilesTypes, StartRun
<1>2. CASE built
  <2>1. ExecuteOnce(turn, disk["data"]) /\ UNCHANGED <<built, builds, session>>
    BY <1>2 DEF StartRun
  <2>2. /\ loop' \in LoopType /\ loop'.at = "execute" /\ loop'.queued = turn.queued
        /\ RanIsRecord' /\ ran'.data = disk["data"] /\ ended' \in BOOLEAN
        /\ proc' \in [Sessions -> ProcType]
    BY <1>1, <2>1, ExecuteLemma DEF RunTypes
  <2> QED BY <1>1, <2>1, <2>2 DEF BuildsTypes, RunTypes
<1>3. CASE ~built
  <2>1. /\ Build(Loop) /\ loop' = [turn EXCEPT !.at = "build"]
        /\ ran' = [ran EXCEPT !.data = disk["data"]] /\ UNCHANGED <<built, ended>>
    BY <1>3 DEF StartRun
  <2>2. BuildsTypes'
    BY <1>1, <2>1, BuildLemma DEF Callers
  <2>3. loop' \in LoopType /\ loop'.at = "build" /\ loop'.queued = turn.queued
    BY <2>1 DEF LoopType
  <2>4. RanIsRecord' /\ ran'.data = disk["data"]
    BY <1>1, <2>1 DEF RunTypes, RanIsRecord
  <2> QED BY <1>1, <2>1, <2>2, <2>3, <2>4 DEF RunTypes
<1> QED BY <1>2, <1>3

-----------------------------------------------------------------------------
(* The invariant. *)

\* The first pass has not seen anything yet.
LEMMA InitIInv == Init => IInv
<1> SUFFICES ASSUME Init PROVE IInv
  OBVIOUS
<1>1. [f \in Files |-> 0] \in [Files -> Nat]
  OBVIOUS
<1>2. \A p \in Passes :
          /\ pass[p] \in PassType /\ pass[p].at # "waiting" /\ pass[p].seen["data"] = 0
  <2>1. NoPass \in PassType /\ NoPass.at = "free" /\ NoPass.seen["data"] = 0
    BY <1>1 DEF NoPass, PassType, Files
  <2>2. pass = [p \in Passes |->
                   IF p = 1 THEN [NoPass EXCEPT !.at = "configure", !.trigger = {"source"}]
                   ELSE NoPass]
    BY DEF Init
  <2>3. {"source"} \in SUBSET Files
    BY DEF Files
  <2> DEFINE first == [NoPass EXCEPT !.at = "configure", !.trigger = {"source"}]
  <2>4. first \in PassType /\ first.at = "configure" /\ first.seen["data"] = 0
    BY <2>1, <2>3 DEF PassType
  <2> HIDE DEF first
  <2> QED BY <2>1, <2>2, <2>4 DEF first
<1>3. pass \in [Passes -> PassType]
  <2>1. pass = [p \in Passes |-> pass[p]]
    BY DEF Init
  <2> QED BY <1>2, <2>1
<1>4. FilesTypes
  BY <1>1 DEF Init, FilesTypes, W!Init, W!TypeOK, W!NoRun
<1>5. BuildsTypes
  BY DEF Init, BuildsTypes, NoBuild, BuildType, NoProc, ProcType
<1>6. RunTypes
  BY DEF Init, RunTypes, LoopType, RanIsRecord
<1>7. disk["data"] = 0
  BY DEF Init, Files
<1> QED BY <1>2, <1>3, <1>4, <1>5, <1>6, <1>7 DEF IInv, Types, SeenIsOnDisk, AnswerAhead

\* Steps that leave the passes alone, and the run to which they wait.
LEMMA SamePasses ==
    ASSUME IInv, Types', UNCHANGED pass, ran'.data = ran.data, loop'.queued = loop.queued,
           loop'.at = "idle" => loop.at = "idle", disk'["data"] >= disk["data"]
    PROVE  IInv'
<1>1. /\ disk["data"] \in Nat /\ disk'["data"] \in Nat
      /\ \A p \in Passes : pass[p].seen["data"] \in Nat
  BY DEF IInv, Types, FilesTypes, PassType, Files
<1>2. SeenIsOnDisk'
  BY <1>1 DEF IInv, SeenIsOnDisk
<1>3. AnswerAhead'
  BY DEF IInv, AnswerAhead
<1> QED BY <1>2, <1>3 DEF IInv

\* A step of one pass that does not begin to wait, nor looks at a file.
LEMMA OnePass ==
    ASSUME IInv, NEW p \in Passes, NEW x \in PassType, Types',
           pass' = [pass EXCEPT ![p] = x], x.at # "waiting",
           x.seen["data"] <= disk["data"],
           UNCHANGED <<loop, ran, disk>>
    PROVE  IInv'
<1>1. pass \in [Passes -> PassType]
  BY DEF IInv, Types
<1>2. \A q \in Passes : pass'[q] = IF q = p THEN x ELSE pass[q]
  BY <1>1
<1>3. SeenIsOnDisk' /\ AnswerAhead'
  BY <1>2 DEF IInv, SeenIsOnDisk, AnswerAhead
<1> QED BY <1>3 DEF IInv

\* Files and their watcher.
LEMMA WatchSteps ==
    ASSUME IInv,
           \/ \E f \in Files : Edit(f) \/ Report(f)
           \/ WatchTimer \/ WatchSettle
    PROVE  IInv'
<1>0. FilesTypes /\ IInv /\ Types
  BY DEF IInv, Types
<1>1. UNCHANGED <<pass, result, loop, ran, built, builds, session, proc, ended>>
  BY DEF Edit, Report, WatchTimer, WatchSettle, execVars, buildVars
<1>2. FilesTypes' /\ disk'["data"] >= disk["data"]
  <2>1. ASSUME NEW f \in Files, Edit(f) PROVE FilesTypes' /\ disk'["data"] >= disk["data"]
    <3>1. /\ disk' = [disk EXCEPT ![f] = @ + 1] /\ unreported' = unreported \union {f}
          /\ UNCHANGED <<watched, state, timer, changes, run>>
      BY <2>1 DEF Edit, watchVars
    <3>2. disk' \in [Files -> Nat] /\ disk'["data"] >= disk["data"]
      BY <1>0, <3>1 DEF FilesTypes, Files
    <3>3. unreported' \subseteq Files
      BY <1>0, <3>1 DEF FilesTypes
    <3>4. W!TypeOK'
      BY <1>0, <3>1 DEF FilesTypes, W!TypeOK
    <3> QED BY <1>0, <3>1, <3>2, <3>3, <3>4 DEF FilesTypes
  <2>2. ASSUME NEW f \in Files, Report(f) PROVE FilesTypes' /\ disk'["data"] >= disk["data"]
    <3>1. /\ W!Event({f}, FALSE) /\ unreported' = unreported \ {f} /\ UNCHANGED <<disk, watched>>
      BY <2>2 DEF Report
    <3>2. W!TypeOK'
      BY <1>0, <3>1 DEF FilesTypes, W!TypeOK, W!Event
    <3>3. disk["data"] \in Nat
      BY <1>0, FilesLemma DEF FilesTypes
    <3> QED BY <1>0, <3>1, <3>2, <3>3 DEF FilesTypes
  <2>3. CASE WatchTimer \/ WatchSettle
    <3>1. UNCHANGED <<disk, unreported, watched>> /\ (W!Debounced \/ W!Settle)
      BY <2>3 DEF WatchTimer, WatchSettle, diskVars
    <3>2. W!TypeOK'
      <4>1. W!TypeOK /\ (state' = "BUSY" \/ state' = "IDLE") /\ timer' \in BOOLEAN
            /\ (changes' = {} \/ changes' = changes)
            /\ (run' = [at |-> "call", batch |-> changes] \/ run' = W!NoRun)
        BY <1>0, <3>1 DEF FilesTypes, W!TypeOK, W!Debounced, W!Settle, W!Handle
      <4> QED BY <4>1 DEF W!TypeOK, W!NoRun
    <3>3. disk["data"] \in Nat
      BY <1>0, FilesLemma DEF FilesTypes
    <3> QED BY <1>0, <3>1, <3>2, <3>3 DEF FilesTypes
  <2> QED BY <2>1, <2>2, <2>3
<1>3. Types'
  BY <1>0, <1>1, <1>2 DEF Types, BuildsTypes, RunTypes, RanIsRecord
<1> QED BY <1>1, <1>2, <1>3, SamePasses

\* A pass begins with the files that are on the disk.
LEMMA CallStep ==
    ASSUME IInv, NEW p \in Passes, WatchCall(p)
    PROVE  IInv'
<1> DEFINE x == [at |-> "configure", trigger |-> run.batch,
                 seen |-> [f \in Files |-> IF f \in run.batch THEN disk[f] ELSE 0]]
<1>1. /\ W!Call /\ pass' = [pass EXCEPT ![p] = x]
      /\ UNCHANGED <<disk, unreported, watched, result, loop, ran, built, builds, session, proc, ended>>
  BY DEF WatchCall, diskVars, execVars, buildVars
<1>2. Types /\ FilesTypes /\ disk["data"] \in Nat
  BY FilesLemma DEF IInv, Types, FilesTypes
<1>3. W!TypeOK'
  BY <1>1, <1>2 DEF FilesTypes, W!TypeOK, W!Call
<1>4. run.batch \in SUBSET Files /\ disk \in [Files -> Nat]
  BY <1>2 DEF FilesTypes, W!TypeOK
<1>5. x \in PassType /\ x.at # "waiting"
  BY <1>4 DEF PassType
<1>6. x.seen["data"] <= disk["data"]
  <2>1. x.seen["data"] = IF "data" \in run.batch THEN disk["data"] ELSE 0
    BY DEF Files
  <2> QED BY <1>2, <2>1
<1> HIDE DEF x
<1>7. Types'
  BY <1>1, <1>2, <1>3, <1>5 DEF Types, FilesTypes, BuildsTypes, RunTypes, RanIsRecord
<1> QED BY <1>1, <1>5, <1>6, <1>7, OnePass

\* The processes.
LEMMA ChildStep ==
    ASSUME IInv, Child
    PROVE  IInv'
<1>0. Types /\ BuildsTypes /\ RunTypes /\ disk["data"] \in Nat /\ disk["source"] \in Nat
  BY FilesLemma DEF IInv, Types, FilesTypes
<1>1. UNCHANGED <<disk, unreported, watched, state, timer, changes, run, pass, built, builds, session>>
  BY DEF Child, ProcLoads, ProcExits, Answer, diskVars, watchVars, execVars, buildVars
<1>2. /\ proc' \in [Sessions -> ProcType] /\ ended' \in BOOLEAN
      /\ result' \in {"none", "success", "failure"}
      /\ \/ loop' = loop
         \/ loop' = [loop EXCEPT !.at = "ended"]
      /\ \/ ran' = ran
         \/ \E code \in Nat : ran' = [ran EXCEPT !.code = code]
  <2>1. ASSUME NEW s \in Sessions, ProcLoads(s)
        PROVE  UNCHANGED <<ended, result, loop, ran>> /\ proc' \in [Sessions -> ProcType]
    <3>1. /\ proc' = [proc EXCEPT ![s].ready = TRUE, ![s].code = disk["source"]]
          /\ UNCHANGED <<ended, result, loop, ran>>
      BY <2>1 DEF ProcLoads, execVars
    <3> QED BY <1>0, <3>1 DEF BuildsTypes, ProcType
  <2>2. ASSUME NEW s \in Sessions, ProcExits(s)
        PROVE  ended' \in BOOLEAN /\ UNCHANGED <<result, loop, ran>> /\ proc' \in [Sessions -> ProcType]
    <3>1. /\ proc' = [proc EXCEPT ![s].is = "exited", ![s].call = "no"]
          /\ ended' = Awaited(s) /\ UNCHANGED <<result, loop, ran>>
      BY <2>2 DEF ProcExits, execVars
    <3> QED BY <1>0, <3>1 DEF BuildsTypes, ProcType, Awaited
  <2>3. ASSUME NEW s \in Sessions, NEW outcome \in {"success", "failure"}, Answer(s, outcome)
        PROVE  /\ proc' \in [Sessions -> ProcType] /\ UNCHANGED ended
               /\ \/ UNCHANGED <<result, loop, ran>>
                  \/ /\ result' = outcome /\ loop' = [loop EXCEPT !.at = "ended"]
                     /\ \E code \in Nat : ran' = [ran EXCEPT !.code = code]
    <3>1. /\ proc' = [proc EXCEPT ![s].call = "no"] /\ UNCHANGED ended
          /\ \/ UNCHANGED <<result, loop, ran>>
             \/ /\ result' = outcome /\ loop' = [loop EXCEPT !.at = "ended"]
                /\ ran' = [ran EXCEPT !.code = proc[s].code]
      BY <2>3 DEF Answer, execVars
    <3>2. proc[s].code \in Nat
      BY <1>0 DEF BuildsTypes, ProcType
    <3>3. proc' \in [Sessions -> ProcType]
      BY <1>0, <3>1 DEF BuildsTypes, ProcType
    <3> QED BY <3>1, <3>2, <3>3
  <2> QED BY <1>0, <2>1, <2>2, <2>3 DEF Child, RunTypes
<1>3. loop' \in LoopType /\ loop'.queued = loop.queued /\ (loop'.at = "idle" => loop.at = "idle")
  BY <1>0, <1>2 DEF RunTypes, LoopType
<1>4. RanIsRecord' /\ ran'.data = ran.data
  BY <1>0, <1>2 DEF RunTypes, RanIsRecord
<1>5. Types'
  BY <1>0, <1>1, <1>2, <1>3, <1>4 DEF Types, FilesTypes, W!TypeOK, BuildsTypes, RunTypes
<1> QED BY <1>0, <1>1, <1>3, <1>4, <1>5, SamePasses

\* build() and its time limits.
LEMMA BuildSteps ==
    ASSUME IInv, NEW c \in Callers, BuildSpawns(c) \/ BuildTimeout(c)
    PROVE  IInv'
<1>0. Types /\ BuildsTypes /\ RunTypes /\ disk["data"] \in Nat
  BY FilesLemma DEF IInv, Types, FilesTypes
<1>1. UNCHANGED <<disk, unreported, watched, state, timer, changes, run, pass, ran, result, built>>
  BY DEF BuildSpawns, BuildTimeout, diskVars, watchVars, execVars
<1>2. BuildsTypes' /\ ended' \in BOOLEAN /\ (loop' = loop \/ loop' = [loop EXCEPT !.at = "ended"])
  <2>1. CASE BuildSpawns(c)
    <3>1. Spawn(c) /\ UNCHANGED <<ended, loop>>
      BY <2>1 DEF BuildSpawns, execVars
    <3> QED BY <1>0, <3>1, BuildLemma DEF RunTypes
  <2>2. CASE BuildTimeout(c)
    <3>1. /\ UNCHANGED <<session, proc>> /\ ended' \in BOOLEAN
          /\ loop' = loop \/ loop' = [loop EXCEPT !.at = "ended"]
          /\ \/ UNCHANGED builds
             \/ builds' = [builds EXCEPT ![c] = NoBuild, ![Nobody] = builds[c]]
      BY <1>0, <2>2 DEF BuildTimeout, RunTypes
    <3>2. NoBuild \in BuildType /\ builds[c] \in BuildType
      BY <1>0 DEF NoBuild, BuildType, BuildsTypes
    <3> QED BY <1>0, <3>1, <3>2 DEF BuildsTypes
  <2> QED BY <2>1, <2>2
<1>3. loop' \in LoopType /\ loop'.queued = loop.queued /\ (loop'.at = "idle" => loop.at = "idle")
  BY <1>0, <1>2 DEF RunTypes, LoopType
<1>4. Types'
  BY <1>0, <1>1, <1>2, <1>3 DEF Types, FilesTypes, W!TypeOK, RunTypes, RanIsRecord
<1> QED BY <1>0, <1>1, <1>3, <1>4, SamePasses

\* The end of a build: the run goes on with what it has read.
LEMMA BuildEndsStep ==
    ASSUME IInv, NEW c \in Callers, NEW ok \in BOOLEAN, BuildEnds(c, ok)
    PROVE  IInv'
<1>0. /\ Types /\ BuildsTypes /\ RunTypes /\ disk["data"] \in Nat /\ loop \in LoopType
      /\ ran.data \in Nat /\ RanIsRecord
  BY FilesLemma DEF IInv, Types, FilesTypes, RunTypes, RanIsRecord
<1>1. /\ UNCHANGED <<disk, unreported, watched, state, timer, changes, run, result, session>>
      /\ builds' = [builds EXCEPT ![c] = NoBuild] /\ built' \in BOOLEAN
  BY DEF BuildEnds, diskVars, watchVars
<1>2. /\ builds' \in [Callers -> BuildType]
      /\ Loop \notin Passes /\ Nobody \notin Passes /\ Loop # Nobody
  BY <1>0, <1>1, CodegenAssumption DEF BuildsTypes, NoBuild, BuildType, Loop, Nobody, Passes
<1>3. CASE c = Loop /\ ok
  <2>1. ExecuteOnce(loop, ran.data) /\ UNCHANGED pass
    BY <1>2, <1>3 DEF BuildEnds
  <2>2. /\ loop' \in LoopType /\ loop'.at = "execute" /\ loop'.queued = loop.queued
        /\ RanIsRecord' /\ ran'.data = ran.data /\ ended' \in BOOLEAN
        /\ proc' \in [Sessions -> ProcType]
    BY <1>0, <2>1, ExecuteLemma
  <2>3. Types'
    BY <1>0, <1>1, <1>2, <2>1, <2>2 DEF Types, FilesTypes, W!TypeOK, BuildsTypes, RunTypes
  <2>4. SeenIsOnDisk' /\ AnswerAhead'
    BY <1>1, <2>1, <2>2 DEF IInv, SeenIsOnDisk, AnswerAhead
  <2> QED BY <2>3, <2>4 DEF IInv
<1>4. CASE (c = Loop /\ ~ok) \/ (c \in Passes /\ ~ok) \/ c = Nobody
  <2>1. /\ UNCHANGED <<proc, ran, pass>> /\ ended' \in BOOLEAN
        /\ loop' = loop \/ loop' = [loop EXCEPT !.at = "ended"]
    BY <1>0, <1>2, <1>4 DEF BuildEnds, RunTypes
  <2>2. loop' \in LoopType /\ loop'.queued = loop.queued /\ (loop'.at = "idle" => loop.at = "idle")
    BY <1>0, <2>1 DEF LoopType
  <2>3. Types'
    BY <1>0, <1>1, <1>2, <2>1, <2>2
       DEF Types, FilesTypes, W!TypeOK, BuildsTypes, RunTypes, RanIsRecord
  <2> QED BY <1>0, <1>1, <2>1, <2>2, <2>3, SamePasses
<1>5. CASE c \in Passes /\ ok
  <2> DEFINE x == [pass[c] EXCEPT !.at = "pool"]
  <2>1. pass' = [pass EXCEPT ![c] = x] /\ UNCHANGED <<proc, loop, ran, ended>>
    BY <1>2, <1>5 DEF BuildEnds
  <2>2. x \in PassType /\ x.at = "pool" /\ x.seen = pass[c].seen
    BY <1>0, <1>5 DEF Types, PassType
  <2> HIDE DEF x
  <2>3. Types'
    BY <1>0, <1>1, <1>2, <2>1, <2>2
       DEF Types, FilesTypes, W!TypeOK, BuildsTypes, RunTypes, RanIsRecord
  <2> QED BY <1>1, <1>5, <2>1, <2>2, <2>3, OnePass DEF IInv, SeenIsOnDisk
<1> QED BY <1>3, <1>4, <1>5 DEF Callers


\* runOnce() up to the call of execute().
LEMMA ConfiguredStep ==
    ASSUME IInv, NEW p \in Passes, Configured(p)
    PROVE  IInv'
<1>0. Types /\ BuildsTypes /\ disk["data"] \in Nat
  BY FilesLemma DEF IInv, Types, FilesTypes
<1>1. UNCHANGED <<disk, unreported, watched, state, timer, changes, run, result, loop, ran, built, ended>>
  BY DEF Configured, diskVars, watchVars, execVars
<1>2. PICK x \in {[pass[p] EXCEPT !.at = "pool"], [pass[p] EXCEPT !.at = "building"], NoPass} :
          pass' = [pass EXCEPT ![p] = x]
  BY DEF Configured
<1>3. x \in PassType /\ x.at # "waiting" /\ x.seen["data"] <= disk["data"]
  <2>1. /\ NoPass \in PassType /\ NoPass.at # "waiting" /\ NoPass.seen["data"] <= disk["data"]
    BY <1>0 DEF NoPass, PassType, Files
  <2>2. pass[p] \in PassType /\ pass[p].seen["data"] <= disk["data"]
    BY DEF IInv, Types, SeenIsOnDisk
  <2>3. ASSUME NEW a \in {"pool", "building"}
        PROVE  /\ [pass[p] EXCEPT !.at = a] \in PassType
               /\ [pass[p] EXCEPT !.at = a].at # "waiting"
               /\ [pass[p] EXCEPT !.at = a].seen = pass[p].seen
    BY <2>2 DEF PassType
  <2> QED BY <2>1, <2>2, <2>3
<1>4. BuildsTypes'
  <2>1. Build(p) \/ UNCHANGED <<proc, builds, session>>
    BY DEF Configured
  <2> QED BY <1>0, <2>1, BuildLemma DEF BuildsTypes, Callers
<1>5. Types'
  BY <1>0, <1>1, <1>2, <1>3, <1>4 DEF Types, FilesTypes, W!TypeOK, RunTypes, RanIsRecord
<1> QED BY <1>1, <1>2, <1>3, <1>5, OnePass

\* The pool calls execute(): the run that goes on is followed by another one, or
\* a run begins with what is on the disk.
LEMMA PooledStep ==
    ASSUME IInv, NEW p \in Passes, Pooled(p)
    PROVE  IInv'
<1>0. Types /\ BuildsTypes /\ RunTypes /\ loop \in LoopType /\ disk["data"] \in Nat
  BY FilesLemma DEF IInv, Types, FilesTypes, RunTypes
<1>1. /\ pass' = [pass EXCEPT ![p].at = "waiting"]
      /\ UNCHANGED <<disk, unreported, watched, state, timer, changes, run>>
  BY DEF Pooled, diskVars, watchVars
<1>2. /\ pass' \in [Passes -> PassType]
      /\ \A q \in Passes : pass'[q].seen = pass[q].seen
      /\ \A q \in Passes : q # p => pass'[q] = pass[q]
  BY <1>0, <1>1 DEF Types, PassType
<1>3. SeenIsOnDisk'
  BY <1>1, <1>2 DEF IInv, SeenIsOnDisk
<1>4. CASE loop.at = "idle"
  <2>1. StartRun(loop)
    BY <1>4 DEF Pooled
  <2>2. BuildsTypes' /\ RunTypes' /\ loop'.at # "idle" /\ ran'.data = disk["data"]
    BY <1>0, <2>1, StartLemma
  <2>3. Types'
    BY <1>0, <1>1, <1>2, <2>2 DEF Types, FilesTypes, W!TypeOK
  <2>4. AnswerAhead'
    <3>1. \A q \in Passes : ran'.data >= pass'[q].seen["data"]
      <4>1. \A q \in Passes : pass'[q].seen["data"] \in Nat
        BY <1>2 DEF PassType, Files
      <4> QED BY <1>0, <1>1, <1>3, <2>2, <4>1 DEF SeenIsOnDisk
    <3> QED BY <2>2, <3>1 DEF AnswerAhead
  <2> QED BY <1>3, <2>3, <2>4 DEF IInv
<1>5. CASE loop.at # "idle"
  <2>1. /\ loop' = [loop EXCEPT !.queued = TRUE]
        /\ UNCHANGED <<result, ran, built, builds, session, proc, ended>>
    BY <1>5 DEF Pooled, buildVars
  <2>2. loop' \in LoopType /\ loop'.at = loop.at /\ loop'.queued
    BY <1>0, <2>1 DEF LoopType
  <2>3. Types'
    BY <1>0, <1>1, <1>2, <2>1, <2>2 DEF Types, FilesTypes, W!TypeOK, BuildsTypes, RunTypes, RanIsRecord
  <2>4. AnswerAhead'
    BY <1>5, <2>2 DEF AnswerAhead
  <2> QED BY <1>3, <2>3, <2>4 DEF IInv
<1> QED BY <1>4, <1>5

\* One turn of runLoop(): the next run reads the files again, or all who wait
\* are answered.
LEMMA TurnStep ==
    ASSUME IInv, LoopTurns
    PROVE  IInv'
<1>0. Types /\ BuildsTypes /\ RunTypes /\ loop \in LoopType /\ disk["data"] \in Nat
  BY FilesLemma DEF IInv, Types, FilesTypes, RunTypes
<1>1. UNCHANGED <<disk, unreported, watched, state, timer, changes, run>>
  BY DEF LoopTurns, diskVars, watchVars
<1>2. CASE loop.queued
  <2> DEFINE turn == [loop EXCEPT !.queued = FALSE]
  <2>1. StartRun(turn) /\ UNCHANGED pass
    BY <1>2 DEF LoopTurns
  <2>2. turn \in LoopType
    BY <1>0 DEF LoopType
  <2> HIDE DEF turn
  <2>3. BuildsTypes' /\ RunTypes' /\ loop'.at # "idle" /\ ran'.data = disk["data"]
    BY <1>0, <2>1, <2>2, StartLemma
  <2>4. Types'
    BY <1>0, <1>1, <2>1, <2>3 DEF Types, FilesTypes, W!TypeOK
  <2>5. SeenIsOnDisk'
    BY <1>1, <2>1 DEF IInv, SeenIsOnDisk
  <2>6. AnswerAhead'
    <3>1. \A q \in Passes : ran'.data >= pass[q].seen["data"]
      <4>1. \A q \in Passes : pass[q].seen["data"] \in Nat
        BY <1>0 DEF Types, PassType, Files
      <4> QED BY <1>0, <2>3, <4>1 DEF IInv, SeenIsOnDisk
    <3> QED BY <2>1, <2>3, <3>1 DEF AnswerAhead
  <2> QED BY <2>4, <2>5, <2>6 DEF IInv
<1>3. CASE ~loop.queued
  <2>1. /\ loop' = [at |-> "idle", queued |-> FALSE, on |-> 0]
        /\ pass' = [q \in Passes |-> IF pass[q].at = "waiting" THEN NoPass ELSE pass[q]]
        /\ UNCHANGED <<result, ran, built, builds, session, proc, ended>>
    BY <1>3 DEF LoopTurns, buildVars
  <2>2. /\ NoPass \in PassType /\ NoPass.at = "free" /\ NoPass.seen["data"] = 0
    BY DEF NoPass, PassType, Files
  <2>3. /\ pass' \in [Passes -> PassType]
        /\ \A q \in Passes : pass'[q].at # "waiting"
        /\ \A q \in Passes : pass'[q].seen["data"] <= disk["data"]
    <3>1. \A q \in Passes : pass[q] \in PassType /\ pass[q].seen["data"] <= disk["data"]
      BY <1>0 DEF IInv, Types, SeenIsOnDisk
    <3>2. \A q \in Passes : pass'[q] = IF pass[q].at = "waiting" THEN NoPass ELSE pass[q]
      BY <2>1
    <3> QED BY <1>0, <2>1, <2>2, <3>1, <3>2
  <2>4. loop' \in LoopType
    BY <2>1 DEF LoopType
  <2>5. Types'
    BY <1>0, <1>1, <2>1, <2>3, <2>4 DEF Types, FilesTypes, W!TypeOK, BuildsTypes, RunTypes, RanIsRecord
  <2> QED BY <1>1, <2>3, <2>5 DEF IInv, SeenIsOnDisk, AnswerAhead
<1> QED BY <1>2, <1>3

\* A run that takes too long fails; who waits is answered all the same.
LEMMA TimeoutStep ==
    ASSUME IInv, ExecuteTimeout
    PROVE  IInv'
<1>1. /\ result' = "failure" /\ loop' = [loop EXCEPT !.at = "ended"]
      /\ UNCHANGED <<disk, unreported, watched, state, timer, changes, run, pass, ran, built, builds,
                     session, proc, ended>>
  BY DEF ExecuteTimeout, diskVars, watchVars, buildVars
<1>2. Types /\ RunTypes /\ loop \in LoopType /\ disk["data"] \in Nat
  BY FilesLemma DEF IInv, Types, FilesTypes, RunTypes
<1>3. loop' \in LoopType /\ loop'.at = "ended" /\ loop'.queued = loop.queued
  BY <1>1, <1>2 DEF LoopType
<1>4. Types'
  BY <1>1, <1>2, <1>3 DEF Types, FilesTypes, W!TypeOK, BuildsTypes, RunTypes, RanIsRecord
<1> QED BY <1>1, <1>2, <1>3, <1>4, SamePasses

\* Every step keeps the invariant.
LEMMA StepIInv == IInv /\ [Next]_vars => IInv'
<1> SUFFICES ASSUME IInv, [Next]_vars PROVE IInv'
  OBVIOUS
<1>1. CASE \/ \E f \in Files : Edit(f) \/ Report(f)
           \/ WatchTimer \/ WatchSettle
  BY <1>1, WatchSteps
<1>2. ASSUME NEW p \in Passes, WatchCall(p) PROVE IInv'
  BY <1>2, CallStep
<1>3. ASSUME NEW p \in Passes, Configured(p) PROVE IInv'
  BY <1>3, ConfiguredStep
<1>4. ASSUME NEW p \in Passes, Pooled(p) PROVE IInv'
  BY <1>4, PooledStep
<1>5. ASSUME NEW c \in Callers, BuildSpawns(c) \/ BuildTimeout(c) PROVE IInv'
  BY <1>5, BuildSteps
<1>6. ASSUME NEW c \in Callers, NEW ok \in BOOLEAN, BuildEnds(c, ok) PROVE IInv'
  BY <1>6, BuildEndsStep
<1>7. CASE ExecuteTimeout
  BY <1>7, TimeoutStep
<1>8. CASE LoopTurns
  BY <1>8, TurnStep
<1>9. CASE Child
  BY <1>9, ChildStep
<1>10. CASE UNCHANGED vars
  BY <1>10 DEF vars, diskVars, watchVars, execVars, buildVars, IInv, Types, FilesTypes,
               W!TypeOK, BuildsTypes, RunTypes, RanIsRecord, SeenIsOnDisk, AnswerAhead
<1> QED BY <1>1, <1>2, <1>3, <1>4, <1>5, <1>6, <1>7, <1>8, <1>9, <1>10 DEF Next, Program

\* The watcher, the passes, the run and the sessions are of their types.
THEOREM TypeCorrect == Spec => []TypeOK
<1>1. IInv => TypeOK
  BY DEF IInv, Types, FilesTypes, BuildsTypes, RunTypes, TypeOK, PassType, LoopType, BuildType,
         ProcType
<1> QED BY <1>1, InitIInv, StepIInv, PTL DEF Spec

\* Who waits is answered only when no other run is queued, and then by one that
\* has read what it saw.
THEOREM Answered == Spec => AnsweredByLaterRun
<1>1. ASSUME IInv, [Next]_vars
      PROVE  [\A p \in Passes : pass[p].at = "waiting" /\ pass'[p].at = "free" =>
                  ran.data >= pass[p].seen["data"]]_vars
  <2> SUFFICES ASSUME Next, NEW p \in Passes, pass[p].at = "waiting", pass'[p].at = "free"
               PROVE  ran.data >= pass[p].seen["data"]
    BY <1>1
  <2>1. pass \in [Passes -> PassType]
    BY <1>1 DEF IInv, Types
  <2>2. LoopTurns
    <3>1. ASSUME NEW q \in Passes, Configured(q) \/ WatchCall(q) PROVE FALSE
      <4>1. pass[q].at \in {"configure", "free"} /\ q # p
        BY <3>1 DEF Configured, WatchCall
      <4>2. pass'[p] = pass[p]
        BY <2>1, <3>1, <4>1 DEF Configured, WatchCall
      <4> QED BY <4>2
    <3>2. ASSUME NEW q \in Passes, Pooled(q) PROVE FALSE
      BY <2>1, <3>2 DEF Pooled, PassType
    <3>3. ASSUME NEW c \in Callers, NEW ok \in BOOLEAN, BuildEnds(c, ok) PROVE FALSE
      <4>1. UNCHANGED pass \/ (c \in Passes /\ pass' = [pass EXCEPT ![c].at = "pool"])
        BY <3>3 DEF BuildEnds
      <4> QED BY <2>1, <4>1 DEF PassType
    <3>4. CASE \/ \E f \in Files : Edit(f) \/ Report(f)
               \/ WatchTimer \/ WatchSettle \/ ExecuteTimeout \/ Child
               \/ \E c \in Callers : BuildSpawns(c) \/ BuildTimeout(c)
      BY <3>4 DEF Edit, Report, WatchTimer, WatchSettle, ExecuteTimeout, Child, ProcLoads,
                  ProcExits, Answer, BuildSpawns, BuildTimeout
    <3> QED BY <3>1, <3>2, <3>3, <3>4 DEF Next, Program
  <2>3. ~loop.queued
    BY <2>2 DEF LoopTurns
  <2> QED BY <1>1, <2>3 DEF IInv, AnswerAhead
<1> QED BY <1>1, InitIInv, StepIInv, PTL DEF Spec, AnsweredByLaterRun
=============================================================================
