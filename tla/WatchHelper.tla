------------------------------ MODULE WatchHelper ------------------------------
(***************************************************************************)
(* @idlebox/chokidar, main.ts: changed paths are collected until the timer *)
(* of the debounce fires, and are then given to onChange.  What onChange   *)
(* returns is not awaited: the state is BUSY from the start of the promise *)
(* chain until its `finally', a few microtasks.                            *)
(*                                                                         *)
(* chokidar emits from asynchronous functions of its own, so an event may  *)
(* come between two microtasks of the chain.                               *)
(***************************************************************************)
CONSTANT Paths

VARIABLES
    state,      \* this.state
    timer,      \* this._debounce is set
    changes,    \* this.changes
    run         \* the promise chain of handler(): what it does next, with what

watchVars == <<state, timer, changes, run>>

NoRun == [at |-> "none", batch |-> {}]

TypeOK ==
    /\ state \in {"IDLE", "BUSY", "SCHEDULE", "RESCHEDULE"}
    /\ timer \in BOOLEAN
    /\ changes \subseteq Paths
    /\ run \in [at : {"none", "call", "settle"}, batch : SUBSET Paths]

Init ==
    /\ state = "IDLE"
    /\ timer = FALSE
    /\ changes = {}
    /\ run = NoRun

\* lowlevel_handler(): debounce() sets the timer, or sets it again.  Only
\* `ready' counts without a path.
Event(paths, ready) ==
    /\ changes' = changes \union paths
    /\ IF changes' = {} /\ ~ready
       THEN UNCHANGED <<state, timer>>
       ELSE /\ state' = CASE state = "IDLE" -> "SCHEDULE"
                          [] state = "BUSY" -> "RESCHEDULE"
                          [] OTHER -> state
            /\ timer' = (state' = "SCHEDULE")
    /\ UNCHANGED run

\* handler()
Handle ==
    /\ run' = [at |-> "call", batch |-> changes]
    /\ changes' = {}
    /\ state' = "BUSY"

\* The timer of the debounce.
Debounced ==
    /\ timer
    /\ timer' = FALSE
    /\ Handle

\* onChange(run.batch) is called.
Call ==
    /\ run.at = "call"
    /\ run' = [run EXCEPT !.at = "settle"]
    /\ UNCHANGED <<state, timer, changes>>

\* Mutant: what changed during the callback waits for the next event.
SettleIdle ==
    /\ run.at = "settle"
    /\ state' = "IDLE" /\ run' = NoRun
    /\ UNCHANGED <<timer, changes>>

\* The chain has settled: handler() is called again if something has changed.
Settle ==
    /\ run.at = "settle"
    /\ IF state = "RESCHEDULE"
       THEN Handle
       ELSE state' = "IDLE" /\ run' = NoRun /\ UNCHANGED changes
    /\ UNCHANGED timer
=============================================================================
