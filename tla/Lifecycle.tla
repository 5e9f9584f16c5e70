------------------------------- MODULE Lifecycle -------------------------------
(***************************************************************************)
(* @idlebox/common, lifecycle/dispose and lifecycle/global, with the       *)
(* shutdown of @idlebox/node.  Resources are registered with objects that  *)
(* are disposed later: an EnhancedAsyncDisposable releases what it holds   *)
(* one after the other, the global lifecycle (an UnorderedAsyncDisposable) *)
(* everything at once.  Owners dispose their objects at any time, also     *)
(* while the process shuts down, and the process exits when the global     *)
(* lifecycle is disposed.                                                  *)
(*                                                                         *)
(* dispose() calls dispose() of what it holds, and so on, before it first  *)
(* awaits.  A step is one of these calls, and `turn' has those that are to *)
(* follow before the event loop takes over: nothing else happens until it  *)
(* is empty.  Exit codes, warnings and the listeners of onDisposeError are *)
(* left out.                                                               *)
(***************************************************************************)
EXTENDS Integers, Sequences, SequencesExt

CONSTANTS
    Containers,     \* EnhancedAsyncDisposable objects
    Global,         \* the global lifecycle, one of them
    Leaves,         \* resources with a dispose() of their own
    MaxListeners,   \* bound on the listeners one container has with another
    MaxCounter      \* bound on shuttingDownCounter

ASSUME LifecycleAssumption ==
    /\ Global \in Containers
    /\ Containers \intersect Leaves = {}
    /\ MaxListeners \in Nat /\ MaxCounter \in Nat

VARIABLES
    list,       \* this._disposables of each container, the newest first
    listeners,  \* of d, how many c has with d.onBeforeDispose (autoDereference)
    phase,      \* __dispose_state of each container
    at,         \* the position in its list a container awaits
    error,      \* lastError is set: dispose() will reject
    leaf,       \* each resource: "idle", "releasing", "released", "failed"
    calls,      \* how often dispose() of a resource was called
    turn,       \* the calls of dispose() this turn has still to make
    counter,    \* shuttingDownCounter
    exited      \* "no", "released" or "forced"

treeVars == <<list, listeners, phase, at, error, leaf, calls>>
objectVars == <<treeVars, turn>>
vars == <<objectVars, counter, exited>>

Objects == Containers \union Leaves
Running == exited = "no" /\ turn = <<>>
NoListener == [c \in Containers |-> 0]

Holders(d) == {c \in Containers : Contains(list[c], d)}
Live(d) == IF d \in Leaves THEN leaf[d] = "idle" ELSE phase[d] = "live"
Settled(d) ==
    IF d \in Leaves THEN leaf[d] \in {"released", "failed"} ELSE phase[d] = "disposed"
Failed(d) == IF d \in Leaves THEN leaf[d] = "failed" ELSE error[d]

\* What can be reached from d, step by step along the pairs: the least set that
\* has every successor of d and of its own members.
Reached(d, pairs) ==
    LET successors == {p[2] : p \in pairs}
        closed == {S \in SUBSET successors :
                       \A p \in pairs : p[1] \in S \union {d} => p[2] \in S}
    IN  {e \in successors : \A S \in closed : e \in S}

\* What a container holds, what that holds, and so on.
Below(c) == Reached(c, UNION {{d} \X ToSet(list[d]) : d \in Containers})

Init ==
    /\ list = [c \in Containers |-> <<>>]
    /\ listeners = [d \in Containers |-> NoListener]
    /\ phase = [c \in Containers |-> "live"]
    /\ at = [c \in Containers |-> 0]
    /\ error = [c \in Containers |-> FALSE]
    /\ leaf = [l \in Leaves |-> "idle"]
    /\ calls = [l \in Leaves |-> 0]
    /\ turn = <<>>
    /\ counter = 0
    /\ exited = "no"

-----------------------------------------------------------------------------
(* Registration. *)

\* What owners keep to.  A container is not registered with what it holds.  It may
\* have any number of parents, whatever its phase: all but the first dispose()
\* return the promise of the first.  A resource has no such protection, and one
\* parent, as debug.ts asks of a strong reference.
MayRegister(c, d) ==
    IF d \in Leaves THEN leaf[d] = "idle" /\ Holders(d) = {}
    ELSE d \notin {c, Global} /\ c \notin Below(d)

\* _register().  onBeforeDispose of what has begun to be disposed throws when the
\* object is in the list already.
Register(c, d, auto) ==
    /\ Running
    /\ phase[c] = "live" /\ ~Contains(list[c], d)
    /\ MayRegister(c, d)
    /\ list' = [list EXCEPT ![c] = <<d>> \o @]
    /\ auto => d \in Containers
    /\ IF auto /\ Live(d)
       THEN /\ listeners[d][c] < MaxListeners
            /\ listeners' = [listeners EXCEPT ![d][c] = @ + 1]
       ELSE UNCHANGED listeners
    /\ UNCHANGED <<phase, at, error, leaf, calls, turn, counter, exited>>

\* splice(indexOf(d), 1): what is not in the list has the index -1, which takes
\* out the last one.
Unlisted(l, d) ==
    IF l = <<>> THEN l
    ELSE RemoveAt(l, IF Contains(l, d) THEN CHOOSE i \in DOMAIN l : l[i] = d ELSE Len(l))

\* _unregister() by the owner, whether d is registered or not.  The listener of
\* an autoDereference stays.
Unregister(c, d) ==
    /\ Running
    /\ phase[c] = "live"
    /\ list' = [list EXCEPT ![c] = Unlisted(@, d)]
    /\ UNCHANGED <<listeners, phase, at, error, leaf, calls, turn, counter, exited>>

-----------------------------------------------------------------------------
(* dispose() *)

\* Mutant: everything is released at once, as the global lifecycle does.
FirstCallsAll(d) == list[d]

\* What _dispose() calls before it awaits: everything, or the first one.
FirstCalls(d) ==
    IF d = Global \/ list[d] = <<>> THEN list[d] ELSE <<Head(list[d])>>

\* onBeforeDispose: every listener takes d out of the list of a container that is
\* not disposed itself.  The first one finds it, if it is still there; each of
\* the others takes out the last one.
Dereferenced(l, d, n) ==
    LET rest == IF n > 0 THEN Unlisted(l, d) ELSE l
        kept == Len(rest) - (n - 1)
    IN  IF n <= 1 THEN rest ELSE SubSeq(rest, 1, IF kept > 0 THEN kept ELSE 0)

\* Mutant: only a dispose() that is over is not carried out again.
HasBegunOver(d) == phase[d] = "disposed"

HasBegun(d) == phase[d] # "live"

\* dispose() of the next object, up to the dispose() it calls first.  If it has
\* begun before, it returns its promise again.
Call ==
    /\ exited = "no" /\ turn # <<>>
    /\ LET d == Head(turn)
       IN  \/ /\ d \in Leaves
              /\ calls' = [calls EXCEPT ![d] = @ + 1]
              /\ leaf' = [leaf EXCEPT ![d] = IF @ = "idle" THEN "releasing" ELSE @]
              /\ turn' = Tail(turn)
              /\ UNCHANGED <<list, listeners, phase, at>>
           \/ /\ d \in Containers /\ ~HasBegun(d)
              /\ phase' = [phase EXCEPT ![d] = "disposing"]
              /\ at' = [at EXCEPT ![d] = 1]
              /\ list' = [c \in Containers |->
                             IF phase'[c] = "live"
                             THEN Dereferenced(list[c], d, listeners[d][c])
                             ELSE list[c]]
              /\ listeners' = [listeners EXCEPT ![d] = NoListener]
              /\ turn' = FirstCalls(d) \o Tail(turn)
              /\ UNCHANGED <<leaf, calls>>
           \/ /\ d \in Containers /\ HasBegun(d)
              /\ turn' = Tail(turn)
              /\ UNCHANGED treeVars
    /\ UNCHANGED <<error, counter, exited>>

\* The owner of a container, or disposeGlobal().
Dispose(c) ==
    /\ Running
    /\ phase[c] = "live"
    /\ turn' = <<c>>
    /\ UNCHANGED <<treeVars, counter, exited>>

\* A resource has been released, or its dispose() has thrown.
Release(l, outcome) ==
    /\ Running
    /\ leaf[l] = "releasing"
    /\ leaf' = [leaf EXCEPT ![l] = outcome]
    /\ UNCHANGED <<list, listeners, phase, at, error, calls, turn, counter, exited>>

\* Mutant: the first error ends the loop.
AdvanceUntilError(c) ==
    /\ Running
    /\ c # Global /\ phase[c] = "disposing"
    /\ at[c] <= Len(list[c]) /\ Settled(list[c][at[c]])
    /\ error' = [error EXCEPT ![c] = @ \/ Failed(list[c][at[c]])]
    /\ IF at[c] < Len(list[c]) /\ ~error'[c]
       THEN turn' = <<list[c][at[c] + 1]>> /\ at' = [at EXCEPT ![c] = @ + 1]
       ELSE turn' = <<>> /\ at' = [at EXCEPT ![c] = Len(list[c]) + 1]
    /\ UNCHANGED <<list, listeners, phase, leaf, calls, counter, exited>>

\* EnhancedAsyncDisposable._dispose() goes on behind an await; an error is kept
\* and the rest is released all the same.
Advance(c) ==
    /\ Running
    /\ c # Global /\ phase[c] = "disposing"
    /\ at[c] <= Len(list[c]) /\ Settled(list[c][at[c]])
    /\ error' = [error EXCEPT ![c] = @ \/ Failed(list[c][at[c]])]
    /\ at' = [at EXCEPT ![c] = @ + 1]
    /\ turn' = IF at[c] < Len(list[c]) THEN <<list[c][at[c] + 1]>> ELSE <<>>
    /\ UNCHANGED <<list, listeners, phase, leaf, calls, counter, exited>>

\* The promise of _dispose() is settled, and cleanup() runs.
Finish(c) ==
    /\ Running
    /\ phase[c] = "disposing"
    /\ IF c = Global THEN \A d \in ToSet(list[c]) : Settled(d)
       ELSE at[c] > Len(list[c])
    /\ phase' = [phase EXCEPT ![c] = "disposed"]
    /\ UNCHANGED <<list, listeners, at, error, leaf, calls, turn, counter, exited>>

-----------------------------------------------------------------------------
(* The end of the process. *)

\* _shutdown_graceful(), for shutdown(), beforeExit and errors nobody caught.
Shutdown ==
    /\ Running /\ counter < MaxCounter
    /\ counter' = counter + 1
    /\ turn' = IF counter = 0 /\ phase[Global] = "live" THEN <<Global>> ELSE <<>>
    /\ UNCHANGED <<treeVars, exited>>

\* SIGINT or SIGTERM: the user who insists is served at once.
Signal ==
    IF counter > 4
    THEN Running /\ exited' = "forced" /\ UNCHANGED <<objectVars, counter>>
    ELSE Shutdown

\* Something that is no Error was thrown, or a handler of errors has failed:
\* shutdown_immediate(), whatever is under way.
Fatal ==
    /\ Running
    /\ exited' = "forced"
    /\ UNCHANGED <<objectVars, counter>>

\* Mutant: the process does not wait for a disposal that has begun.
ExitAtOnce ==
    /\ Running
    /\ counter > 0 /\ phase[Global] # "live"
    /\ exited' = "released"
    /\ UNCHANGED <<objectVars, counter>>

\* ensureDisposeGlobal().finally(exit)
Exit ==
    /\ Running
    /\ counter > 0 /\ phase[Global] = "disposed"
    /\ exited' = "released"
    /\ UNCHANGED <<objectVars, counter>>

Next ==
    \/ \E c \in Containers, d \in Objects, auto \in BOOLEAN : Register(c, d, auto)
    \/ \E c \in Containers, d \in Objects : Unregister(c, d)
    \/ \E c \in Containers : Dispose(c) \/ Advance(c) \/ Finish(c)
    \/ \E l \in Leaves, outcome \in {"released", "failed"} : Release(l, outcome)
    \/ Call
    \/ Shutdown \/ Signal \/ Fatal \/ Exit

\* A turn comes to its end, the release of a resource ends, and settled promises
\* resume their awaiters.
Fairness ==
    /\ WF_vars(Call)
    /\ \A l \in Leaves : WF_vars(\E outcome \in {"released", "failed"} : Release(l, outcome))
    /\ \A c \in Containers : WF_vars(Advance(c)) /\ WF_vars(Finish(c))
    /\ WF_vars(Exit)

Spec == Init /\ [][Next]_vars /\ Fairness

-----------------------------------------------------------------------------
(* Properties. *)

\* What was registered first is released last: a resource is not touched before
\* all that stands before it in the list its container had when its dispose()
\* began has ended, with everything below that.  (A container that was begun on
\* its own has left the list if it was registered with autoDereference, and is
\* not waited for.  What is a container itself may be begun by others.)
FirstRegisteredLast ==
    \A c \in Containers \ {Global} : \A j \in DOMAIN list[c] :
        list[c][j] \in Leaves /\ ~Live(list[c][j])
            => \A i \in 1..(j - 1) :
                   \A d \in {list[c][i]} \union Below(list[c][i]) : Settled(d)

\* Whoever disposes an object, on its own or as one of its parents, and however
\* often, each resource is released once.
ReleasedOnce == \A l \in Leaves : calls[l] <= 1

\* dispose() resolves when everything below has ended, and rejects exactly when
\* the release of one of the resources has failed.
DisposedIsReleased ==
    \A c \in Containers : phase[c] = "disposed" =>
        /\ \A d \in Below(c) : Settled(d)
        /\ c # Global => (error[c] <=> \E d \in Below(c) : Failed(d))

\* A shutdown ends, whatever owners dispose meanwhile; unless a user insisted or an
\* error could not be handled, with everything released that was still registered.
ShutdownExits ==
    counter > 0 ~> \/ exited = "forced"
                   \/ exited = "released" /\ \A d \in Below(Global) : Settled(d)
=============================================================================
