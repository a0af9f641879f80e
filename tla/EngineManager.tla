---------------------------- MODULE EngineManager ----------------------------
(***************************************************************************)
(* Background hot swapping of engines (src/src/utils/manager.rs): host     *)
(* threads that request reloads and wait for them, each with a handle of   *)
(* its own, the loader thread, and the condition variable between them.    *)
(*                                                                         *)
(* As in Session a critical section is one action, and a thread in         *)
(* signalling has left one and has still to call notify_all.  A            *)
(* configuration, the engine prepared from it and the error of its         *)
(* preparation are all named by the number of the request they belong to.  *)
(* Times are reduced to whether they have passed.                          *)
(***************************************************************************)
EXTENDS Integers, FiniteSets

CONSTANTS
    Hosts, Loader,            \* the host's threads; the loader thread
    MaxGeneration,            \* bound: the requests made
    NoError, SpawnError       \* no error; the loader thread could not start

ASSUME ManagerAssumption ==
    /\ IsFiniteSet(Hosts) /\ Loader \notin Hosts
    /\ MaxGeneration \in Nat
    /\ NoError \notin Nat /\ SpawnError \notin Nat /\ NoError # SpawnError

VARIABLES
    generation, loading, available, error, workerError, shutdown,    \* State
    request, due,      \* the requested configuration, 0 for none; its time has come
    managers,          \* the count of handles
    lpc, load,         \* the loader; what it took: [generation, config, ok]
    call,              \* per host thread: [pc, generation, late, answer, from]
    waiting, signalling

state == <<generation, loading, available, error, workerError, shutdown>>
requestVars == <<request, due>>
loader == <<lpc, load>>
vars == <<state, requestVars, managers, loader, call, waiting, signalling>>

Threads == Hosts \cup {Loader}
NoSnapshot == [generation |-> 0, engine |-> 0]
NoRequest == request = 0

\* One thread creates the manager, and a loader unless that cannot be spawned.
Init ==
    /\ generation = 0 /\ loading = FALSE /\ available = NoSnapshot
    /\ workerError \in {NoError, SpawnError} /\ error = workerError
    /\ shutdown = FALSE
    /\ request = 0 /\ due = FALSE
    /\ managers = 1
    /\ lpc = IF workerError = NoError THEN "look" ELSE "gone"
    /\ load = [generation |-> 0, config |-> 0, ok |-> FALSE]
    /\ \E creator \in Hosts :
         call = [h \in Hosts |-> [pc |-> IF h = creator THEN "idle" ELSE "none",
                                  generation |-> 0, late |-> FALSE,
                                  answer |-> "none", from |-> 0]]
    /\ waiting = {} /\ signalling = {}

-----------------------------------------------------------------------------
Running(t) == t \notin waiting /\ t \notin signalling
Notify(t) == signalling' = signalling \cup {t}

\* Mutant (as below: a plausible bug in the next definition): notify_one.
SignalOne(t) ==
    /\ t \in signalling
    /\ signalling' = signalling \ {t}
    /\ IF waiting = {} THEN UNCHANGED waiting ELSE \E u \in waiting : waiting' = waiting \ {u}
    /\ UNCHANGED <<state, requestVars, managers, loader, call>>

\* changed.notify_all()
Signal(t) ==
    /\ t \in signalling
    /\ signalling' = signalling \ {t}
    /\ waiting' = {}
    /\ UNCHANGED <<state, requestVars, managers, loader, call>>

\* A wait ends at its time limit, or spuriously.
WakeUp(t) ==
    /\ t \in waiting
    /\ waiting' = waiting \ {t}
    /\ UNCHANGED <<state, requestVars, managers, loader, call, signalling>>

\* Time passes: until a request is due, or a caller of wait is late.
ComesDue ==
    /\ ~NoRequest /\ ~due
    /\ due' = TRUE
    /\ UNCHANGED <<state, request, managers, loader, call, waiting, signalling>>

DeadlinePasses(h) ==
    /\ call[h].pc = "wait" /\ ~call[h].late
    /\ call' = [call EXCEPT ![h].late = TRUE]
    /\ UNCHANGED <<state, requestVars, managers, loader, waiting, signalling>>

-----------------------------------------------------------------------------
\* The loader.
LoaderAt(pc, next) == Running(Loader) /\ lpc = pc /\ lpc' = next
HostUnchanged == UNCHANGED <<managers, call>>

LoaderStops ==
    /\ shutdown /\ LoaderAt("look", "gone")
    /\ HostUnchanged /\ UNCHANGED <<state, requestVars, load, waiting, signalling>>

\* Mutant: asleep without a limit, whether or not there is a request.
LoaderSleepsOn ==
    /\ ~shutdown /\ ~due
    /\ LoaderAt("look", "sleep")
    /\ waiting' = waiting \cup {Loader}
    /\ HostUnchanged /\ UNCHANGED <<state, requestVars, load, signalling>>

\* Asleep without a request, or until the time of the one there is ("doze").
LoaderSleeps ==
    /\ ~shutdown /\ ~due
    /\ \/ NoRequest /\ LoaderAt("look", "sleep")
       \/ ~NoRequest /\ LoaderAt("look", "doze")
    /\ waiting' = waiting \cup {Loader}
    /\ HostUnchanged /\ UNCHANGED <<state, requestVars, load, signalling>>

LoaderWakes ==
    /\ LoaderAt("sleep", "look") \/ LoaderAt("doze", "look")
    /\ HostUnchanged /\ UNCHANGED <<state, requestVars, load, waiting, signalling>>

TakeRequest ==
    /\ ~shutdown /\ ~NoRequest /\ due
    /\ LoaderAt("look", "load")
    /\ load' = [generation |-> generation, config |-> request, ok |-> FALSE]
    /\ request' = 0 /\ due' = FALSE
    /\ HostUnchanged /\ UNCHANGED <<state, waiting, signalling>>

\* The preparation, outside the lock, succeeds, fails or panics.
LoadReturns ==
    /\ LoaderAt("load", "publish")
    /\ \E ok \in BOOLEAN : load' = [load EXCEPT !.ok = ok]
    /\ HostUnchanged /\ UNCHANGED <<state, requestVars, waiting, signalling>>

\* Mutant: whatever was loaded is taken for the latest.
AlwaysCurrent == TRUE
Current == load.generation = generation

Publication ==
    \/ ~Current /\ UNCHANGED <<loading, available, error>>
    \/ /\ Current /\ load.ok
       /\ available' = [generation |-> load.generation, engine |-> load.config]
       /\ loading' = FALSE /\ error' = NoError
    \/ /\ Current /\ ~load.ok
       /\ error' = load.config
       /\ loading' = FALSE /\ UNCHANGED available

Publish ==
    /\ LoaderAt("publish", "look") /\ Publication
    /\ Notify(Loader)
    /\ HostUnchanged
    /\ UNCHANGED <<generation, workerError, shutdown, requestVars, load, waiting>>

LoaderStep == LoaderStops \/ LoaderSleeps \/ LoaderWakes \/ TakeRequest \/ Publish

-----------------------------------------------------------------------------
\* The host's threads.  Each uses and drops its own handle.
Idle(h) == Running(h) /\ call[h].pc = "idle"
Goes(h, pc) == call' = [call EXCEPT ![h].pc = pc]

Clone(h, to) ==
    /\ Idle(h) /\ Running(to) /\ call[to].pc = "none"
    /\ Goes(to, "idle")
    /\ managers' = managers + 1
    /\ UNCHANGED <<state, requestVars, loader, waiting, signalling>>

\* Mutant: the count is compared after the subtraction.
DropEarly(h) ==
    /\ Idle(h)
    /\ Goes(h, IF managers - 1 = 1 THEN "last" ELSE "none")
    /\ managers' = managers - 1
    /\ UNCHANGED <<state, requestVars, loader, waiting, signalling>>

\* drop: the count is atomic; the one that takes it to zero goes on to the lock.
Drop(h) ==
    /\ Idle(h)
    /\ Goes(h, IF managers = 1 THEN "last" ELSE "none")
    /\ managers' = managers - 1
    /\ UNCHANGED <<state, requestVars, loader, waiting, signalling>>

\* Mutant: the loader is not notified.
ShutDownSilently(h) ==
    /\ call[h].pc = "last"
    /\ Goes(h, "none")
    /\ shutdown' = TRUE
    /\ UNCHANGED <<generation, loading, available, error, workerError,
                   requestVars, managers, loader, waiting, signalling>>

\* Here the notification is inside the critical section.
ShutDown(h) ==
    /\ call[h].pc = "last"
    /\ Goes(h, "none")
    /\ shutdown' = TRUE
    /\ waiting' = {}
    /\ UNCHANGED <<generation, loading, available, error, workerError,
                   requestVars, managers, loader, signalling>>

\* Mutant: the error of the previous request stays.
RequestKeepingError(h) ==
    /\ Idle(h) /\ generation < MaxGeneration
    /\ generation' = generation + 1
    /\ loading' = (workerError = NoError)
    /\ request' = generation' /\ due' = FALSE
    /\ Notify(h)
    /\ UNCHANGED <<available, error, workerError, shutdown, managers, loader, call, waiting>>

RequestReload(h) ==
    /\ Idle(h) /\ generation < MaxGeneration
    /\ generation' = generation + 1
    /\ loading' = (workerError = NoError)
    /\ error' = workerError
    /\ request' = generation' /\ due' = FALSE
    /\ Notify(h)
    /\ UNCHANGED <<available, workerError, shutdown, managers, loader, call, waiting>>

\* wait(generation, deadline)
StartWait(h) ==
    /\ Idle(h)
    /\ \E g \in 0..generation :
         call' = [call EXCEPT ![h] = [pc |-> "wait", generation |-> g, late |-> FALSE,
                                      answer |-> "none", from |-> 0]]
    /\ UNCHANGED <<state, requestVars, managers, loader, waiting, signalling>>

Superseded(h) == call[h].generation # generation
Available(h) == available # NoSnapshot /\ available.generation = call[h].generation
Answer(h, answer, from) ==
    call' = [call EXCEPT ![h].pc = "idle", ![h].answer = answer, ![h].from = from]

\* Mutant: the deadline is not looked at.
WaitEndsUntimed(h) ==
    /\ Running(h) /\ call[h].pc = "wait"
    /\ \/ Superseded(h) /\ Answer(h, "cancelled", 0)
       \/ ~Superseded(h) /\ error # NoError /\ Answer(h, "error", error)
       \/ /\ ~Superseded(h) /\ error = NoError /\ Available(h)
          /\ Answer(h, "ok", available.engine)
    /\ UNCHANGED <<state, requestVars, managers, loader, waiting, signalling>>

\* One look of wait, under the lock: the first of the answers that applies.
WaitEnds(h) ==
    /\ Running(h) /\ call[h].pc = "wait"
    /\ \/ Superseded(h) /\ Answer(h, "cancelled", 0)
       \/ ~Superseded(h) /\ error # NoError /\ Answer(h, "error", error)
       \/ /\ ~Superseded(h) /\ error = NoError /\ Available(h)
          /\ Answer(h, "ok", available.engine)
       \/ /\ ~Superseded(h) /\ error = NoError /\ ~Available(h) /\ call[h].late
          /\ Answer(h, "timeout", 0)
    /\ UNCHANGED <<state, requestVars, managers, loader, waiting, signalling>>

WaitSleeps(h) ==
    /\ Running(h) /\ call[h].pc = "wait"
    /\ ~Superseded(h) /\ error = NoError /\ ~Available(h) /\ ~call[h].late
    /\ waiting' = waiting \cup {h}
    /\ UNCHANGED <<state, requestVars, managers, loader, call, signalling>>

Next ==
    \/ LoaderStep \/ LoadReturns \/ ComesDue
    \/ \E h \in Hosts :
         \/ \E to \in Hosts : Clone(h, to)
         \/ Drop(h) \/ ShutDown(h) \/ RequestReload(h)
         \/ StartWait(h) \/ WaitEnds(h) \/ WaitSleeps(h) \/ DeadlinePasses(h)
    \/ \E t \in Threads : Signal(t) \/ WakeUp(t)

Spec == Init /\ [][Next]_vars

\* A wait with a time limit ends at it.
TimeIsUp(t) ==
    \/ t = Loader /\ lpc = "doze" /\ due
    \/ t \in Hosts /\ call[t].late

\* Time passes and every thread that can go on does, inside the calls that have
\* been made; nobody has to make one, and a preparation may take for ever.
HostFairness ==
    /\ WF_vars(LoaderStep) /\ WF_vars(ComesDue)
    /\ \A h \in Hosts :
         /\ WF_vars(WaitEnds(h) \/ WaitSleeps(h))
         /\ WF_vars(ShutDown(h)) /\ WF_vars(DeadlinePasses(h))
    /\ \A t \in Threads : WF_vars(Signal(t)) /\ WF_vars(TimeIsUp(t) /\ WakeUp(t))

HostFairSpec == Spec /\ HostFairness
PreparationsEnd == WF_vars(LoadReturns)

-----------------------------------------------------------------------------
Snapshot == [generation : Nat, engine : Nat]
Error == Nat \cup {NoError, SpawnError}
Call == [pc : {"none", "idle", "wait", "last"}, generation : Nat, late : BOOLEAN,
         answer : {"none", "ok", "error", "cancelled", "timeout"}, from : Error]
LoaderPc == {"look", "sleep", "doze", "load", "publish", "gone"}
LoadType == [generation : Nat, config : Nat, ok : BOOLEAN]

\* Every variable has its type.
TypeOK ==
    /\ generation \in Nat
    /\ loading \in BOOLEAN
    /\ available \in Snapshot
    /\ error \in Error /\ workerError \in {NoError, SpawnError}
    /\ shutdown \in BOOLEAN
    /\ request \in Nat
    /\ due \in BOOLEAN
    /\ managers \in Nat
    /\ lpc \in LoaderPc /\ load \in LoadType
    /\ call \in [Hosts -> Call]
    /\ waiting \subseteq Threads /\ signalling \subseteq Threads

\* get: strictly the engine of the latest request.
Get == IF available.generation = generation /\ error = NoError THEN available ELSE NoSnapshot

Holders == {h \in Hosts : call[h].pc \in {"idle", "wait"}}

\* Whatever is available or answered belongs to the request it is taken for: an
\* engine was prepared from the configuration of its generation, a wait gets that
\* engine or that preparation's own error, and is cancelled only by a later one.
AnswerIsForItsRequest ==
    /\ available.engine = available.generation
    /\ error \in {NoError, workerError, generation}
    /\ \A h \in Hosts :
         CASE call[h].answer = "ok" -> call[h].from = call[h].generation
           [] call[h].answer = "error" -> call[h].from \in {call[h].generation, workerError}
           [] call[h].answer = "cancelled" -> call[h].generation < generation
           [] OTHER -> TRUE

\* The loader serves as long as there is a handle: it has not stopped and will
\* not, and what the status calls loading is requested or being prepared.
LoaderServes ==
    Holders # {} /\ workerError = NoError =>
        /\ ~shutdown /\ lpc # "gone"
        /\ loading <=> (~NoRequest \/ (lpc \in {"load", "publish"} /\ Current))

\* A sleeping loader is about to be notified when there is a request it did not
\* know of, and has been when the last handle is gone for good.
LoaderIsWoken ==
    Loader \in waiting =>
        /\ ~shutdown
        /\ lpc = "sleep" /\ ~NoRequest => signalling # {}

\* A sleeping caller of wait that has an answer is about to be notified.
WaiterIsWoken ==
    \A h \in waiting \cap Hosts :
        Superseded(h) \/ error # NoError \/ Available(h) => signalling # {}

\* No thread sleeps through what it waits for.
AllWoken == LoaderIsWoken /\ WaiterIsWoken

Swap == INSTANCE HotSwap WITH
    wanted <- generation, available <- available.generation,
    broken <- workerError # NoError,
    status <- IF error # NoError THEN "failed" ELSE IF Get # NoSnapshot THEN "ready"
              ELSE IF loading THEN "loading" ELSE "idle"

\* The manager keeps its promise: loads that end late, in whatever order with
\* new requests, publish nothing, and what get returns is the latest request's.
ImplementsHotSwap == Swap!SwapSpec

WaitsEnd == \A h \in Hosts : call[h].pc = "wait" ~> call[h].pc # "wait"
LoadsEnd == loading ~> ~loading \/ shutdown
LoaderEnds == managers = 0 ~> lpc = "gone"

\* wait returns, even when a preparation never does.  When preparations end, so
\* does every load once the requests stop, and after the last handle the loader
\* thread is gone.
CallsAndLoadsEnd == WaitsEnd /\ (PreparationsEnd => LoadsEnd /\ LoaderEnds)
===============================================================================
