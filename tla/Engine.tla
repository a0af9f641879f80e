--------------------------------- MODULE Engine ---------------------------------
(***************************************************************************)
(* Calls of start and transcribe on the clones of one engine               *)
(* (src/src/engine.rs): session permits, the network shared by its         *)
(* sessions, the session threads (src/src/coordinator.rs), and a recording *)
(* pushed against one deadline.  A call owns the session it starts, and    *)
(* the session's thread outlives both.                                     *)
(*                                                                         *)
(* The session is what engine and host see of Session: an input that takes *)
(* chunks until it is closed, and an outcome.  Its driver may hang.  The   *)
(* backend is one that needs the network.                                  *)
(***************************************************************************)
EXTENDS Naturals, FiniteSets

CONSTANTS
    Calls,              \* each starts at most one session
    Transcriptions,     \* the calls of transcribe; the others are of start
    MaxActiveSessions,
    Chunks,             \* of every recording
    QueueChunks,        \* the input queue holds so many
    NoCall

ASSUME EngineAssumption ==
    /\ IsFiniteSet(Calls) /\ Transcriptions \subseteq Calls /\ NoCall \notin Calls
    /\ {MaxActiveSessions, QueueChunks} \subseteq Nat \ {0} /\ Chunks \in Nat

VARIABLES
    pc, expired,        \* where the call is, whether its deadline has passed
    sessions,           \* the permits given out
    slot, slotLock,     \* the cached network, who is building one
    built,              \* the networks built, and for each call the one it uses
    network,
    worker,             \* the session's thread: "none", "running", "finished",
                        \* "checked", "gone"
    accepting, pushed, heard, outcome   \* the session of a call

callVars == <<pc, expired>>
networkVars == <<slot, slotLock, built, network>>
sessionVars == <<accepting, pushed, heard, outcome>>
vars == <<callVars, sessions, networkVars, worker, sessionVars>>

NoNetwork == 0

EngineInit ==
    /\ pc = [c \in Calls |-> "idle"] /\ expired = [c \in Calls |-> FALSE]
    /\ sessions = 0
    /\ slot = NoNetwork /\ slotLock = NoCall /\ built = 0
    /\ network = [c \in Calls |-> NoNetwork]
    /\ worker = [c \in Calls |-> "none"]
    /\ accepting = [c \in Calls |-> FALSE]
    /\ pushed = [c \in Calls |-> 0] /\ heard = [c \in Calls |-> 0]
    /\ outcome = [c \in Calls |-> "none"]

Goes(c, place) == pc' = [pc EXCEPT ![c] = place] /\ UNCHANGED expired
Release == sessions' = sessions - 1

-----------------------------------------------------------------------------
\* validate_transcribe_input
ValidateRecording(c) ==
    /\ c \in Transcriptions /\ pc[c] = "idle"
    /\ \E place \in {"refused", "validated"} : Goes(c, place)
    /\ UNCHANGED <<sessions, networkVars, worker, sessionVars>>
\* start_internal, after transcribe's second look at its deadline
ValidateHints(c) ==
    /\ pc[c] = IF c \in Transcriptions THEN "validated" ELSE "idle"
    /\ \/ Goes(c, "refused")
       \/ ~expired[c] /\ Goes(c, "permit")
    /\ UNCHANGED <<sessions, networkVars, worker, sessionVars>>

\* Permit::acquire
Acquire(c) ==
    /\ pc[c] = "permit"
    /\ \/ sessions >= MaxActiveSessions /\ Goes(c, "refused") /\ UNCHANGED sessions
       \/ sessions < MaxActiveSessions /\ Goes(c, "driver") /\ sessions' = sessions + 1
    /\ UNCHANGED <<networkVars, worker, sessionVars>>

\* Mutant: the lock is given up while the network is built.
LookUnlocked(c) ==
    /\ pc[c] = "driver"
    /\ \/ /\ slot # NoNetwork
          /\ network' = [network EXCEPT ![c] = slot]
          /\ Goes(c, "spawn") /\ UNCHANGED <<slot, slotLock, built>>
       \/ slot = NoNetwork /\ Goes(c, "build") /\ UNCHANGED <<slot, slotLock, built, network>>
    /\ UNCHANGED <<sessions, worker, sessionVars>>
\* init_on_success holds the lock from its look at the slot to its store.
LookAtSlot(c) ==
    /\ pc[c] = "driver" /\ slotLock = NoCall
    /\ \/ /\ slot # NoNetwork
          /\ network' = [network EXCEPT ![c] = slot]
          /\ Goes(c, "spawn") /\ UNCHANGED <<slot, slotLock, built>>
       \/ slot = NoNetwork /\ slotLock' = c /\ Goes(c, "build") /\ UNCHANGED <<slot, built, network>>
    /\ UNCHANGED <<sessions, worker, sessionVars>>

Build(c) ==
    /\ pc[c] = "build"
    /\ built' = built + 1 /\ slot' = built' /\ slotLock' = NoCall
    /\ network' = [network EXCEPT ![c] = built']
    /\ Goes(c, "spawn")
    /\ UNCHANGED <<sessions, worker, sessionVars>>
\* An error or a panic: nothing is cached, a poisoned lock is taken all the same,
\* and the permit is dropped.
BuildFails(c) ==
    /\ pc[c] = "build"
    /\ slotLock' = NoCall
    /\ Goes(c, "refused") /\ Release
    /\ UNCHANGED <<slot, built, network, worker, sessionVars>>

\* spawn_with_deadline: the permit moves into the session's thread, or goes with
\* the options that are refused or the thread that cannot be started.
Spawn(c) ==
    /\ pc[c] = "spawn"
    /\ worker' = [worker EXCEPT ![c] = "running"]
    /\ accepting' = [accepting EXCEPT ![c] = TRUE]
    /\ Goes(c, IF c \in Transcriptions THEN "push" ELSE "open")
    /\ UNCHANGED <<sessions, networkVars, pushed, heard, outcome>>
\* Mutant: the permit is lost with the thread that could not be started.
SpawnKeepingPermit(c) ==
    /\ pc[c] = "spawn" /\ Goes(c, "refused")
    /\ UNCHANGED <<sessions, networkVars, worker, sessionVars>>
SpawnFails(c) ==
    /\ pc[c] = "spawn" /\ Goes(c, "refused") /\ Release
    /\ UNCHANGED <<networkVars, worker, sessionVars>>

-----------------------------------------------------------------------------
\* The session: the first outcome stands.
Settled(c, result) ==
    IF outcome[c] # "none" THEN UNCHANGED sessionVars
    ELSE /\ outcome' = [outcome EXCEPT ![c] = result]
         /\ accepting' = [accepting EXCEPT ![c] = FALSE]
         /\ UNCHANGED <<pushed, heard>>
CallStep(c) == UNCHANGED <<sessions, networkVars, worker>>

\* transcribe: the chunks in turn, each waiting for space; a chunk that is
\* refused fails the session, and the deadline ends the loop.
PushChunk(c) ==
    /\ pc[c] = "push" /\ pushed[c] < Chunks
    /\ accepting[c] /\ ~expired[c] /\ pushed[c] - heard[c] < QueueChunks
    /\ pushed' = [pushed EXCEPT ![c] = @ + 1]
    /\ UNCHANGED <<callVars, accepting, heard, outcome>>
    /\ CallStep(c)
PushRefused(c) ==
    /\ pc[c] = "push" /\ pushed[c] < Chunks
    /\ ~accepting[c] \/ expired[c]
    /\ Settled(c, "error")
    /\ Goes(c, "returned")
    /\ CallStep(c)
FinishCall(c) ==
    /\ \/ pc[c] = "push" /\ (pushed[c] = Chunks \/ expired[c])
       \/ pc[c] = "open"
    /\ accepting' = [accepting EXCEPT ![c] = FALSE]
    /\ Goes(c, "finish") /\ UNCHANGED <<pushed, heard, outcome>>
    /\ CallStep(c)
\* Mutant: the wait has no limit.
FinishWaits(c) ==
    /\ pc[c] = "finish" /\ outcome[c] # "none"
    /\ Goes(c, "returned") /\ UNCHANGED sessionVars
    /\ CallStep(c)
FinishReturns(c) ==
    /\ pc[c] = "finish" /\ (outcome[c] # "none" \/ expired[c])
    /\ Settled(c, "error")
    /\ Goes(c, "returned")
    /\ CallStep(c)

\* A host with an open session finishes it, or cancels or drops it.
Cancel(c) ==
    /\ pc[c] = "open" /\ Settled(c, "error")
    /\ Goes(c, "returned")
    /\ CallStep(c)
\* The deadline of transcribe, or of the finish of a session that start began
Tick(c) ==
    /\ pc[c] \notin {"idle", "refused", "returned"}
    /\ c \in Transcriptions \/ pc[c] = "finish"
    /\ ~expired[c] /\ expired' = [expired EXCEPT ![c] = TRUE]
    /\ UNCHANGED <<pc, sessionVars>>
    /\ CallStep(c)

\* The session's thread
WorkerGoes(c, place) == worker' = [worker EXCEPT ![c] = place] /\ UNCHANGED sessionVars

WorkerHears(c) ==
    /\ worker[c] = "running" /\ outcome[c] = "none" /\ heard[c] < pushed[c]
    /\ heard' = [heard EXCEPT ![c] = @ + 1]
    /\ UNCHANGED <<worker, accepting, pushed, outcome>>
\* An error of the driver, a panic, or the deadline.
WorkerFails(c) ==
    /\ worker[c] = "running" /\ Settled(c, "error")
    /\ UNCHANGED worker
DriverFinishes(c) ==
    /\ worker[c] = "running" /\ outcome[c] = "none"
    /\ ~accepting[c] /\ heard[c] = pushed[c]
    /\ WorkerGoes(c, "finished")
\* Mutant: a finished driver's results stand, late or not.
LastCheckUntimed(c) ==
    /\ worker[c] = "finished" /\ outcome[c] = "none"
    /\ WorkerGoes(c, "checked")
LastCheck(c) ==
    /\ worker[c] = "finished" /\ outcome[c] = "none"
    /\ \/ expired[c] /\ Settled(c, "error") /\ UNCHANGED worker
       \/ ~expired[c] /\ WorkerGoes(c, "checked")
Complete(c) ==
    /\ worker[c] = "checked" /\ outcome[c] = "none"
    /\ \E result \in {"ok", "error"} : Settled(c, result)
    /\ UNCHANGED worker
Worker(c) ==
    /\ WorkerHears(c) \/ WorkerFails(c) \/ DriverFinishes(c) \/ LastCheck(c) \/ Complete(c)
    /\ UNCHANGED <<callVars, sessions, networkVars>>
\* The run has ended: what it has to say is late, and its permit is dropped.
HasWorker(c) == worker[c] \notin {"none", "gone"}
WorkerExits(c) ==
    /\ HasWorker(c) /\ outcome[c] # "none"
    /\ worker' = [worker EXCEPT ![c] = "gone"] /\ Release
    /\ UNCHANGED <<callVars, networkVars, sessionVars>>

-----------------------------------------------------------------------------
StartStep(c) ==
    \/ ValidateRecording(c) \/ ValidateHints(c) \/ Acquire(c) \/ LookAtSlot(c) \/ Build(c) \/ BuildFails(c)
    \/ Spawn(c) \/ SpawnFails(c)
TranscribeStep(c) == PushChunk(c) \/ PushRefused(c) \/ FinishCall(c) \/ FinishReturns(c)
EngineNext ==
    \E c \in Calls :
        \/ StartStep(c) \/ TranscribeStep(c)
        \/ Cancel(c) \/ Tick(c) \/ Worker(c) \/ WorkerExits(c)
EngineSpec == EngineInit /\ [][EngineNext]_vars

\* The steps of a call that has begun, and the clock, go on; the driver may hang,
\* and a host may leave a session open.
Begun(c) == pc[c] # "idle" /\ (StartStep(c) \/ (c \in Transcriptions /\ TranscribeStep(c)))
FairEngineSpec ==
    EngineSpec /\ \A c \in Calls : WF_vars(Begun(c)) /\ WF_vars(Tick(c))

-----------------------------------------------------------------------------
Holders == {c \in Calls : pc[c] \in {"driver", "build", "spawn"} \/ HasWorker(c)}

\* No permit is lost or given out twice, whichever step of start fails, and
\* whether the session's host or its thread is gone first: one for each call on
\* its way to a session and each running thread, within the limit.
PermitsAccounted ==
    /\ sessions = Cardinality(Holders)
    /\ sessions <= MaxActiveSessions

\* However many sessions find no network at once and however many attempts to
\* build one fail, all sessions share one.
OneNetwork == \A c \in Calls : network[c] \in {NoNetwork, slot}

\* A transcription that succeeds has heard the whole recording: when the deadline
\* cuts it short, the input is closed as it is for a complete one, and nothing
\* but the deadline tells the worker that this is not all.
TranscribesInFull ==
    \A c \in Calls :
        c \in Transcriptions /\ outcome[c] = "ok" => heard[c] = Chunks

\* transcribe returns, even when the driver never does.
TranscribeReturns ==
    \A c \in Calls :
        c \in Transcriptions /\ pc[c] # "idle" ~> pc[c] \in {"refused", "returned"}
===============================================================================
