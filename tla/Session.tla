------------------------------- MODULE Session -------------------------------
(***************************************************************************)
(* One session: the state behind its lock, the worker thread that runs the *)
(* driver (src/src/session/worker.rs), the host threads that push audio,   *)
(* finish, cancel and drop (src/src/coordinator.rs), one condition         *)
(* variable for all of them, and the clock their deadlines are read from.  *)
(*                                                                         *)
(* Each critical section is one action.  Who changed the state notifies    *)
(* after the section: a thread in signalling has still to do it.  waiting  *)
(* are the threads inside changed.wait or changed.wait_timeout.            *)
(*                                                                         *)
(* A chunk is its number of frames.  The result store is abstracted to the *)
(* number of finals it took and whether one of them lacks its place in the *)
(* order (ResultStore and LiveView have the details).                      *)
(***************************************************************************)
EXTENDS Integers, Sequences

CONSTANTS
    Producers, Finishers,     \* host threads: inside push calls, inside finish
    Worker, Canceller,        \* the worker thread; the thread that cancels or fails
    ChunkSizes,               \* sizes of the chunks pushed
    Capacity,                 \* frames the queue may hold
    MaxQueueChunks,           \* chunks the queue may hold
    MaxSessionFrames,         \* frames the session may receive
    MaxFinals,                \* bound: the finals the driver commits
    Deadlines, MaxTime,       \* deadlines of calls; bound: where the clock stops
    NoDeadline

ASSUME SessionAssumption ==
    /\ Capacity \in Nat /\ MaxQueueChunks \in Nat /\ MaxSessionFrames \in Nat
    /\ MaxFinals \in Nat /\ MaxTime \in Nat
    /\ ChunkSizes \subseteq 0..Capacity     \* geometry: no chunk exceeds the queue
    /\ Deadlines \subseteq Nat /\ NoDeadline \notin Nat
    /\ Producers \cap Finishers = {} /\ Worker \notin Producers \cup Finishers

VARIABLES
    phase, accepting, finishing, deadline, outcome,    \* Lifecycle
    queue, queued, received, processed,                \* InputBuffer
    finals, misplaced,         \* ResultStore
    polls,                     \* the driver has a poll interval
    wpc, inFlight, sink,       \* the worker, its chunk, its driver's call of the sink
    push,                      \* per producer: [pc, size, deadline]
    finish,                    \* per finisher: [pc, deadline, result]
    waiting, signalling, now

lifecycle == <<phase, accepting, finishing, deadline, outcome>>
input == <<queue, queued, received, processed>>
results == <<finals, misplaced>>
worker == <<wpc, inFlight, sink>>
calls == <<push, finish>>
vars == <<lifecycle, input, results, polls, worker, calls, waiting, signalling, now>>

Threads == Producers \cup Finishers \cup {Worker, Canceller}
NoOutcome == [result |-> "none", received |-> 0, processed |-> 0, finals |-> 0]
Settled == outcome.result # "none"
Passed(d) == d # NoDeadline /\ now >= d
\* Mutant (as everywhere below: what a plausible bug would make of the next
\* definition; nothing uses it): a finish does not bring its deadline.
KeptDeadline(d, e) == d
Earlier(d, e) == IF d = NoDeadline \/ e < d THEN e ELSE d

Init ==
    /\ phase = "Starting" /\ accepting = TRUE /\ finishing = FALSE
    /\ deadline \in Deadlines \cup {NoDeadline}
    /\ outcome = NoOutcome
    /\ queue = <<>> /\ queued = 0 /\ received = 0 /\ processed = 0
    /\ finals = 0 /\ misplaced = FALSE
    /\ polls \in BOOLEAN
    /\ wpc = "start" /\ inFlight = 0 /\ sink = "idle"
    /\ push = [p \in Producers |-> [pc |-> "idle", size |-> 0, deadline |-> NoDeadline]]
    /\ finish = [f \in Finishers |-> [pc |-> "idle", deadline |-> NoDeadline, result |-> NoOutcome]]
    /\ waiting = {} /\ signalling = {} /\ now = 0

-----------------------------------------------------------------------------
\* Threads and the lock.
Running(t) == t \notin waiting /\ t \notin signalling
Notify(t) == signalling' = signalling \cup {t}
Silent == UNCHANGED signalling

\* Mutant: notify_one.
SignalOne(t) ==
    /\ t \in signalling
    /\ signalling' = signalling \ {t}
    /\ IF waiting = {} THEN UNCHANGED waiting ELSE \E u \in waiting : waiting' = waiting \ {u}
    /\ UNCHANGED <<lifecycle, input, results, polls, worker, calls, now>>

\* control.signal()
Signal(t) ==
    /\ t \in signalling
    /\ signalling' = signalling \ {t}
    /\ waiting' = {}
    /\ UNCHANGED <<lifecycle, input, results, polls, worker, calls, now>>

\* A wait also ends at its timeout, or spuriously.
WakeUp(t) ==
    /\ t \in waiting
    /\ waiting' = waiting \ {t}
    /\ UNCHANGED <<lifecycle, input, results, polls, worker, calls, signalling, now>>

Tick ==
    /\ now < MaxTime
    /\ now' = now + 1
    /\ UNCHANGED <<lifecycle, input, results, polls, worker, calls, waiting, signalling>>

\* settle_once_locked; the frame counts and finals the outcome reports are those
\* of this moment.
SetOutcome(result) ==
    /\ phase' = CASE result = "ok" -> "Completed"
                  [] result = "cancelled" -> "Cancelled"
                  [] OTHER -> "Failed"
    /\ outcome' = [result |-> result, received |-> received,
                   processed |-> processed, finals |-> finals]
    /\ accepting' = FALSE
    /\ queue' = <<>> /\ queued' = 0
    /\ UNCHANGED <<finishing, deadline, received, processed>>

\* Mutant: the last one to settle wins.
SettleAgain(result) == SetOutcome(result)
Settle(result) == IF Settled THEN UNCHANGED <<lifecycle, input>> ELSE SetOutcome(result)

-----------------------------------------------------------------------------
\* The worker.  WorkerAt(pc) is a step of it at pc that leads to next.
WorkerAt(pc, next) == Running(Worker) /\ wpc = pc /\ wpc' = next
HostUnchanged == UNCHANGED <<calls, polls, now>>
StateUnchanged == UNCHANGED <<lifecycle, input, results>>

\* Control::check
CheckPasses == ~Settled /\ ~Passed(deadline)

\* What a driver may do in start, push, poll and finish: return, fail or panic,
\* and before that hand finals to the sink.
DriverStates == {"start", "push", "poll", "tail", "finish"}
AfterDriver(pc) ==
    CASE pc = "start" -> "started" [] pc = "push" -> "account" [] pc = "poll" -> "check"
      [] pc = "tail" -> "finish"   [] pc = "finish" -> "lastCheck"

DriverReturns ==
    /\ wpc \in DriverStates /\ sink = "idle"
    /\ WorkerAt(wpc, AfterDriver(wpc)) \/ WorkerAt(wpc, "failing")
    /\ Silent /\ HostUnchanged /\ StateUnchanged /\ UNCHANGED <<inFlight, sink, waiting>>

\* Control::commit: an unlocked check, which fails the driver, then the lock.
SinkCheck ==
    /\ wpc \in DriverStates /\ sink = "idle" /\ finals < MaxFinals
    /\ \/ CheckPasses /\ WorkerAt(wpc, wpc) /\ sink' = "checked"
       \/ ~CheckPasses /\ WorkerAt(wpc, IF Settled THEN "failing" ELSE "late") /\ UNCHANGED sink
    /\ Silent /\ HostUnchanged /\ StateUnchanged /\ UNCHANGED <<inFlight, waiting>>

SinkCommit ==
    /\ sink = "checked" /\ WorkerAt(wpc, wpc)
    /\ sink' = "idle"
    /\ \/ Settled /\ Silent /\ UNCHANGED results
       \/ /\ ~Settled
          /\ finals' = finals + 1 /\ misplaced' \in BOOLEAN
          /\ Notify(Worker)
    /\ HostUnchanged /\ UNCHANGED <<lifecycle, input, inFlight, waiting>>

WorkerStarted ==
    /\ WorkerAt("started", "check")
    /\ phase' = IF phase = "Starting" THEN "Running" ELSE phase
    /\ Notify(Worker)
    /\ HostUnchanged
    /\ UNCHANGED <<accepting, finishing, deadline, outcome, input, results, inFlight, sink, waiting>>

\* The check between two turns of the loop, and the last one.
WorkerCheck ==
    /\ \/ CheckPasses /\ (WorkerAt("check", "turn") \/ WorkerAt("lastCheck", "completing"))
       \/ /\ ~CheckPasses
          /\ \E pc \in {"check", "lastCheck"} : WorkerAt(pc, IF Settled THEN "failing" ELSE "late")
    /\ Silent /\ HostUnchanged /\ StateUnchanged /\ UNCHANGED <<inFlight, sink, waiting>>

\* The turn itself, in one critical section.
TakeChunk ==
    /\ ~Settled /\ queue # <<>>
    /\ WorkerAt("turn", "push")
    /\ queue' = Tail(queue) /\ queued' = queued - Head(queue)
    /\ inFlight' = Head(queue)
    /\ Notify(Worker)
    /\ HostUnchanged /\ UNCHANGED <<lifecycle, results, received, processed, sink, waiting>>

\* Mutant: no second look at the outcome under the lock.
WaitUnchecked ==
    /\ queue = <<>> /\ ~finishing
    /\ WorkerAt("turn", IF polls THEN "poll" ELSE "check")
    /\ waiting' = waiting \cup {Worker}
    /\ Silent /\ HostUnchanged /\ StateUnchanged /\ UNCHANGED <<inFlight, sink>>

Wait ==
    /\ ~Settled /\ queue = <<>> /\ ~finishing
    /\ WorkerAt("turn", IF polls THEN "poll" ELSE "check")
    /\ waiting' = waiting \cup {Worker}
    /\ Silent /\ HostUnchanged /\ StateUnchanged /\ UNCHANGED <<inFlight, sink>>

\* Mutant: a finish is seen before the rest of the queue.
EndTurnAtOnce ==
    /\ WorkerAt("turn", IF Settled THEN "check" ELSE "tail") /\ (Settled \/ finishing)
    /\ Silent /\ HostUnchanged /\ StateUnchanged /\ UNCHANGED <<inFlight, sink, waiting>>

EndTurn ==
    /\ \/ Settled /\ WorkerAt("turn", "check")
       \/ ~Settled /\ queue = <<>> /\ finishing /\ WorkerAt("turn", "tail")
    /\ Silent /\ HostUnchanged /\ StateUnchanged /\ UNCHANGED <<inFlight, sink, waiting>>

AccountChunk ==
    /\ WorkerAt("account", IF polls THEN "poll" ELSE "check")
    /\ processed' = IF Settled THEN processed ELSE processed + inFlight
    /\ inFlight' = 0
    /\ Silent /\ HostUnchanged
    /\ UNCHANGED <<lifecycle, queue, queued, received, results, sink, waiting>>

\* The worker closure's end: complete or fail.  It gives up the permit when gone.
WorkerEnds ==
    /\ \/ WorkerAt("completing", "gone") /\ Settle(IF misplaced THEN "error" ELSE "ok")
       \/ WorkerAt("failing", "gone") /\ Settle("error")
       \/ WorkerAt("late", "gone") /\ Settle("timeout")
    /\ Notify(Worker)
    /\ HostUnchanged /\ UNCHANGED <<results, inFlight, sink, waiting>>

DriverStep == DriverReturns \/ SinkCheck \/ SinkCommit
WorkerStep ==
    \/ WorkerStarted \/ WorkerCheck \/ TakeChunk \/ Wait \/ EndTurn
    \/ AccountChunk \/ WorkerEnds

-----------------------------------------------------------------------------
\* push_wait, and try_push, which has no deadline and gives up on a full queue.
\* Mutant: only the number of chunks is limited.
ChunksFull(size) == Len(queue) >= MaxQueueChunks
QueueFull(size) == Len(queue) >= MaxQueueChunks \/ size > Capacity - queued
PushGoes(p, pc) == Running(p) /\ push' = [push EXCEPT ![p].pc = pc]
PushUnchanged == UNCHANGED <<lifecycle, results, polls, worker, finish, now>>

StartPush(p) ==
    /\ Running(p) /\ push[p].pc = "idle"
    /\ \E size \in ChunkSizes, d \in Deadlines \cup {NoDeadline} :
         push' = [push EXCEPT ![p] = [pc |-> "try", size |-> size, deadline |-> d]]
    /\ Silent /\ PushUnchanged /\ UNCHANGED <<input, waiting>>

\* try_push_inner refuses before it looks at the queue.
Refused(p) == ~accepting \/ Passed(push[p].deadline) \/ received + push[p].size > MaxSessionFrames

PushAnswered(p) ==
    /\ push[p].pc = "try"
    /\ Refused(p) \/ push[p].size = 0
    /\ PushGoes(p, "idle")
    /\ Silent /\ PushUnchanged /\ UNCHANGED <<input, waiting>>

PushFull(p) ==
    /\ push[p].pc = "try" /\ ~Refused(p) /\ push[p].size > 0 /\ QueueFull(push[p].size)
    /\ PushGoes(p, IF push[p].deadline = NoDeadline THEN "idle" ELSE "full")
    /\ Silent /\ PushUnchanged /\ UNCHANGED <<input, waiting>>

PushAccepted(p) ==
    /\ push[p].pc = "try" /\ ~Refused(p) /\ push[p].size > 0 /\ ~QueueFull(push[p].size)
    /\ PushGoes(p, "idle")
    /\ received' = received + push[p].size
    /\ queued' = queued + push[p].size
    /\ queue' = Append(queue, push[p].size)
    /\ Notify(p) /\ PushUnchanged /\ UNCHANGED <<processed, waiting>>

\* The second look of push_wait_inner, under the lock it then waits with.
PushWaits(p) ==
    /\ push[p].pc = "full" /\ PushGoes(p, "try")
    /\ waiting' = IF accepting /\ ~Passed(push[p].deadline) /\ QueueFull(push[p].size)
                  THEN waiting \cup {p} ELSE waiting
    /\ Silent /\ PushUnchanged /\ UNCHANGED input

PushStep(p) == PushAnswered(p) \/ PushFull(p) \/ PushAccepted(p) \/ PushWaits(p)

-----------------------------------------------------------------------------
\* finish(deadline)
FinishUnchanged == UNCHANGED <<results, polls, worker, push, now>>

\* request_finish
RequestFinish(f) ==
    /\ Running(f) /\ finish[f].pc = "idle"
    /\ \E d \in Deadlines :
         /\ finish' = [finish EXCEPT ![f].pc = "wait", ![f].deadline = d]
         /\ IF Settled THEN UNCHANGED lifecycle
            ELSE /\ accepting' = FALSE /\ finishing' = TRUE
                 /\ deadline' = Earlier(deadline, d)
                 /\ phase' = "Finishing"
                 /\ UNCHANGED outcome
    /\ Notify(f) /\ FinishUnchanged /\ UNCHANGED <<input, waiting>>

FinishReturns(f) ==
    /\ Running(f) /\ finish[f].pc = "wait" /\ Settled
    /\ finish' = [finish EXCEPT ![f].pc = "done", ![f].result = outcome]
    /\ Silent /\ FinishUnchanged /\ UNCHANGED <<lifecycle, input, waiting>>

FinishTimesOut(f) ==
    /\ Running(f) /\ finish[f].pc = "wait" /\ ~Settled /\ Passed(deadline)
    /\ Settle("timeout")
    /\ Notify(f) /\ FinishUnchanged /\ UNCHANGED <<finish, waiting>>

FinishWaits(f) ==
    /\ Running(f) /\ finish[f].pc = "wait" /\ ~Settled /\ ~Passed(deadline)
    /\ waiting' = waiting \cup {f}
    /\ Silent /\ FinishUnchanged /\ UNCHANGED <<lifecycle, input, finish>>

FinishStep(f) == FinishReturns(f) \/ FinishTimesOut(f) \/ FinishWaits(f)

\* cancel, Session::drop, fail_input, or a failing capture.  On a settled session
\* they only wake the waiting threads once more, as WakeUp does.
Cancel ==
    /\ Running(Canceller) /\ ~Settled
    /\ Settle("cancelled") \/ Settle("error")
    /\ Notify(Canceller)
    /\ UNCHANGED <<results, polls, worker, calls, waiting, now>>

Next ==
    \/ DriverStep \/ WorkerStep
    \/ \E p \in Producers : StartPush(p) \/ PushStep(p)
    \/ \E f \in Finishers : RequestFinish(f) \/ FinishStep(f)
    \/ Cancel
    \/ \E t \in Threads : Signal(t) \/ WakeUp(t)
    \/ Tick

Spec == Init /\ [][Next]_vars
\* A wait with a time limit whose time is up: the worker's poll interval counts
\* as short, the other limits are deadlines.
TimeIsUp(t) ==
    \/ t = Worker /\ polls
    \/ t \in Producers /\ Passed(push[t].deadline)
    \/ t \in Finishers /\ Passed(deadline)

\* Every thread but the driver's foreign code keeps running, and so does time.
HostFairness ==
    /\ WF_vars(WorkerStep) /\ WF_vars(Tick)
    /\ \A p \in Producers : WF_vars(PushStep(p))
    /\ \A f \in Finishers : WF_vars(FinishStep(f))
    /\ \A t \in Threads : WF_vars(Signal(t)) /\ WF_vars(TimeIsUp(t) /\ WakeUp(t))

\* A driver's start, push, poll and finish come back.
DriverFairness == WF_vars(DriverReturns) /\ WF_vars(SinkCommit)

HostFairSpec == Spec /\ HostFairness

-----------------------------------------------------------------------------
Outcome == [result : {"none", "ok", "cancelled", "timeout", "error"},
            received : Nat, processed : Nat, finals : Nat]
WorkerPc == DriverStates \cup {"started", "check", "turn", "account", "lastCheck",
                               "completing", "failing", "late", "gone"}
Deadline == Nat \cup {NoDeadline}
PushCall == [pc : {"idle", "try", "full"}, size : 0..Capacity, deadline : Deadline]
FinishCall == [pc : {"idle", "wait", "done"}, deadline : Deadline, result : Outcome]

\* Every variable has its type.
TypeOK ==
    /\ phase \in {"Starting", "Running", "Finishing", "Completed", "Cancelled", "Failed"}
    /\ accepting \in BOOLEAN /\ finishing \in BOOLEAN
    /\ deadline \in Deadline /\ outcome \in Outcome
    /\ queue \in Seq(1..Capacity) /\ queued \in Int
    /\ received \in Nat /\ processed \in Nat
    /\ finals \in Nat /\ misplaced \in BOOLEAN /\ polls \in BOOLEAN
    /\ wpc \in WorkerPc /\ inFlight \in Nat /\ sink \in {"idle", "checked"}
    /\ push \in [Producers -> PushCall] /\ finish \in [Finishers -> FinishCall]
    /\ waiting \subseteq Threads /\ signalling \subseteq Threads /\ now \in Nat

QueuedFrames == LET sum[k \in 0..Len(queue)] == IF k = 0 THEN 0 ELSE sum[k - 1] + queue[k]
                IN  sum[Len(queue)]

\* No frame is lost or counted twice between the caller and the driver, and the
\* queue keeps to its limits, which the unsigned `capacity - queued` needs.
FramesAccounted ==
    /\ ~Settled => received = processed + inFlight + queued
    /\ Settled => received >= processed
    /\ queued = QueuedFrames /\ queued <= Capacity /\ Len(queue) <= MaxQueueChunks
    /\ received <= MaxSessionFrames

\* The one outcome stays, and the live counters and results stay what it says:
\* a chunk in flight, a push or a final that comes late changes nothing.
OutcomeStands ==
    Settled => /\ outcome.received = received
               /\ outcome.processed = processed
               /\ outcome.finals = finals
               /\ ~accepting /\ queue = <<>>

\* All finishers get the same answer, and none comes back before there is one.
SameResult == \A f \in Finishers : finish[f].pc = "done" => Settled /\ finish[f].result = outcome

\* The worker does not sleep through work, a finish or the end of the session:
\* when there is one, a notification is on its way.
WorkerIsWoken ==
    Worker \in waiting /\ (queue # <<>> \/ finishing \/ Settled) => signalling # {}

\* Nor do the callers of push_wait and finish sleep through what they wait for.
HostIsWoken ==
    /\ \A p \in Producers \cap waiting :
          ~accepting \/ ~QueueFull(push[p].size) => signalling # {}
    /\ \A f \in Finishers \cap waiting : Settled => signalling # {}

\* No thread sleeps through what it waits for.
AllWoken == WorkerIsWoken /\ HostIsWoken

Promise == INSTANCE SessionPromise WITH
    open <- accepting, ordered <- ~misplaced, result <- outcome.result

\* The session keeps its promise: one result that stands, and a good one only
\* after a finish, when every frame taken was processed and every final placed,
\* however the worker, its driver's late results, pushes, finishes, timeouts and
\* a cancellation interleave.
KeepsPromise == Promise!PromiseSpec

\* finish returns.
FinishReturnsInTime == \A f \in Finishers : finish[f].pc = "wait" ~> finish[f].pc = "done"

\* push_wait returns.
PushReturns == \A p \in Producers : push[p].pc # "idle" ~> push[p].pc = "idle"

\* The blocking calls of the host return, even when the driver never does.
CallsReturn == FinishReturnsInTime /\ PushReturns

\* When the driver's calls come back, a settled session's worker gets to its end
\* and gives its permit back.
PermitReleased == DriverFairness => (Settled ~> wpc = "gone")

\* Everything a session began comes to its end.
CallsAndWorkerEnd == CallsReturn /\ PermitReleased
=============================================================================
