------------------------------- MODULE LiveView -------------------------------
(***************************************************************************)
(* The single live subscription of a session: the update queue kept by     *)
(* src/src/session/observe.rs behind every change that                     *)
(* src/src/coordinator.rs makes to the result store and to the phase, the  *)
(* subscriber that waits on the session's condition variable, and the view *)
(* a host rebuilds from what it receives (src/examples/microphone.rs).     *)
(*                                                                         *)
(* A caller changes the state under the session lock and wakes the waiting *)
(* subscriber only after it has released it: between the two it is in      *)
(* signalling, and the other threads run.  The worker is the only thread   *)
(* that calls the result store; the host finishes and cancels.  Frame      *)
(* counts and the error text of a view are left out.                       *)
(***************************************************************************)
EXTENDS ResultStore, SequencesExt

CONSTANT EventCapacity
ASSUME EventCapacityAssumption == EventCapacity \in Nat \ {0}

VARIABLES
    phase,         \* of the session
    updates,       \* the queued updates
    needsReset,    \* the next read delivers the whole view
    subscriber,    \* "absent", "active", "waiting", "done" or "dropped"
    host,          \* the view the host has rebuilt
    signalling     \* the threads that still have to notify

queueVars == <<updates, needsReset>>
hostVars == <<subscriber, host>>
vars == <<storeVars, phase, queueVars, hostVars, signalling>>

Terminal == {"Completed", "Failed", "Cancelled"}
Phases == {"Starting", "Running", "Finishing"} \cup Terminal
Enabled == subscriber \in {"active", "waiting", "done"}
CurrentView == [phase |-> phase, transcript |-> transcript, partials |-> partials]

LiveInit ==
    /\ Init
    /\ phase = "Starting"
    /\ updates = <<>> /\ needsReset = FALSE
    /\ subscriber = "absent"
    /\ host = [phase |-> "Starting", transcript |-> <<>>, partials |-> partials]
    /\ signalling = {}

-----------------------------------------------------------------------------
\* observe.rs: what each kind of change does to the queue.
Observing == Enabled /\ ~needsReset
PhaseUpdates == [kind : {"phase"}, phase : Phases]
PartialUpdates(id) == [kind : {"partial"}, id : {id}, revision : Nat, text : Seq(Chars)]
Without(queue, id) == Retain(queue, PartialUpdates(id))
RequireReset == updates' = <<>> /\ needsReset' = TRUE
Push(queue, u) ==
    \/ Len(queue) >= EventCapacity /\ RequireReset
    \/ Len(queue) < EventCapacity /\ updates' = Append(queue, u) /\ UNCHANGED needsReset

PhaseUpdate(p) == [kind |-> "phase", phase |-> p]
PartialUpdate(id, p) ==
    [kind |-> "partial", id |-> id, revision |-> p.revision, text |-> p.text]
SegmentUpdate(s) == [kind |-> "segment", segment |-> s]

\* observe::phase: only the latest phase stays queued.
ObservePhase ==
    \/ ~Observing /\ UNCHANGED queueVars
    \/ Observing /\ Push(Retain(updates, PhaseUpdates), PhaseUpdate(phase'))

\* observe::partial: only the latest partial of an id stays queued.
ObservePartial(id) ==
    \/ ~Observing /\ UNCHANGED queueVars
    \/ Observing /\ Push(Without(updates, id), PartialUpdate(id, partials'[id]))

\* observe::final_segments; the queue after each of the segments
Pushed(queue, segments) ==
    LET after[n \in 0..Len(segments)] ==
            IF n = 0 THEN queue
            ELSE Append(Without(after[n - 1], segments[n].id), SegmentUpdate(segments[n]))
    IN  after
ObserveFinals(id, segments, removed) ==
    LET after == Pushed(Without(updates, id), segments)
        overflow == \E n \in DOMAIN segments :
                        Len(Without(after[n - 1], segments[n].id)) >= EventCapacity
        reset == overflow \/ (removed /\ segments = <<>>)
    IN  \/ ~Observing /\ UNCHANGED queueVars
        \/ Observing /\ reset /\ RequireReset
        \/ /\ Observing /\ ~reset
           /\ updates' = after[Len(segments)]
           /\ UNCHANGED needsReset

\* Mutant: neither asks for a Reset.
Unobserved == UNCHANGED queueVars

\* observe::partial_removed_without_segment
ObserveRemoval == IF Observing THEN RequireReset ELSE UNCHANGED queueVars

\* observe::terminal
ObserveTerminal == IF Enabled THEN RequireReset ELSE UNCHANGED queueVars

-----------------------------------------------------------------------------
\* coordinator.rs: the calls of the worker's driver.  A call on a settled
\* session does nothing; one the store refuses changes and notifies nothing.
\* Mutant: the change is not followed by signal().
CallingSilently(thread, changes) == thread \notin signalling /\ UNCHANGED signalling
Calling(thread, changes) ==
    /\ thread \notin signalling
    /\ signalling' = IF changes THEN signalling \cup {thread} ELSE signalling

WorkerRegisterId(id) ==
    /\ RegisterId(id)
    /\ Calling("worker", FALSE)
    /\ UNCHANGED <<phase, queueVars, hostVars>>

WorkerPartial(id) ==
    /\ \/ \E t \in Texts : SetPartial(id, t)
       \/ \E d \in Deltas : AppendDelta(id, d)
    /\ Calling("worker", reply'.changed)
    /\ IF reply'.changed THEN ObservePartial(id) ELSE UNCHANGED queueVars
    /\ UNCHANGED <<phase, hostVars>>

WorkerCommit(i, id) ==
    /\ IndexUnindexed(i, id) \/ \E t \in Texts : Commit(i, id, t)
    /\ Calling("worker", reply'.error = "none")
    /\ IF reply'.error = "none" THEN ObserveFinals(id, reply'.segments, reply'.removed)
                                ELSE UNCHANGED queueVars
    /\ UNCHANGED <<phase, hostVars>>

WorkerCompleteUnindexed(id) ==
    /\ \E t \in Texts : CompleteUnindexed(id, t)
    /\ Calling("worker", reply'.error = "none")
    /\ IF reply'.changed /\ reply'.removed THEN ObserveRemoval ELSE UNCHANGED queueVars
    /\ UNCHANGED <<phase, hostVars>>

\* The worker's driver has started.
WorkerRunning ==
    /\ phase = "Starting"
    /\ phase' = "Running"
    /\ ObservePhase
    /\ Calling("worker", TRUE)
    /\ UNCHANGED <<storeVars, hostVars>>

\* The worker has returned: after a finish, or before with an error.
WorkerComplete ==
    /\ phase = "Finishing"
    /\ Complete
    /\ phase' = IF outcome' = "ok" THEN "Completed" ELSE "Failed"
    /\ ObserveTerminal
    /\ Calling("worker", TRUE)
    /\ UNCHANGED hostVars

\* A failure of the worker, or the host's cancellation or finish timeout.
FailWith(thread, p) ==
    /\ FailSession
    /\ phase' = p
    /\ ObserveTerminal
    /\ Calling(thread, TRUE)
    /\ UNCHANGED hostVars

\* request_finish, as often as the host likes
RequestFinish ==
    /\ outcome = "none"
    /\ phase' = "Finishing"
    /\ ObservePhase
    /\ Calling("host", TRUE)
    /\ UNCHANGED <<storeVars, hostVars>>

\* changed.notify_all()
Signal(thread) ==
    /\ thread \in signalling
    /\ signalling' = signalling \ {thread}
    /\ subscriber' = IF subscriber = "waiting" THEN "active" ELSE subscriber
    /\ UNCHANGED <<storeVars, phase, queueVars, host>>

-----------------------------------------------------------------------------
\* subscribe succeeds once; nothing has to be notified, nobody can wait yet.
Subscribe ==
    /\ subscriber = "absent"
    /\ subscriber' = "active"
    /\ RequireReset
    /\ UNCHANGED <<storeVars, phase, host, signalling>>

\* What the host does with an update.
Apply(view, u) ==
    CASE u.kind = "phase" -> [view EXCEPT !.phase = u.phase]
      [] u.kind = "partial" ->
           [view EXCEPT !.partials[u.id] = [revision |-> u.revision, text |-> u.text]]
      [] u.kind = "segment" ->
           [view EXCEPT !.transcript = Append(@, u.segment),
                        !.partials[u.segment.id] = NoPartial]

\* One round of Subscription::recv
ReceiveReset ==
    /\ subscriber = "active" /\ needsReset
    /\ host' = CurrentView
    /\ updates' = <<>> /\ needsReset' = FALSE
    /\ UNCHANGED <<storeVars, phase, subscriber, signalling>>

ReceiveUpdate ==
    /\ subscriber = "active" /\ ~needsReset /\ updates # <<>>
    /\ host' = Apply(host, Head(updates))
    /\ updates' = Tail(updates)
    /\ UNCHANGED <<storeVars, phase, needsReset, subscriber, signalling>>

\* Mutant: an empty queue always means waiting.
ReceiveOrWait ==
    /\ subscriber = "active" /\ ~needsReset /\ updates = <<>>
    /\ subscriber' = "waiting"
    /\ UNCHANGED <<storeVars, phase, queueVars, host, signalling>>

ReceiveNothing ==
    /\ subscriber = "active" /\ ~needsReset /\ updates = <<>>
    /\ subscriber' = IF outcome = "none" THEN "waiting" ELSE "done"
    /\ UNCHANGED <<storeVars, phase, queueVars, host, signalling>>

\* Subscription::drop, between two reads
DropSubscription ==
    /\ subscriber = "active"
    /\ subscriber' = "dropped"
    /\ updates' = <<>> /\ needsReset' = FALSE
    /\ UNCHANGED <<storeVars, phase, host, signalling>>

Receive == ReceiveReset \/ ReceiveUpdate \/ ReceiveNothing

LiveNext ==
    \/ \E id \in Ids : \/ WorkerRegisterId(id)
                       \/ WorkerPartial(id)
                       \/ WorkerCompleteUnindexed(id)
                       \/ \E i \in Indexes : WorkerCommit(i, id)
    \/ WorkerRunning \/ WorkerComplete
    \/ FailWith("worker", "Failed")
    \/ \E p \in {"Failed", "Cancelled"} : FailWith("host", p)
    \/ RequestFinish
    \/ \E thread \in {"worker", "host"} : Signal(thread)
    \/ Subscribe \/ Receive \/ DropSubscription

LiveSpec == LiveInit /\ [][LiveNext]_vars
\* A thread that has released the lock goes on to notify; a host that keeps its
\* subscription keeps reading.
FairLiveSpec ==
    /\ LiveSpec
    /\ WF_vars(Receive)
    /\ \A thread \in {"worker", "host"} : WF_vars(Signal(thread))

-----------------------------------------------------------------------------
\* What the host will have once it has read everything that is queued.
CaughtUp == FoldLeft(Apply, host, updates)
Stale(view) == {id \in Ids : view.partials[id] # partials[id]}

\* Increments alone, with no further Reset, bring the host to the session's
\* transcript, its phase and every live partial, whatever was coalesced in the
\* queue; only an id whose final was blank can be shown differently.
IncrementsSuffice ==
    Enabled /\ ~needsReset =>
        /\ CaughtUp.transcript = transcript
        /\ CaughtUp.phase = phase
        /\ \A id \in Stale(CaughtUp) :
             completed[id] \in Nat /\ ~\E s \in TranscriptSet \cup pending : s.id = id

\* docs/architecture.md: the partial of an id is removed once it is confirmed,
\* so a host that has read everything shows no partial of a completed id.
ConfirmedPartialsAreRemoved ==
    Enabled /\ ~needsReset =>
        \A id \in Ids : completed[id] # Open => CaughtUp.partials[id] = NoPartial

\* The host never shows a partial next to the final of the same id.
NoPartialBesideItsFinal ==
    \A k \in DOMAIN host.transcript : host.partials[host.transcript[k].id] = NoPartial

\* A disconnected host has the final state: the last thing it read was the
\* terminal Reset, and nothing has changed since.
DisconnectedHostIsUpToDate == subscriber = "done" => host = CurrentView /\ phase \in Terminal

\* What a host reads is, or becomes, what the session holds.
ViewConverges == IncrementsSuffice /\ NoPartialBesideItsFinal /\ DisconnectedHostIsUpToDate

\* Nothing the host has seen confirmed is taken back, and a partial it shows is
\* only ever replaced by a later revision, across Resets too.
HostNeverGoesBack ==
    [][/\ Len(host'.transcript) >= Len(host.transcript)
       /\ SubSeq(host'.transcript, 1, Len(host.transcript)) = host.transcript
       /\ \A id \in Ids : host'.partials[id] # NoPartial =>
             \/ host'.partials[id] = host.partials[id]
             \/ host'.partials[id].revision > host.partials[id].revision]_vars

\* A subscriber that waits while something can be delivered is about to be
\* woken: no notification is lost between a change and the wait.
NoLostWakeup ==
    subscriber = "waiting" /\ (needsReset \/ updates # <<>> \/ outcome # "none")
        => signalling # {}

\* Once the session has settled, a subscriber gets to the end of its stream.
SubscriberDisconnects ==
    (outcome # "none" /\ subscriber \in {"active", "waiting"})
        ~> (subscriber \in {"done", "dropped"})
===============================================================================
