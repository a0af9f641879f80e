-------------------------------- MODULE Capture --------------------------------
(***************************************************************************)
(* A microphone capture (src/src/capture.rs): the device's callback writes *)
(* samples into a ring, a drain thread moves them in batches into the      *)
(* session's input, and the host stops it all.  The three share the ring   *)
(* and four atomic flags, no lock.  The callback, the drain thread and the *)
(* host each take one step per flag or sample.                             *)
(*                                                                         *)
(* The session is what the drain thread sees of Session: an input that     *)
(* takes chunks until it is closed, and an outcome.  Its driver may hang.  *)
(***************************************************************************)
EXTENDS Naturals, SequencesExt

CONSTANTS
    Capacity,           \* frames of the input queue, and of the ring
    Batch,              \* frames the drain thread pushes at once
    MaxSessionFrames,
    MaxSamples          \* bounds what the device delivers

ASSUME CaptureAssumption ==
    /\ {Capacity, Batch, MaxSessionFrames, MaxSamples} \subseteq Nat \ {0}
    /\ Batch <= Capacity

VARIABLES
    device, callback,       \* the stream; what its callback is about to store
    captured, ring,         \* samples delivered, numbered; those in the ring
    invalid, overrun, deviceError, stop,
    drain, hand,            \* where the drain thread is, the samples it holds
    host, goal, expired,    \* where the host is, why it stops, its deadline
    accepting, input, heard, outcome    \* the session

flags == <<invalid, overrun, deviceError>>
deviceVars == <<device, callback, captured>>
drainVars == <<drain, hand>>
hostVars == <<host, goal, expired>>
sessionVars == <<accepting, input, heard, outcome>>
vars == <<deviceVars, ring, flags, stop, drainVars, hostVars, sessionVars>>

\* The engine has started the session.
CaptureInit ==
    /\ device = "none" /\ callback = "idle" /\ captured = 0 /\ ring = <<>>
    /\ invalid = FALSE /\ overrun = FALSE /\ deviceError = FALSE /\ stop = FALSE
    /\ drain = "off" /\ hand = <<>>
    /\ host = "open" /\ goal = "none" /\ expired = FALSE
    /\ accepting = TRUE /\ input = <<>> /\ heard = <<>> /\ outcome = "none"

-----------------------------------------------------------------------------
\* The session: the first outcome stands, and drops what is queued.
Settled(result) ==
    \/ outcome # "none" /\ UNCHANGED sessionVars
    \/ /\ outcome = "none"
       /\ outcome' = result /\ accepting' = FALSE /\ input' = <<>>
       /\ UNCHANGED heard
Queued == Len(FlattenSeq(input))

WorkerTakes ==
    /\ outcome = "none" /\ input # <<>>
    /\ heard' = heard \o Head(input) /\ input' = Tail(input)
    /\ UNCHANGED <<accepting, outcome>>
WorkerCompletes == outcome = "none" /\ ~accepting /\ input = <<>> /\ Settled("ok")
WorkerFails == outcome = "none" /\ Settled("error")
Worker ==
    /\ WorkerTakes \/ WorkerCompletes \/ WorkerFails
    /\ UNCHANGED <<deviceVars, ring, flags, stop, drainVars, hostVars>>

-----------------------------------------------------------------------------
\* The device (external) and its callback, sample by sample.
Capturing == device = "open" /\ callback = "idle"
DeliverSample ==
    /\ Capturing /\ captured < MaxSamples
    /\ captured' = captured + 1
    /\ \/ Len(ring) < Capacity /\ ring' = Append(ring, captured') /\ UNCHANGED callback
       \/ Len(ring) >= Capacity /\ callback' = "overrun" /\ UNCHANGED ring
       \/ callback' = "invalid" /\ UNCHANGED ring
    /\ UNCHANGED <<device, flags, stop, drainVars, hostVars, sessionVars>>
StoreFault ==
    /\ callback # "idle" /\ callback' = "idle"
    /\ overrun' = (overrun \/ callback = "overrun")
    /\ invalid' = (invalid \/ callback = "invalid")
    /\ UNCHANGED <<device, captured, ring, deviceError, stop, drainVars, hostVars, sessionVars>>
DeviceFails ==
    /\ device = "open" /\ deviceError' = TRUE
    /\ UNCHANGED <<deviceVars, ring, invalid, overrun, stop, drainVars, hostVars, sessionVars>>

-----------------------------------------------------------------------------
\* The drain thread.
DrainStep == UNCHANGED <<deviceVars, flags, stop, hostVars>>
EndsFailing == drain' = "ended" /\ Settled("error") /\ UNCHANGED <<hand, ring>>
Goes(place) == drain' = place /\ UNCHANGED <<hand, ring, sessionVars>>

CheckFlag(place, flag, next) ==
    /\ drain = place
    /\ \/ flag /\ EndsFailing
       \/ ~flag /\ Goes(next)
    /\ DrainStep

PopSample ==
    /\ drain = "pop" /\ Len(hand) < Batch /\ ring # <<>>
    /\ hand' = Append(hand, Head(ring)) /\ ring' = Tail(ring)
    /\ UNCHANGED <<drain, sessionVars>>
    /\ DrainStep
\* Mutant: only a full batch is pushed.
FullBatchOnly ==
    /\ drain = "pop" /\ (Len(hand) = Batch \/ ring = <<>>)
    /\ Goes(IF Len(hand) < Batch THEN "empty" ELSE "push")
    /\ DrainStep
PopEnds ==
    /\ drain = "pop" /\ (Len(hand) = Batch \/ ring = <<>>)
    /\ Goes(IF hand = <<>> THEN "empty" ELSE "push")
    /\ DrainStep
CheckStop ==
    /\ drain = "empty"
    /\ Goes(IF stop THEN "ended" ELSE "invalid")
    /\ DrainStep

\* Mutants: a refused batch is tried again; the flags are not looked at again.
RefusedAgain == Goes("retry overrun")
RetriesBlindly == drain = "retry overrun" /\ Goes("push") /\ DrainStep
Refused == EndsFailing
Retries ==
    \/ CheckFlag("retry overrun", overrun, "retry error")
    \/ CheckFlag("retry error", deviceError, "push")

\* push_wait; its 20 milliseconds may pass in any case.
PushBatch ==
    LET tooLong == Len(heard) + Queued + Len(hand) > MaxSessionFrames
        full == Len(hand) + Queued > Capacity
    IN  /\ drain = "push"
        /\ \/ (~accepting \/ tooLong) /\ Refused
           \/ accepting /\ Goes("retry overrun")
           \/ /\ accepting /\ ~tooLong /\ ~full
              /\ input' = Append(input, hand) /\ hand' = <<>>
              /\ drain' = "invalid"
              /\ UNCHANGED <<ring, accepting, heard, outcome>>
        /\ DrainStep

Drain ==
    \/ CheckFlag("invalid", invalid, "overrun")
    \/ CheckFlag("overrun", overrun, "error")
    \/ CheckFlag("error", deviceError, "pop")
    \/ PopSample \/ PopEnds \/ CheckStop \/ PushBatch \/ Retries

-----------------------------------------------------------------------------
\* The host.  Dropping the stream waits for a callback that runs.
HostStep == UNCHANGED <<callback, captured, ring, flags, hand>>
OpenDevice ==
    /\ host = "open" /\ host' = "spawn" /\ device' = "open"
    /\ UNCHANGED <<stop, drain, goal, expired, sessionVars>> /\ HostStep
SpawnDrain ==
    /\ host = "spawn" /\ host' = "play" /\ drain' = "invalid"
    /\ UNCHANGED <<device, stop, goal, expired, sessionVars>> /\ HostStep
Play ==
    /\ host = "play" /\ host' = "recording"
    /\ UNCHANGED <<device, stop, drain, goal, expired, sessionVars>> /\ HostStep
\* What was started is dropped: stream and session, and with the first drop of a
\* CaptureSession the drain thread is told to stop.
StartFails ==
    /\ callback = "idle"
    /\ \/ host \in {"open", "spawn"} /\ host' = "failed" /\ UNCHANGED <<stop, goal>> /\ Settled("error")
       \/ host = "play" /\ host' = "stopping" /\ goal' = "cancel" /\ UNCHANGED <<stop, sessionVars>>
    /\ device' = "dropped"
    /\ UNCHANGED <<drain, expired>> /\ HostStep

\* finish, cancel (or drop), and finish after cancel
TakeStream ==
    /\ \/ host = "recording" /\ goal' \in {"finish", "cancel"}
       \/ host = "cancelled" /\ goal' = "finish"
    /\ callback = "idle" /\ device' = "dropped"
    /\ host' = "stopping"
    /\ UNCHANGED <<stop, drain, expired, sessionVars>> /\ HostStep
SetStop ==
    /\ host = "stopping" /\ stop' = TRUE
    /\ host' = IF goal = "finish" THEN "draining" ELSE "cancelling"
    /\ UNCHANGED <<device, drain, goal, expired, sessionVars>> /\ HostStep
CancelSession ==
    /\ host = "cancelling" /\ host' = "cancelled" /\ Settled("error")
    /\ UNCHANGED <<device, stop, drain, goal, expired>> /\ HostStep
Drained ==
    /\ host = "draining" /\ host' = "closing"
    /\ \/ drain = "ended" /\ UNCHANGED sessionVars
       \/ drain # "ended" /\ expired /\ Settled("error")
    /\ UNCHANGED <<device, stop, drain, goal, expired>> /\ HostStep
CloseInput ==
    /\ host = "closing" /\ host' = "finishing"
    /\ accepting' = FALSE /\ UNCHANGED <<input, heard, outcome>>
    /\ UNCHANGED <<device, stop, drain, goal, expired>> /\ HostStep
FinishReturns ==
    /\ host = "finishing" /\ host' = "finished"
    /\ outcome # "none" \/ expired
    /\ Settled("error")
    /\ UNCHANGED <<device, stop, drain, goal, expired>> /\ HostStep
Tick ==
    /\ ~expired /\ goal = "finish" /\ expired' = TRUE
    /\ UNCHANGED <<deviceVars, ring, flags, stop, drainVars, host, goal, sessionVars>>

HostGoesOn ==
    \/ OpenDevice \/ SpawnDrain \/ Play \/ SetStop \/ CancelSession
    \/ Drained \/ CloseInput \/ FinishReturns

CaptureNext ==
    \/ DeliverSample \/ StoreFault \/ DeviceFails \/ Drain \/ Worker
    \/ HostGoesOn \/ StartFails \/ TakeStream \/ Tick

CaptureSpec == CaptureInit /\ [][CaptureNext]_vars
\* The two threads of the capture, the callback and the clock go on; nothing is
\* assumed of the session's driver, and nobody has to stop.
FairCaptureSpec ==
    CaptureSpec /\ WF_vars(Drain) /\ WF_vars(HostGoesOn) /\ WF_vars(StoreFault) /\ WF_vars(Tick)

-----------------------------------------------------------------------------
Faulty == invalid \/ overrun \/ deviceError \/ callback # "idle"
Captured == [k \in 1..captured |-> k]

\* Without a fault, every sample is in one place on its way, in order and once,
\* until the session ends; a session that ends well has heard them all, the last
\* batch too, but for what the ring still holds.
CapturedInOrder ==
    ~Faulty =>
        /\ outcome = "none" => heard \o FlattenSeq(input) \o hand \o ring = Captured
        /\ outcome = "ok" => heard \o ring = Captured

\* The comment on CaptureSession says that stopping drains the ring first.
StopDrainsTheRing == outcome = "ok" => ring = <<>>

\* An overrun or a failed device ends the session, although its driver may hang
\* and the drain thread be stuck behind a full queue, unless the host stops.
FaultEndsCapture == overrun \/ deviceError ~> outcome # "none" \/ stop

Over == {"finished", "cancelled", "failed"}

\* A fault ends the capture, a finish returns by its deadline, and when the
\* capture is over its drain thread does not stay behind.
CaptureEnds ==
    /\ FaultEndsCapture
    /\ host \in {"draining"} \cup Over ~> host \in Over /\ drain \in {"off", "ended"}
===============================================================================
