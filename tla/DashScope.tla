------------------------------- MODULE DashScope -------------------------------
(***************************************************************************)
(* The DashScope driver (src/src/backends/dashscope.rs) between a server   *)
(* and the result store.  A task is started, fed, and finished by the      *)
(* client; the server sends its sentences one after the other, each final  *)
(* perhaps after a partial.  It may deliver one event twice, and an event  *)
(* of another task may come over the connection.                           *)
(*                                                                         *)
(* As in Realtime, the driver handles one event at a time, and time        *)
(* limits, a broken connection and malformed events are DriverFails.       *)
(***************************************************************************)
EXTENDS ResultSink, SequencesExt

CONSTANTS
    Says,           \* the text of the server's sentences
    Identified,     \* the sentences whose final carries an id or an interval
    Name,           \* the result id of an index, its decimal digits
    MaxOnWire       \* bounds the events on their way to the driver

Sentences == DOMAIN Says

ASSUME TaskAssumption ==
    /\ Says \in Seq(Seq(Chars)) /\ Identified \subseteq Sentences
    /\ Name \in [0..Len(Says) + 1 -> Ids] /\ IsInjective(Name)
    /\ MaxOnWire \in Nat

VARIABLES
    driver, pushed,                         \* where the driver is; it has sent audio
    ready, done, finishing, index, completedSentences,
    committing,                             \* a commit is under way
    toServer, toClient,                     \* messages on the wire
    server,                                 \* "idle", "started", "closing" or "finished"
    listening,                              \* it has got audio
    said,                                   \* the sentences it has finished
    partialSaid,                            \* it has sent a partial of the next one
    oddity                                  \* what went wrong on the wire

protocolVars == <<ready, done, finishing, index, completedSentences, committing>>
driverVars == <<driver, pushed, protocolVars>>
serverVars == <<server, listening, said, partialSaid, oddity>>
wire == <<toServer, toClient>>
vars == <<storeVars, sinkVars, driverVars, wire, serverVars>>

DashScopeInit ==
    /\ SinkInit
    /\ driver = "start" /\ pushed = FALSE
    /\ ready = FALSE /\ done = FALSE /\ finishing = FALSE /\ index = 0
    /\ completedSentences = {} /\ committing = FALSE
    /\ toServer = <<"run-task">> /\ toClient = <<>>
    /\ server = "idle" /\ listening = FALSE /\ said = 0 /\ partialSaid = FALSE /\ oddity = "none"

\* task is "ours", "other", or "none" for an event that names no task.
Event(type, task) == [type |-> type, task |-> task, sentence |-> 0]
Result(type, k, task) == [type |-> type, task |-> task, sentence |-> k]

-----------------------------------------------------------------------------
\* The driver.
Idle == ~committing /\ calls = <<>> /\ ~refused
Waits == driver = "run" \/ (driver = "start" /\ ~ready) \/ (driver = "finish" /\ ~done)

\* Mutant: only events that name the task are taken.
OwnsNamed(e) == e.task = "ours"
Owns(e) == e.task # "other"

\* completed_identity: two finals with the same identity are the same final.
\* Mutant: the text stands in for a missing identity.
IdentityByText(k) ==
    IF k \in Identified THEN {<<k>>} ELSE {Says[k]}
Identity(k) == IF k \in Identified THEN {<<k>>} ELSE {}
FirstSeen(k) == Identity(k) = {} \/ ~(Identity(k) \subseteq completedSentences)

Unmoved == UNCHANGED <<protocolVars, sinkVars>>

OnStarted(e) ==
    /\ e.type = "task-started"
    /\ ready' = TRUE
    /\ UNCHANGED <<done, finishing, index, completedSentences, committing, sinkVars>>
OnFinished(e) ==
    /\ e.type = "task-finished"
    /\ IF finishing THEN done' = TRUE /\ UNCHANGED refused
                    ELSE refused' = TRUE /\ UNCHANGED done
    /\ UNCHANGED <<ready, finishing, index, completedSentences, committing, calls>>
OnFailed(e) ==
    /\ e.type = "task-failed"
    /\ refused' = TRUE
    /\ UNCHANGED <<protocolVars, calls>>
\* A heartbeat, and a result without a sentence, is nothing to the driver.
OnHeartbeat(e) == e.type = "heartbeat" /\ Unmoved
OnPartial(e) ==
    /\ e.type = "partial"
    /\ calls' = <<Call("partial", Name[index], 0, Says[e.sentence])>>
    /\ UNCHANGED <<protocolVars, refused>>
\* Mutant: a final that was seen before takes an index all the same.
CountsAgain == index' = index + 1 /\ UNCHANGED <<ready, done, finishing, completedSentences, committing, sinkVars>>
SeenBefore == Unmoved
OnFinal(e) ==
    /\ e.type = "final"
    /\ \/ ~FirstSeen(e.sentence) /\ SeenBefore
       \/ /\ FirstSeen(e.sentence)
          /\ completedSentences' = completedSentences \cup Identity(e.sentence)
          /\ calls' = <<Call("commit", Name[index], index, Says[e.sentence])>>
          /\ committing' = TRUE
          /\ UNCHANGED <<ready, done, finishing, index, refused>>

Receive ==
    /\ Idle /\ Waits /\ outcome = "none" /\ toClient # <<>>
    /\ LET e == Head(toClient)
       IN  \/ ~Owns(e) /\ Unmoved
           \/ /\ Owns(e)
              /\ \/ OnStarted(e) \/ OnFinished(e) \/ OnFailed(e)
                 \/ OnHeartbeat(e) \/ OnPartial(e) \/ OnFinal(e)
    /\ toClient' = Tail(toClient)
    /\ UNCHANGED <<storeVars, driver, pushed, toServer, serverVars>>

DriverCalls == SinkStep /\ UNCHANGED <<driverVars, wire, serverVars>>
Committed ==
    /\ committing /\ calls = <<>> /\ ~refused
    /\ index' = index + 1 /\ committing' = FALSE
    /\ UNCHANGED <<storeVars, sinkVars, driver, pushed, ready, done, finishing, completedSentences, wire, serverVars>>

Goes(place) == Idle /\ driver' = place /\ UNCHANGED <<storeVars, sinkVars, serverVars, toClient>>
Started == driver = "start" /\ ready /\ Goes("run") /\ UNCHANGED <<pushed, protocolVars, toServer>>
\* One chunk stands for all audio: the server speaks from the first one on.
PushAudio ==
    /\ driver = "run" /\ ~pushed /\ outcome = "none"
    /\ Goes("run")
    /\ pushed' = TRUE
    /\ toServer' = Append(toServer, "audio")
    /\ UNCHANGED protocolVars
FinishTask ==
    /\ driver = "run" /\ outcome = "none"
    /\ Goes("finish")
    /\ finishing' = TRUE
    /\ toServer' = Append(toServer, "finish-task")
    /\ UNCHANGED <<pushed, ready, done, index, completedSentences, committing>>
FinishReturns ==
    /\ driver = "finish" /\ done
    /\ Goes("done")
    /\ UNCHANGED <<pushed, protocolVars, toServer>>

DriverGivesUp ==
    /\ driver' = "failed"
    /\ calls' = <<>> /\ committing' = FALSE
    /\ UNCHANGED <<storeVars, refused, pushed, ready, done, finishing, index, completedSentences,
                   wire, serverVars>>
Active == driver \notin {"done", "failed"}
CheckFails == Active /\ (refused \/ (Idle /\ outcome # "none")) /\ DriverGivesUp
DriverFails == Active /\ Idle /\ DriverGivesUp

\* The worker settles the session with what the driver has returned, or
\* somebody else settles it before.
Settles ==
    /\ \/ driver = "done" /\ Complete
       \/ FailSession
    /\ UNCHANGED <<sinkVars, driverVars, wire, serverVars>>

-----------------------------------------------------------------------------
\* The server (external).
Sends(e) == Len(toClient) < MaxOnWire /\ toClient' = Append(toClient, e)
ServerSteps == UNCHANGED <<storeVars, sinkVars, driverVars>>

ServerReads ==
    /\ toServer # <<>> /\ toServer' = Tail(toServer)
    /\ LET m == Head(toServer)
       IN  \/ /\ m = "run-task" /\ server' = "started"
              /\ \E type \in {"task-started", "task-failed"}, task \in {"ours", "none"} :
                   Sends(Event(type, task))
              /\ UNCHANGED listening
           \/ m = "audio" /\ listening' = TRUE /\ UNCHANGED <<server, toClient>>
           \/ /\ m = "finish-task"
              /\ server' = IF server = "finished" THEN server ELSE "closing"
              /\ UNCHANGED <<listening, toClient>>
    /\ UNCHANGED <<said, partialSaid, oddity>>
    /\ ServerSteps

Speaks == listening /\ server \in {"started", "closing"} /\ said < Len(Says)
ServerSaysPartial ==
    /\ Speaks /\ ~partialSaid /\ partialSaid' = TRUE
    /\ Sends(Result("partial", said + 1, "ours"))
    /\ UNCHANGED <<toServer, server, listening, said, oddity>>
    /\ ServerSteps
ServerSaysFinal ==
    /\ Speaks /\ said' = said + 1 /\ partialSaid' = FALSE
    /\ Sends(Result("final", said + 1, "ours"))
    /\ UNCHANGED <<toServer, server, listening, oddity>>
    /\ ServerSteps
ServerFinishes ==
    /\ server = "closing" /\ server' = "finished"
    /\ \E task \in {"ours", "none"} : Sends(Event("task-finished", task))
    /\ UNCHANGED <<toServer, listening, said, partialSaid, oddity>>
    /\ ServerSteps

\* It ends or fails the task by itself.
ServerGivesUp ==
    /\ server = "started" /\ server' = "finished"
    /\ \E type \in {"task-finished", "task-failed"} : Sends(Event(type, "ours"))
    /\ UNCHANGED <<toServer, listening, said, partialSaid, oddity>>
    /\ ServerSteps

\* Once: a result is delivered again, an event of another task or a
\* heartbeat comes over the connection.
WireGoesWrong ==
    /\ oddity = "none" /\ server \notin {"idle", "finished"}
    /\ \/ /\ oddity' = "repeated"
          /\ \E k \in Sentences, type \in {"partial", "final"} :
               /\ k <= said /\ (type = "final" => k \in Identified)
               /\ Sends(Result(type, k, "ours"))
       \/ /\ oddity' = "unidentified"
          /\ \E k \in Sentences \ Identified : k <= said /\ Sends(Result("final", k, "ours"))
       \/ /\ oddity' = "misrouted"
          /\ \/ \E type \in {"task-finished", "task-failed"} : Sends(Event(type, "other"))
             \/ \E type \in {"partial", "final"} : Sends(Result(type, Len(Says), "other"))
       \/ oddity' = "heartbeat" /\ Sends(Event("heartbeat", "ours"))
    /\ UNCHANGED <<toServer, server, listening, said, partialSaid>>
    /\ ServerSteps

-----------------------------------------------------------------------------
DriverNext ==
    \/ Receive \/ DriverCalls \/ Committed \/ Started \/ PushAudio \/ FinishTask
    \/ FinishReturns \/ CheckFails \/ DriverFails \/ Settles
ServerNext ==
    \/ ServerReads \/ ServerSaysPartial \/ ServerSaysFinal \/ ServerFinishes
    \/ ServerGivesUp \/ WireGoesWrong
DashScopeNext == DriverNext \/ ServerNext
DashScopeSpec == DashScopeInit /\ [][DashScopeNext]_vars
\* The driver's own steps go on, and the server reads and finishes.
DriverGoesOn == Receive \/ DriverCalls \/ Committed \/ FinishReturns \/ CheckFails
FairDashScopeSpec ==
    /\ DashScopeSpec
    /\ WF_vars(DriverGoesOn)
    /\ WF_vars(ServerReads) /\ WF_vars(ServerFinishes)

-----------------------------------------------------------------------------
\* What a host is shown is what the server said, in its order and each sentence
\* once, and a finish that returns leaves nothing of it out.  (A final that is
\* delivered twice without any identity is taken for a new one, as the comment
\* on completed_identity says.)
NonBlank(all) == Retain(all, Seq(WhiteSpace))
Said == NonBlank(SubSeq(Says, 1, said))
Shown == [k \in DOMAIN transcript |-> transcript[k].text]
SaysWhatWasSaid ==
    oddity # "unidentified" =>
        /\ IsPrefix(Shown, Said)
        /\ driver = "done" /\ outcome # "error" => Shown = Said

\* The driver's index is the store's: finals never wait for one another, and the
\* only partial is that of the next sentence.
IndexIsNext ==
    Idle /\ outcome = "none" =>
        /\ nextSegment = index /\ pending = {}
        /\ \A id \in Ids : HasPartial(id) => id = Name[index]

\* The host reads the server's sentences, in step with them.
TranscriptAsSaid == SaysWhatWasSaid /\ IndexIsNext

\* With a server that finishes its task, finish does not wait for ever.
FinishTaskEnds == driver = "finish" ~> driver \in {"done", "failed"}
===============================================================================
