-------------------------------- MODULE Realtime --------------------------------
(***************************************************************************)
(* The realtime driver (src/src/backends/realtime.rs) between a server and *)
(* the result store.  Wire messages keep their order in each direction; a  *)
(* server sends transcriptions when it likes, before or after it announces *)
(* the item they belong to, and may send things twice.                     *)
(*                                                                         *)
(* The driver handles one event at a time: event is that event while calls *)
(* are left to make for it.  Its time limits, a broken connection and an   *)
(* event it cannot parse are DriverFails, which may happen at any time.    *)
(***************************************************************************)
EXTENDS ResultSink

CONSTANTS
    SpokenItems,        \* the server's items, in the order it commits them
    Says,               \* what the server makes of each item
    MaxFrames,          \* bounds the audio pushed
    MaxOnWire,          \* bounds the events on their way to the driver
    Nothing             \* no event, no predecessor

ASSUME ServerAssumption ==
    /\ SpokenItems \in Seq(Ids) /\ IsInjective(SpokenItems)
    /\ Says \in [Ids -> Seq(Chars)]
    /\ {MaxFrames, MaxOnWire} \subseteq Nat

\* What the driver may have calls to make for.
ItemEvents ==
    [type : {"committed", "delta", "completed"}, id : Ids, previous : Ids \cup {Nothing},
     text : Seq(Chars)]
ASSUME NothingAssumption == Nothing \notin Ids \cup ItemEvents

VARIABLES
    driver,             \* where the driver is
    serverVad,          \* of the configuration
    ready, finishing, index, frames, items, completedItems, openDeltas, finishAck,
    event,              \* the event the driver has calls to make for
    toServer, toClient, \* messages on the wire
    vadOn,              \* the server cuts items by itself
    heard,              \* the server has audio it has not cut into an item
    cut,                \* the items the server has committed, in order
    answered,           \* the server has handled the commit of the finish
    sent,               \* per item: what the server sent, "delta" and "final"
    repeated            \* what the server has sent twice: "nothing", "final" or "committed"

protocolVars == <<ready, finishing, index, frames, items, completedItems, openDeltas, finishAck>>
driverVars == <<driver, serverVad, protocolVars, event>>
serverVars == <<vadOn, heard, cut, answered, sent, repeated>>
wire == <<toServer, toClient>>
vars == <<storeVars, sinkVars, driverVars, wire, serverVars>>

Spoken == {SpokenItems[k] : k \in DOMAIN SpokenItems}
Stray == Ids \ Spoken               \* items the server never commits
Message(type, vad) == [type |-> type, vad |-> vad]
Event(type, id, previous, text) ==
    [type |-> type, id |-> id, previous |-> previous, text |-> text]

RealtimeInit ==
    /\ SinkInit
    /\ serverVad \in BOOLEAN
    /\ driver = "start"
    /\ ready = FALSE /\ finishing = FALSE /\ index = 0 /\ frames = 0
    /\ items = [id \in Ids |-> Open]
    /\ completedItems = {} /\ openDeltas = {} /\ finishAck = FALSE
    /\ event = Nothing
    /\ toServer = <<Message("update", serverVad)>> /\ toClient = <<>>
    /\ vadOn = FALSE /\ heard = FALSE /\ cut = <<>> /\ answered = FALSE
    /\ sent = [id \in Ids |-> {}]
    /\ repeated = "nothing"

-----------------------------------------------------------------------------
\* The driver.
Committed == {id \in Ids : items[id] # Open}
\* Mutant: open deltas are forgotten.
SettledWithDeltas == finishAck /\ Committed = completedItems
FinishSettled == finishAck /\ Committed = completedItems /\ openDeltas = {}

\* The driver waits for an event; in a wait loop, only as long as the loop goes on.
Idle == event = Nothing /\ calls = <<>> /\ ~refused
Waits ==
    \/ driver = "run"
    \/ driver \in {"start", "barrier"} /\ ~ready
    \/ driver = "finish" /\ ~FinishSettled

Handles(e, todo) == event' = e /\ calls' = todo /\ UNCHANGED <<protocolVars, refused>>
Ignores == UNCHANGED <<protocolVars, event, sinkVars>>
Rejects == refused' = TRUE /\ UNCHANGED <<protocolVars, event, calls>>
Acknowledged == finishAck' = (finishAck \/ finishing)

OnUpdated(e) ==
    /\ e.type = "updated"
    /\ ready' = TRUE
    /\ UNCHANGED <<finishing, index, frames, items, completedItems, openDeltas, finishAck, event, sinkVars>>

OnCommitted(e) ==
    /\ e.type = "committed"
    /\ \/ /\ e.id \in Committed
          /\ Acknowledged
          /\ UNCHANGED <<ready, finishing, index, frames, items, completedItems, openDeltas, event, sinkVars>>
       \/ e.id \notin Committed /\ e.previous \notin Committed \cup {Nothing} /\ Rejects
       \/ /\ e.id \notin Committed /\ e.previous \in Committed \cup {Nothing}
          /\ Handles(e, (IF e.previous = Nothing THEN <<>>
                         ELSE <<Call("register", e.previous, 0, <<>>)>>)
                        \o <<Call("register", e.id, 0, <<>>)>>
                        \o (IF e.id \in completedItems
                            THEN <<Call("index", e.id, index, <<>>)>> ELSE <<>>))

OnDelta(e) ==
    /\ e.type = "delta"
    /\ \/ e.id \in completedItems /\ Ignores
       \/ e.id \notin completedItems /\ Handles(e, <<Call("delta", e.id, 0, e.text)>>)

\* Mutant: finals take their index in the order they come in.
OnCompletedInTurn(e) ==
    /\ e.type = "completed"
    /\ \/ e.id \in completedItems /\ Ignores
       \/ /\ e.id \notin completedItems
          /\ Handles(e, <<Call("commit", e.id, Cardinality(completedItems), e.text)>>)
OnCompleted(e) ==
    /\ e.type = "completed"
    /\ \/ e.id \in completedItems /\ Ignores
       \/ /\ e.id \notin completedItems
          /\ Handles(e, IF e.id \in Committed THEN <<Call("commit", e.id, items[e.id], e.text)>>
                        ELSE <<Call("final", e.id, 0, e.text)>>)

\* Mutant: an empty commit is no answer.
OnErrorIgnored(e) ==
    \/ e.type = "failed" /\ Rejects
    \/ e.type = "empty" /\ finishing /\ Ignores
OnError(e) ==
    \/ e.type = "failed" /\ Rejects
    \/ /\ e.type = "empty" /\ finishing
       /\ finishAck' = TRUE
       /\ UNCHANGED <<ready, finishing, index, frames, items, completedItems, openDeltas, event, sinkVars>>

\* receive_event, up to the first call of the sink
Receive ==
    /\ Idle /\ Waits /\ outcome = "none" /\ toClient # <<>>
    /\ LET e == Head(toClient)
       IN  OnUpdated(e) \/ OnCommitted(e) \/ OnDelta(e) \/ OnCompleted(e) \/ OnError(e)
    /\ toClient' = Tail(toClient)
    /\ UNCHANGED <<storeVars, driver, serverVad, toServer, serverVars>>

\* The rest of the handler, once its calls have returned.
Noted ==
    /\ event.type = "committed"
    /\ items' = [items EXCEPT ![event.id] = index]
    /\ index' = index + 1
    /\ Acknowledged
    /\ UNCHANGED <<completedItems, openDeltas>>
NotedDelta ==
    /\ event.type = "delta"
    /\ openDeltas' = openDeltas \cup {event.id}
    /\ UNCHANGED <<items, index, finishAck, completedItems>>
\* Mutant: the item stays open.
NotedCompletedOpen ==
    /\ event.type = "completed"
    /\ completedItems' = completedItems \cup {event.id}
    /\ UNCHANGED <<items, index, finishAck, openDeltas>>
NotedCompleted ==
    /\ event.type = "completed"
    /\ completedItems' = completedItems \cup {event.id}
    /\ openDeltas' = openDeltas \ {event.id}
    /\ UNCHANGED <<items, index, finishAck>>

EventHandled ==
    /\ event # Nothing /\ calls = <<>> /\ ~refused
    /\ Noted \/ NotedDelta \/ NotedCompleted
    /\ event' = Nothing
    /\ UNCHANGED <<ready, finishing, frames, storeVars, sinkVars, driver, serverVad, wire, serverVars>>

DriverCalls == SinkStep /\ UNCHANGED <<driverVars, wire, serverVars>>

\* The worker's calls of the driver.
Goes(place) == Idle /\ driver' = place /\ UNCHANGED <<storeVars, sinkVars, serverVad, event, serverVars>>

Started == driver = "start" /\ ready /\ Goes("run") /\ UNCHANGED <<protocolVars, wire>>

PushAudio ==
    /\ driver = "run" /\ frames < MaxFrames /\ outcome = "none"
    /\ Goes("run")
    /\ frames' = frames + 1
    /\ toServer' = Append(toServer, Message("append", FALSE))
    /\ UNCHANGED <<ready, finishing, index, items, completedItems, openDeltas, finishAck, toClient>>

\* finish: with audio cut by the server, first the barrier
CloseVad ==
    /\ driver = "run" /\ serverVad /\ frames > 0 /\ outcome = "none"
    /\ Goes("barrier")
    /\ ready' = FALSE
    /\ toServer' = Append(toServer, Message("update", FALSE))
    /\ UNCHANGED <<finishing, index, frames, items, completedItems, openDeltas, finishAck, toClient>>

\* Mutant: the commit follows without the barrier.
RequestCommitAtOnce ==
    /\ driver \in {"run", "barrier"} /\ (outcome = "none" \/ frames = 0)
    /\ Goes("finish")
    /\ finishing' = TRUE
    /\ finishAck' = (finishAck \/ frames = 0)
    /\ toServer' = IF frames = 0 THEN toServer
                   ELSE toServer \o <<Message("append", FALSE), Message("commit", FALSE)>>
    /\ UNCHANGED <<ready, index, frames, items, completedItems, openDeltas, toClient>>

\* then silence and the commit of what the server has left
RequestCommit ==
    /\ \/ driver = "run" /\ ~(serverVad /\ frames > 0)
       \/ driver = "barrier" /\ ready
    /\ outcome = "none" \/ frames = 0
    /\ Goes("finish")
    /\ finishing' = TRUE
    /\ finishAck' = (finishAck \/ frames = 0)
    /\ toServer' = IF frames = 0 THEN toServer
                   ELSE toServer \o <<Message("append", FALSE), Message("commit", FALSE)>>
    /\ UNCHANGED <<ready, index, frames, items, completedItems, openDeltas, toClient>>

FinishReturns ==
    /\ driver = "finish" /\ FinishSettled
    /\ Goes("done")
    /\ UNCHANGED <<protocolVars, wire>>

\* A refused call, a settled session or a deadline that passes ends the driver,
\* and so do its time limits and a broken connection.
DriverGivesUp ==
    /\ driver' = "failed"
    /\ event' = Nothing /\ calls' = <<>>
    /\ UNCHANGED <<storeVars, refused, serverVad, protocolVars, wire, serverVars>>
Active == driver \notin {"done", "failed"}
CheckFails == Active /\ (refused \/ (Idle /\ outcome # "none")) /\ DriverGivesUp
DriverFails == Active /\ Idle /\ DriverGivesUp

\* The worker settles the session with what the driver has returned.
WorkerSettles ==
    /\ \/ driver = "done" /\ Complete
       \/ driver = "failed" /\ FailSession
    /\ UNCHANGED <<sinkVars, driverVars, wire, serverVars>>
SessionSettles == FailSession /\ UNCHANGED <<sinkVars, driverVars, wire, serverVars>>

-----------------------------------------------------------------------------
\* The server (external).
Sends(e) == Len(toClient) < MaxOnWire /\ toClient' = Append(toClient, e)
ServerSteps == UNCHANGED <<storeVars, sinkVars, driverVars>>
LastCut == IF cut = <<>> THEN Nothing ELSE cut[Len(cut)]
Cuts(previous) ==
    LET id == SpokenItems[Len(cut) + 1]
    IN  /\ Len(cut) < Len(SpokenItems)
        /\ cut' = Append(cut, id)
        /\ Sends(Event("committed", id, previous, <<>>))

ServerReads ==
    /\ toServer # <<>> /\ toServer' = Tail(toServer)
    /\ LET m == Head(toServer)
       IN  \/ /\ m.type = "update"
              /\ vadOn' = m.vad
              /\ Sends(Event("updated", Nothing, Nothing, <<>>))
              /\ UNCHANGED <<heard, cut, answered>>
           \/ m.type = "append" /\ heard' = TRUE /\ UNCHANGED <<vadOn, cut, answered, toClient>>
           \/ /\ m.type = "commit"
              /\ answered' = TRUE /\ heard' = FALSE
              /\ \/ Cuts(LastCut)
                 \/ Sends(Event("empty", Nothing, Nothing, <<>>)) /\ UNCHANGED cut
                 \/ Sends(Event("failed", Nothing, Nothing, <<>>)) /\ UNCHANGED cut
              /\ UNCHANGED vadOn
    /\ UNCHANGED <<sent, repeated>>
    /\ ServerSteps

\* It cuts an item by itself, the next one may have begun; the last item is left
\* for the commit of the finish.  It may name a predecessor nobody knows.
ServerCuts ==
    /\ vadOn /\ heard /\ Len(cut) + 1 < Len(SpokenItems)
    /\ \E previous \in {LastCut} \cup Stray : Cuts(previous)
    /\ heard' \in BOOLEAN
    /\ UNCHANGED <<toServer, vadOn, answered, sent, repeated>>
    /\ ServerSteps

\* What it can transcribe: what it has cut, what it is listening to, and items
\* it then drops.
Transcribable ==
    {cut[k] : k \in DOMAIN cut} \cup Stray
      \cup (IF heard /\ Len(cut) < Len(SpokenItems) THEN {SpokenItems[Len(cut) + 1]} ELSE {})

ServerSendsDelta(id) ==
    /\ id \in Transcribable /\ "delta" \notin sent[id]
    /\ sent' = [sent EXCEPT ![id] = @ \cup {"delta"}]
    /\ \E d \in Deltas : Sends(Event("delta", id, Nothing, d))
    /\ UNCHANGED <<toServer, vadOn, heard, cut, answered, repeated>>
    /\ ServerSteps

ServerSendsFinal(id) ==
    /\ id \in Transcribable /\ "final" \notin sent[id]
    /\ sent' = [sent EXCEPT ![id] = @ \cup {"final"}]
    /\ Sends(Event("completed", id, Nothing, Says[id]))
    /\ UNCHANGED <<toServer, vadOn, heard, cut, answered, repeated>>
    /\ ServerSteps

ServerRepeats ==
    /\ repeated = "nothing"
    /\ \/ /\ repeated' = "committed"
          /\ \E k \in DOMAIN cut : Sends(Event("committed", cut[k], Nothing, <<>>))
       \/ /\ repeated' = "final"
          /\ \E id \in Ids : "final" \in sent[id] /\ Sends(Event("completed", id, Nothing, Says[id]))
    /\ UNCHANGED <<toServer, vadOn, heard, cut, answered, sent>>
    /\ ServerSteps

-----------------------------------------------------------------------------
DriverNext ==
    \/ Receive \/ DriverCalls \/ EventHandled
    \/ Started \/ PushAudio \/ CloseVad \/ RequestCommit \/ FinishReturns
    \/ CheckFails \/ DriverFails \/ WorkerSettles
ServerNext ==
    \/ ServerReads \/ ServerCuts \/ ServerRepeats
    \/ \E id \in Ids : ServerSendsDelta(id) \/ ServerSendsFinal(id)
RealtimeNext == DriverNext \/ SessionSettles \/ ServerNext

RealtimeSpec == RealtimeInit /\ [][RealtimeNext]_vars
\* The driver's own steps go on, and the server answers and transcribes every
\* item it cuts.
FairRealtimeSpec ==
    /\ RealtimeSpec
    /\ WF_vars(Receive \/ DriverCalls \/ EventHandled \/ FinishReturns \/ CheckFails)
    /\ WF_vars(ServerReads)
    /\ \A id \in Spoken : WF_vars(ServerSendsFinal(id))

-----------------------------------------------------------------------------
\* The driver keeps its own record of items next to the store's, and between
\* two events the two agree: what is completed, under which index, and that a
\* text the store holds without a final is one the driver waits for.
DriverAgreesWithStore ==
    Idle /\ outcome = "none" =>
        /\ \A id \in completedItems :
             completed[id] = IF id \in Committed THEN items[id] ELSE Unindexed
        /\ \A id \in Ids : completed[id] # Open => id \in completedItems
        /\ \A id \in Ids : HasPartial(id) => id \in openDeltas
        /\ openDeltas \cap completedItems = {}

Place(id) == CHOOSE k \in DOMAIN cut : cut[k] = id
\* However transcriptions arrive, segments are in the order in which the server
\* cut the audio.
TranscriptAsSpoken ==
    /\ \A s \in TranscriptSet \cup pending : s.id \in {cut[k] : k \in DOMAIN cut}
    /\ \A j, k \in DOMAIN transcript :
         j < k => Place(transcript[j].id) < Place(transcript[k].id)

\* A finish that returns leaves no partial and no final without its place in
\* the store: the session that follows from it succeeds and loses no text.
NothingIsLost ==
    outcome = "none" => pending = {} /\ unindexed = {} /\ \A id \in Ids : ~HasPartial(id)
\* It was answered by the server after all of the audio, and every item the
\* server has cut is completed.
AllHeard ==
    frames > 0 =>
        /\ answered /\ ~heard /\ toServer = <<>>
        /\ \A k \in DOMAIN cut : cut[k] \in completedItems
\* What a finish promises when it returns: nothing is lost, and unless an
\* announcement was repeated, everything is heard.
FinishIsComplete ==
    driver = "done" => NothingIsLost /\ (repeated # "committed" => AllHeard)

\* The comment on finish_settled says that the wait ends only once the explicit
\* commit is acknowledged.
FinishIsAcknowledged == driver = "done" /\ frames > 0 => answered

\* With a server that in the end cuts every item it has sent a text of, finish
\* does not wait for something that never comes.
TextsBelong == \A id \in Ids : sent[id] # {} => id \in {cut[k] : k \in DOMAIN cut}
FinishEnds == <>[]TextsBelong => (driver = "finish" ~> driver \in {"done", "failed"})
===============================================================================
