------------------------------ MODULE HttpDriver ------------------------------
(***************************************************************************)
(* The HTTP driver (src/src/backends/http.rs): a whole recording, or each  *)
(* utterance that voice detection cuts out, is uploaded and its text taken *)
(* from the response.  Each request runs in Network::run                   *)
(* (src/src/backends/network.rs), which races it with the host and with    *)
(* time: it checks the session, waits, and checks again when notified.     *)
(*                                                                         *)
(* Of the session the driver sees its outcome and its deadline, and gives  *)
(* it partials and finals.  What a chunk of the response says is read off  *)
(* it; Sse is about how it is read.  A limit that runs may pass at any     *)
(* moment, so every configuration of limits is covered.  The transport,    *)
(* the server and the voice detector are external.                         *)
(***************************************************************************)
EXTENDS Naturals, Sequences

CONSTANTS
    MaxUpload,          \* samples of one request
    MaxResponse,        \* max_response_bytes, in chunks
    MaxPushes, MaxCuts  \* bounds the chunks of audio, and the utterances in them

ASSUME HttpAssumption == {MaxUpload, MaxResponse, MaxPushes, MaxCuts} \subseteq Nat

VARIABLES
    utterances, sse,            \* the configuration
    place, closing, pushes,     \* where the driver is; what it was given
    held, segments, cut,        \* samples; segments cut, by number; how many
    taken,                      \* the segment of the request under way
    nextIndex,                  \* the next result's index
    request,                    \* the locals of the one under way
    permit,                     \* Notify holds one
    shown, committed,           \* the index of the host's partial, if any; the finals
    settled, deadline, signalling   \* the session; changes not notified yet

configVars == <<utterances, sse>>
audioVars == <<pushes, held, segments, cut, taken>>
shownVars == <<shown, committed>>
hostVars == <<settled, deadline, signalling>>
httpVars == <<configVars, place, closing, audioVars, nextIndex, request, permit, shownVars, hostVars>>

\* run is where Network::run is, and its end counts the session's deadline once it
\* sawDeadline; stage is of send_request, progress of the upload, transport what
\* came of it; chunk is one that is not read yet.
NoRequest ==
    [run |-> "off", sawDeadline |-> FALSE, stage |-> "connecting", progress |-> "connecting",
     transport |-> "connecting", chunk |-> "none", ended |-> "no", received |-> 0]

HttpInit ==
    /\ utterances \in BOOLEAN /\ sse \in BOOLEAN
    /\ place = "start" /\ closing = FALSE /\ pushes = 0
    /\ held = 0 /\ segments = <<>> /\ cut = 0 /\ taken = 0 /\ nextIndex = 0
    /\ request = NoRequest /\ permit = FALSE
    /\ shown = <<>> /\ committed = <<>>
    /\ settled = "none" /\ deadline = "none" /\ signalling = 0

-----------------------------------------------------------------------------
\* Control::check
CheckOk == settled = "none" /\ deadline # "passed"
Moves(where) == place' = where

\* The worker's calls of the driver.  A call that checks first fails.
AtWorker == UNCHANGED <<configVars, nextIndex, request, permit, shownVars, hostVars>>
Checked(where) == Moves(IF CheckOk THEN where ELSE "failing")
Begin ==
    /\ place = "start" /\ Checked("run")
    /\ UNCHANGED <<closing, audioVars>> /\ AtWorker

\* The voice detector (external) has cut n more segments.
Cuts(n) ==
    /\ cut + n <= MaxCuts
    /\ segments' = segments \o [k \in 1..n |-> cut + k] /\ cut' = cut + n
PushSamples ==
    /\ place = "run" /\ pushes < MaxPushes
    /\ pushes' = pushes + 1
    /\ \/ /\ utterances /\ Checked("drain")
          /\ \E n \in 0..2 : Cuts(n)
          /\ UNCHANGED held
       \/ /\ ~utterances /\ UNCHANGED <<segments, cut>>
          /\ \E n \in 1..2 :
               \/ held + n <= MaxUpload /\ held' = held + n /\ Checked("run")
               \/ held + n > MaxUpload /\ Moves("failing") /\ UNCHANGED held
    /\ UNCHANGED <<closing, taken>> /\ AtWorker
FinishSamples ==
    /\ place = "run" /\ closing' = TRUE /\ Moves("drain")
    /\ \/ utterances /\ \E n \in 0..1 : (n = 1 => pushes > 0) /\ Cuts(n)
       \/ ~utterances /\ Cuts(IF held > 0 THEN 1 ELSE 0)
    /\ held' = 0 /\ UNCHANGED <<pushes, taken>> /\ AtWorker
\* drain, or what stands for it with a whole recording, is through.
BackAtWorker == IF closing THEN "done" ELSE "run"
Drained ==
    /\ place = "drain" /\ segments = <<>> /\ Moves(BackAtWorker)
    /\ UNCHANGED <<closing, audioVars>> /\ AtWorker

\* transcribe: the segment is taken and a request begun, unless it is too long.
Transcribe ==
    /\ place = "drain" /\ segments # <<>>
    /\ taken' = Head(segments) /\ segments' = Tail(segments)
    /\ \/ Moves("upload") /\ request' = [NoRequest EXCEPT !.run = "check"]
       \/ utterances /\ Moves("failing") /\ UNCHANGED request
    /\ UNCHANGED <<configVars, closing, pushes, held, cut, nextIndex, permit, shownVars, hostVars>>

-----------------------------------------------------------------------------
\* Network::run
InRequest == place \in {"upload", "response"}
Waiting == InRequest /\ request.run = "select"
Leaves(where) == Moves(where) /\ request' = NoRequest
RequestSteps == UNCHANGED <<configVars, closing, audioVars, nextIndex, committed, hostVars>>
RunSteps == UNCHANGED shown /\ RequestSteps

\* Mutant: the end is worked out once.
FirstEnd == request.sawDeadline
NextEnd == deadline # "none"
RunChecks ==
    /\ InRequest /\ request.run = "check"
    /\ \/ CheckOk /\ UNCHANGED place
          /\ request' = [request EXCEPT !.run = "limit"]
       \/ ~CheckOk /\ Leaves("failing")
    /\ UNCHANGED permit /\ RunSteps
\* The end is worked out under the lock that is taken a second time.
RunLimits ==
    /\ InRequest /\ request.run = "limit"
    /\ request' = [request EXCEPT !.run = "select", !.sawDeadline = NextEnd]
    /\ UNCHANGED <<place, permit>> /\ RunSteps
RunNotified ==
    /\ Waiting /\ permit /\ permit' = FALSE
    /\ request' = [request EXCEPT !.run = "check"]
    /\ UNCHANGED place /\ RunSteps
\* The response limit passes while the request waits, or the session's.
\* Mutant: only the session's deadline ends a request.
SessionOver == request.sawDeadline /\ deadline = "passed"
LimitPasses == TRUE
RunTimesOut ==
    /\ Waiting /\ LimitPasses /\ Leaves("failing")
    /\ UNCHANGED permit /\ RunSteps

\* send_request: the stage is what its loop saw of the progress.
UploadSteps == place = "upload" /\ Waiting /\ UNCHANGED permit /\ RunSteps
SeesProgress ==
    /\ request.stage \in {"connecting", "sending"} /\ request.progress # request.stage
    /\ request' = [request EXCEPT !.stage = request.progress]
    /\ UNCHANGED place /\ UploadSteps
StageTimesOut ==
    /\ request.stage \in {"connecting", "sending"}
    /\ Leaves("failing") /\ UploadSteps
Responds ==
    /\ \/ /\ request.transport = "answered" /\ Moves("response")
          /\ request' = [NoRequest EXCEPT !.run = "select", !.sawDeadline = request.sawDeadline]
       \/ request.transport \in {"refused", "broken"} /\ Leaves("failing")
    /\ UploadSteps

\* The response: what its chunk or its end says.  A partial is given to the
\* session, which may refuse it and whose change notifies the driver again.
RequestFails == Leaves("failing") /\ UNCHANGED <<shown, permit>>
GivesText == Leaves("commit") /\ UNCHANGED <<shown, permit>>
ShowsPartial ==
    \/ CheckOk /\ shown' = <<nextIndex>> /\ permit' = TRUE
    \/ ~CheckOk /\ UNCHANGED <<shown, permit>>
ReadChunk ==
    LET chunk == request.chunk
        goesOn == [request EXCEPT !.chunk = "none", !.received = @ + 1]
    IN  /\ place = "response" /\ Waiting /\ chunk # "none"
        /\ \/ (goesOn.received > MaxResponse \/ chunk = "error") /\ RequestFails
           \/ /\ goesOn.received <= MaxResponse
              /\ \/ chunk = "nothing" /\ request' = goesOn /\ UNCHANGED <<place, shown, permit>>
                 \/ chunk = "final" /\ GivesText
                 \/ /\ chunk = "delta" /\ ShowsPartial
                    /\ \/ CheckOk /\ request' = goesOn /\ UNCHANGED place
                       \/ ~CheckOk /\ Leaves("failing")
        /\ RequestSteps
\* A whole body is the text, or bad.  Events may end with the final one; if they
\* do not, the request fails, both after a last partial.
ReadEnd ==
    /\ place = "response" /\ Waiting /\ request.chunk = "none" /\ request.ended # "no"
    /\ \/ RequestFails
       \/ request.ended = "eof" /\ GivesText
       \/ /\ request.ended = "eof" /\ sse /\ ShowsPartial
          /\ Leaves("commit") \/ Leaves("failing")
          /\ place' = "commit" => CheckOk
    /\ RequestSteps

\* ResultSink::commit: refused when the session is settled, or without effect.
\* Mutant: the next segment waits for the next chunk.
AfterCommit == "drain"
CommitText ==
    /\ place = "commit"
    /\ \/ /\ CheckOk
          /\ committed' = Append(committed, [index |-> nextIndex, segment |-> taken])
          /\ shown' = <<>> /\ permit' = TRUE
          /\ Moves(AfterCommit) /\ nextIndex' = nextIndex + 1
       \/ ~CheckOk /\ Moves("failing") /\ UNCHANGED <<shownVars, permit, nextIndex>>
       \/ /\ settled # "none" /\ Moves(AfterCommit) /\ nextIndex' = nextIndex + 1
          /\ UNCHANGED <<shownVars, permit>>
    /\ UNCHANGED <<configVars, closing, audioVars, request, hostVars>>

-----------------------------------------------------------------------------
\* Who settles the session or brings its deadline: the change under the lock,
\* then the notification.
Outside == UNCHANGED <<configVars, closing, audioVars, nextIndex, committed>>
Changed == signalling' = signalling + 1 /\ UNCHANGED permit
SettlesAs(result) ==
    /\ settled' = (IF settled = "none" THEN result ELSE settled)
    /\ shown' = <<>> /\ Changed /\ UNCHANGED <<request, deadline>>
WorkerSettles ==
    /\ \/ place = "done" /\ SettlesAs("ok")
       \/ place = "failing" /\ SettlesAs("error")
    /\ Moves("ended") /\ Outside
HostCancels == settled = "none" /\ SettlesAs("error") /\ UNCHANGED place /\ Outside
HostFinishes ==
    /\ deadline = "none" /\ settled = "none"
    /\ deadline' = "set" /\ Changed
    /\ UNCHANGED <<place, shown, settled, request>> /\ Outside
\* Mutant: only a driver that waits is notified.
NotifyWaiters == permit' = (permit \/ request.run = "select")
NotifyOne == permit' = TRUE
Signal ==
    /\ signalling > 0 /\ signalling' = signalling - 1
    /\ NotifyOne
    /\ UNCHANGED <<place, shown, settled, deadline, request>> /\ Outside

External ==
    UNCHANGED <<configVars, place, closing, audioVars, nextIndex, permit, shownVars, settled, signalling>>
DeadlinePasses ==
    deadline = "set" /\ deadline' = "passed" /\ UNCHANGED request /\ External

\* The transport, which may discard the rest of the request's body for an early
\* answer, and the server.
Uploads ==
    /\ place = "upload" /\ request.transport = "connecting"
    /\ \E next \in (IF request.progress = "connecting" THEN {"sending", "finished"}
                    ELSE IF request.progress = "sending" THEN {"finished", "dropped"} ELSE {}) :
         request' = [request EXCEPT !.progress = next]
    /\ UNCHANGED deadline /\ External
Answers ==
    /\ place = "upload" /\ request.transport = "connecting"
    /\ \E came \in {"answered", "refused", "broken"} :
         /\ request.progress = "connecting" => came = "broken"
         /\ request' = [request EXCEPT !.transport = came]
    /\ UNCHANGED deadline /\ External
Responding == place = "response" /\ request.ended = "no"
ServerSends ==
    /\ Responding /\ request.chunk = "none"
    /\ \E chunk \in {"nothing"} \cup (IF sse THEN {"delta", "final", "error"} ELSE {}) :
         request' = [request EXCEPT !.chunk = chunk]
    /\ UNCHANGED deadline /\ External
ServerEnds ==
    /\ Responding
    /\ \E end \in {"eof", "broken"} : request' = [request EXCEPT !.ended = end]
    /\ UNCHANGED deadline /\ External

-----------------------------------------------------------------------------
HttpStep ==
    \/ Drained \/ Transcribe \/ RunChecks \/ RunLimits \/ RunNotified \/ RunTimesOut
    \/ SeesProgress \/ StageTimesOut \/ Responds \/ ReadChunk \/ ReadEnd \/ CommitText
HttpNext ==
    \/ Begin \/ PushSamples \/ FinishSamples \/ HttpStep \/ WorkerSettles
    \/ HostCancels \/ HostFinishes \/ Signal \/ DeadlinePasses
    \/ Uploads \/ Answers \/ ServerSends \/ ServerEnds

HttpSpec == HttpInit /\ [][HttpNext]_httpVars
\* The driver and the notification go on, and the response limit passes for a
\* request that waits on; nothing is assumed of the transport and the server.
FairHttpSpec ==
    HttpSpec /\ WF_httpVars(HttpStep) /\ WF_httpVars(RunTimesOut) /\ WF_httpVars(Signal)

-----------------------------------------------------------------------------
\* The host gets each segment that was cut, once and in order, and no partial of
\* a segment that has its final; a session that completes has left none out, and
\* of a whole recording it has uploaded one.
TranscriptAsServed ==
    /\ \A k \in DOMAIN committed : committed[k] = [index |-> k - 1, segment |-> k]
    /\ shown \in {<<>>, <<Len(committed)>>}
    /\ settled = "ok" => Len(committed) = cut /\ (utterances \/ pushes = 0 \/ cut = 1)

\* A driver that waits for the network does not miss a cancellation or a nearer
\* deadline: it knows, or a notification is there or on its way.
NoLostCancel ==
    Waiting /\ (settled # "none" \/ (deadline # "none" /\ ~request.sawDeadline))
        => permit \/ signalling > 0

\* However the server and the transport behave, a request comes to its end.
RequestsEnd == InRequest ~> ~InRequest
===============================================================================
