------------------------------ MODULE LocalDriver ------------------------------
(***************************************************************************)
(* The two drivers of local recognisers (src/src/backends/local.rs).  The  *)
(* streaming one decodes what it has after every push and shows it, until  *)
(* an endpoint makes it final; the offline one recognises each segment     *)
(* that voice detection (src/src/backends/vad.rs) cuts out.                *)
(*                                                                         *)
(* Of the session a driver sees the outcome, which the host may settle     *)
(* while the driver is in a call, and gives it partials and finals.  The   *)
(* recogniser and the voice detector are external: utterances are numbers, *)
(* and what is heard of one is one of a few texts.                         *)
(***************************************************************************)
EXTENDS Naturals, Sequences

CONSTANTS
    Heard,              \* what may be heard of an utterance, with the blank text
    Blank,
    MaxInputs,          \* bounds the chunks of audio
    MaxSteps            \* bounds the decoding steps in a call

ASSUME LocalAssumption == Blank \in Heard /\ {MaxInputs, MaxSteps} \subseteq Nat

VARIABLES
    offline,                \* the driver
    at, closed, inputs,     \* where it is; it is in finish; chunks it was given
    hypothesis, endpoint,   \* of the recogniser, for the utterance it is at
    steps,                  \* decoding steps it has still to make
    utterance, queue,       \* the utterance it is at; the detector's segments
    last, received, nextIndex,      \* the driver's
    seen, finals, ending            \* of the session: partial, finals, outcome

recogniserVars == <<hypothesis, endpoint, steps, utterance, queue>>
localStateVars == <<last, received, nextIndex>>
localSessionVars == <<seen, finals, ending>>
localVars == <<offline, at, closed, inputs, recogniserVars, localStateVars, localSessionVars>>

LocalInit ==
    /\ offline \in BOOLEAN
    /\ at = "start" /\ closed = FALSE /\ inputs = 0
    /\ hypothesis = Blank /\ endpoint = FALSE /\ steps = 0 /\ utterance = 1 /\ queue = <<>>
    /\ last = Blank /\ received = FALSE /\ nextIndex = 0
    /\ seen = Blank /\ finals = <<>> /\ ending = "none"

-----------------------------------------------------------------------------
Open == ending = "none"
To(where) == at' = where
\* A check or a call of the session fails once it is settled.
Unsettled(where) == To(IF Open THEN where ELSE "broken")
StartLocal ==
    /\ at = "start" /\ Unsettled("run")
    /\ UNCHANGED <<offline, closed, inputs, recogniserVars, localStateVars, localSessionVars>>

\* Streaming: push and finish give the recogniser audio, and it hears something.
Hears ==
    /\ steps' \in 0..MaxSteps
    /\ IF steps' = 0 THEN UNCHANGED <<hypothesis, endpoint>>
                     ELSE hypothesis' \in Heard /\ endpoint' \in BOOLEAN
    /\ UNCHANGED <<utterance, queue>>
PushStreaming ==
    /\ at = "run" /\ ~offline /\ inputs < MaxInputs
    /\ inputs' = inputs + 1 /\ received' = TRUE /\ Hears /\ To("decode")
    /\ UNCHANGED <<offline, closed, last, nextIndex, localSessionVars>>
FinishStreaming ==
    /\ at = "run" /\ ~offline /\ closed' = TRUE
    /\ \/ ~received /\ Unsettled("done") /\ UNCHANGED recogniserVars
       \/ received /\ Hears /\ To("decode")
    /\ UNCHANGED <<offline, inputs, localStateVars, localSessionVars>>

\* The loop checks the session before every step.
DecodeStep ==
    /\ at = "decode" /\ steps > 0
    /\ steps' = steps - 1 /\ Unsettled("decode")
    /\ UNCHANGED <<offline, closed, inputs, hypothesis, endpoint, utterance, queue, localStateVars, localSessionVars>>

\* Mutant: the text shown last outlives its utterance.
KeepsLast == last
Cleared == Blank
Final(of) == finals' = Append(finals, [index |-> nextIndex, utterance |-> of])
\* A final takes the next index, and the recogniser starts the next utterance.
StreamingFinal ==
    /\ closed \/ endpoint
    /\ Final(utterance) /\ seen' = Blank
    /\ nextIndex' = nextIndex + 1 /\ last' = Cleared
    /\ utterance' = utterance + 1 /\ hypothesis' = Blank /\ endpoint' = FALSE
StreamingPartial ==
    /\ ~closed /\ ~endpoint
    /\ seen' = (IF last # hypothesis THEN hypothesis ELSE seen) /\ last' = hypothesis
    /\ UNCHANGED <<finals, nextIndex, utterance, hypothesis, endpoint>>
ResultStep ==
    /\ at = "decode" /\ steps = 0
    /\ \/ Open /\ (StreamingFinal \/ StreamingPartial) /\ To(IF closed THEN "done" ELSE "run")
       \/ To("broken") /\ UNCHANGED <<seen, finals, last, nextIndex, utterance, hypothesis, endpoint>>
    /\ UNCHANGED <<offline, closed, inputs, steps, queue, received, ending>>

\* Offline: each part of a chunk may end a segment, and drain takes them all.
PushOffline ==
    /\ at = "run" /\ offline /\ inputs < MaxInputs
    /\ inputs' = inputs + 1 /\ Unsettled("drain")
    /\ \E n \in 0..2 : queue' = queue \o [k \in 1..n |-> utterance + k - 1] /\ utterance' = utterance + n
    /\ UNCHANGED <<offline, closed, hypothesis, endpoint, steps, localStateVars, localSessionVars>>
FinishOffline ==
    /\ at = "run" /\ offline /\ closed' = TRUE /\ To("drain")
    /\ \E n \in 0..1 :
         /\ n = 1 => inputs > 0
         /\ queue' = queue \o [k \in 1..n |-> utterance + k - 1] /\ utterance' = utterance + n
    /\ UNCHANGED <<offline, inputs, hypothesis, endpoint, steps, localStateVars, localSessionVars>>
\* Mutant: a segment stays in front when its final is made.
NoPop == queue
Popped == Tail(queue)
TakeSegment ==
    /\ at = "drain" /\ queue # <<>>
    /\ \/ Open /\ Final(Head(queue)) /\ nextIndex' = nextIndex + 1 /\ queue' = Popped /\ UNCHANGED at
       \/ To("broken") /\ UNCHANGED <<finals, queue, nextIndex>>
    /\ UNCHANGED <<offline, closed, inputs, hypothesis, endpoint, steps, utterance, last, received,
                   seen, ending>>
AllDrained ==
    /\ at = "drain" /\ queue = <<>> /\ To(IF closed THEN "done" ELSE "run")
    /\ UNCHANGED <<offline, closed, inputs, recogniserVars, localStateVars, localSessionVars>>

\* The worker, and at any time the host, settles the session.
Ends(result) ==
    /\ ending' = (IF Open THEN result ELSE ending) /\ seen' = Blank
    /\ UNCHANGED <<offline, closed, inputs, recogniserVars, localStateVars, finals>>
LocalSettles ==
    \/ at = "done" /\ Ends("ok") /\ To("ended")
    \/ at = "broken" /\ Ends("error") /\ To("ended")
HostSettles == Open /\ Ends("error") /\ UNCHANGED at

LocalNext ==
    \/ StartLocal \/ PushStreaming \/ FinishStreaming \/ DecodeStep \/ ResultStep
    \/ PushOffline \/ FinishOffline \/ TakeSegment \/ AllDrained \/ LocalSettles \/ HostSettles
LocalSpec == LocalInit /\ [][LocalNext]_localVars

-----------------------------------------------------------------------------
\* The host gets the final of each utterance, once and in order, and while none is
\* due it sees what has been heard of the present one; a session that completes
\* has left nothing out.
LocalTranscript ==
    /\ \A k \in DOMAIN finals : finals[k] = [index |-> k - 1, utterance |-> k]
    /\ at = "run" /\ Open => seen = hypothesis
    /\ ending = "ok" => queue = <<>> /\ hypothesis = Blank /\ Len(finals) = utterance - 1
===============================================================================
