------------------------------ MODULE Network_proofs ------------------------------
(***************************************************************************)
(* The two network drivers that share no state: the safety properties of   *)
(* HttpDriver, for any limits and any number of chunks and segments, and   *)
(* of DashScope, for any sentences.                                        *)
(***************************************************************************)
EXTENDS DashScope, HttpDriver, ResultStore_proofs

-----------------------------------------------------------------------------
(* HttpDriver.                                                             *)

Requests ==
    [run : {"off", "check", "limit", "select"}, sawDeadline : BOOLEAN,
     stage : {"connecting", "sending", "finished", "dropped"},
     progress : {"connecting", "sending", "finished", "dropped"},
     transport : {"connecting", "answered", "refused", "broken"},
     chunk : {"none", "nothing", "delta", "final", "error"},
     ended : {"no", "eof", "broken"}, received : Nat]
HttpTypes ==
    /\ utterances \in BOOLEAN /\ sse \in BOOLEAN
    /\ place \in {"start", "run", "drain", "upload", "response", "commit", "done", "failing", "ended"}
    /\ closing \in BOOLEAN /\ pushes \in Nat /\ held \in Nat
    /\ segments \in Seq(Nat) /\ cut \in Nat /\ taken \in Nat /\ nextIndex \in Nat
    /\ request \in Requests /\ permit \in BOOLEAN
    /\ shown \in Seq(Nat) /\ committed \in Seq([index : Nat, segment : Nat])
    /\ settled \in {"none", "ok", "error"} /\ deadline \in {"none", "set", "passed"}
    /\ signalling \in Nat

\* The segments that wait are the last that were cut, in order; before them comes
\* the one that is taken.
Transcribing == place \in {"upload", "response", "commit"}
LastSegments == \A k \in 1..Len(segments) : segments[k] = cut - Len(segments) + k
SegmentsInOrder ==
    /\ Len(segments) <= cut /\ LastSegments
    /\ Transcribing => taken = cut - Len(segments)
    /\ place = "done" => segments = <<>>

\* While the session is not settled, the finals are those of the segments before.
FinalsCounted ==
    /\ settled = "none" /\ place \notin {"failing", "ended"} =>
         /\ nextIndex = Len(committed)
         /\ Len(committed) + Len(segments) + (IF Transcribing THEN 1 ELSE 0) = cut
    /\ settled = "none" => place # "ended"
    /\ settled = "ok" => place = "ended"

\* A whole recording becomes one segment when the input is closed.
OneRecording ==
    /\ place \in {"start", "run"} => ~closing
    /\ place = "done" => closing
    /\ ~utterances /\ place \notin {"failing", "ended"} =>
         /\ ~closing => cut = 0 /\ (pushes > 0 => held > 0)
         /\ closing => pushes = 0 \/ cut = 1

\* Between the check and the wait, too, a change is told: with NoLostCancel.
ToldOfTheEnd ==
    InRequest /\ request.run = "limit" /\ settled # "none" => permit \/ signalling > 0

HttpInv ==
    /\ HttpTypes /\ SegmentsInOrder /\ FinalsCounted /\ OneRecording /\ ToldOfTheEnd
    /\ TranscriptAsServed /\ NoLostCancel
-----------------------------------------------------------------------------
\* What the voice detector cuts is numbered on.
LEMMA CutsInOrder ==
    ASSUME HttpTypes, LastSegments, Len(segments) <= cut, NEW n \in Nat, Cuts(n)
    PROVE  /\ segments' \in Seq(Nat) /\ cut' = cut + n
           /\ Len(segments') = Len(segments) + n /\ LastSegments'
<1> DEFINE new == [k \in 1..n |-> cut + k]
<1>1. segments \in Seq(Nat) /\ cut \in Nat
  BY DEF HttpTypes
<1>2. new \in Seq(Nat) /\ Len(new) = n /\ \A k \in 1..n : new[k] = cut + k
  BY <1>1
<1> HIDE DEF new
<1>3. segments' = segments \o new /\ cut' = cut + n
  BY DEF Cuts, new
<1>4. /\ segments' \in Seq(Nat) /\ Len(segments') = Len(segments) + n
      /\ \A k \in 1..Len(segments) + n :
           segments'[k] = IF k <= Len(segments) THEN segments[k] ELSE new[k - Len(segments)]
  BY <1>1, <1>2, <1>3, ConcatProperties
<1>5. ASSUME NEW k \in 1..Len(segments') PROVE segments'[k] = cut' - Len(segments') + k
  BY <1>1, <1>2, <1>3, <1>4, <1>5 DEF LastSegments
<1> QED
  BY <1>3, <1>4, <1>5 DEF LastSegments

\* What transcribe takes is the first.
LEMMA TakenInOrder ==
    ASSUME HttpTypes, LastSegments, Len(segments) <= cut, segments # <<>>
    PROVE  /\ Tail(segments) \in Seq(Nat) /\ Len(Tail(segments)) = Len(segments) - 1
           /\ Head(segments) \in Nat /\ Head(segments) = cut - Len(Tail(segments))
           /\ \A k \in 1..Len(Tail(segments)) : Tail(segments)[k] = cut - Len(Tail(segments)) + k
<1>1. segments \in Seq(Nat) /\ cut \in Nat /\ Len(segments) \in Nat /\ Len(segments) > 0
  BY EmptySeq DEF HttpTypes
<1>2. Tail(segments) \in Seq(Nat) /\ Len(Tail(segments)) = Len(segments) - 1
  BY <1>1
<1>3. Head(segments) = segments[1]
  BY <1>1
<1>4. \A k \in 1..Len(Tail(segments)) : Tail(segments)[k] = segments[k + 1]
  BY <1>1, <1>2
<1> QED
  BY <1>1, <1>2, <1>3, <1>4 DEF LastSegments

\* Records of the request under way stay well formed.
LEMMA NoRequestTyped == NoRequest \in Requests
BY DEF Requests, NoRequest

\* So does one that goes on to another of its steps.
LEMMA RunTyped ==
    ASSUME NEW r \in Requests, NEW s \in {"check", "limit", "select"}, NEW b \in BOOLEAN
    PROVE  [r EXCEPT !.run = s] \in Requests /\ [r EXCEPT !.run = s, !.sawDeadline = b] \in Requests
BY DEF Requests

\* And one whose response has brought a chunk, or has its head.
LEMMA ResponseTyped ==
    ASSUME NEW r \in Requests
    PROVE  /\ [r EXCEPT !.chunk = "none", !.received = @ + 1] \in Requests
           /\ [NoRequest EXCEPT !.run = "select", !.sawDeadline = r.sawDeadline] \in Requests
<1>1. r.received + 1 \in Nat /\ r.sawDeadline \in BOOLEAN
  BY DEF Requests
<1>2. [r EXCEPT !.chunk = "none", !.received = r.received + 1] \in Requests
  BY <1>1 DEF Requests
<1>3. [r EXCEPT !.chunk = "none", !.received = @ + 1]
        = [r EXCEPT !.chunk = "none", !.received = r.received + 1]
  BY DEF Requests
<1> QED
  BY <1>1, <1>2, <1>3, NoRequestTyped, RunTyped

\* The steps of a request, and those of its surroundings.
InNetwork ==
    \/ RunChecks \/ RunLimits \/ RunNotified \/ RunTimesOut \/ SeesProgress
    \/ StageTimesOut \/ Responds \/ ReadChunk \/ ReadEnd
Surroundings == DeadlinePasses \/ Uploads \/ Answers \/ ServerSends \/ ServerEnds

\* A request changes only its own record, the permit and the partial.
LEMMA RequestStep ==
    ASSUME HttpTypes, InNetwork
    PROVE  /\ RequestSteps /\ InRequest
           /\ place' \in {"upload", "response", "commit", "failing"}
           /\ request' \in Requests /\ permit' \in BOOLEAN
           /\ shown' = shown \/ (CheckOk /\ shown' = <<nextIndex>>)
<1> USE DEF HttpTypes, Moves, Leaves, RunSteps, UploadSteps, InRequest, Waiting
<1>1. NoRequest \in Requests
  BY NoRequestTyped
<1>2. CASE RunChecks
  BY <1>1, <1>2, RunTyped DEF RunChecks
<1>3. CASE RunLimits
  BY <1>1, <1>3, RunTyped DEF RunLimits, NextEnd
<1>4. CASE RunNotified
  BY <1>1, <1>4, RunTyped DEF RunNotified
<1>5. CASE RunTimesOut
  BY <1>1, <1>5 DEF RunTimesOut
<1>6. CASE SeesProgress
  BY <1>1, <1>6 DEF SeesProgress, Requests
<1>7. CASE StageTimesOut
  BY <1>1, <1>7 DEF StageTimesOut
<1>8. CASE Responds
  BY <1>1, <1>8, ResponseTyped DEF Responds
<1>9. CASE ReadChunk
  BY <1>1, <1>9, ResponseTyped DEF ReadChunk, RequestFails, GivesText, ShowsPartial
<1>10. CASE ReadEnd
  BY <1>1, <1>10 DEF ReadEnd, RequestFails, GivesText, ShowsPartial
<1> QED
  BY <1>2, <1>3, <1>4, <1>5, <1>6, <1>7, <1>8, <1>9, <1>10 DEF InNetwork

\* The transport, the server and the clock change only the record and the deadline.
LEMMA SurroundingsStep ==
    ASSUME HttpTypes, Surroundings
    PROVE  /\ External /\ request' \in Requests /\ deadline' \in {"none", "set", "passed"}
           /\ request'.run = request.run /\ request'.sawDeadline = request.sawDeadline
           /\ deadline' # "none" => deadline # "none"
<1> USE DEF HttpTypes, Requests
<1>1. CASE DeadlinePasses
  BY <1>1 DEF DeadlinePasses, External
<1>2. CASE Uploads
  BY <1>2 DEF Uploads
<1>3. CASE Answers
  BY <1>3 DEF Answers
<1>4. CASE ServerSends
  BY <1>4 DEF ServerSends
<1>5. CASE ServerEnds
  BY <1>5 DEF ServerEnds
<1> QED
  BY <1>1, <1>2, <1>3, <1>4, <1>5 DEF Surroundings

\* The conjuncts of HttpInv in turn, each with one step per action or kind of action.
\* Types.
LEMMA StepTyped ==
    ASSUME HttpTypes, SegmentsInOrder, [HttpNext]_httpVars PROVE HttpTypes'
<1> USE DEF HttpTypes, SegmentsInOrder, configVars, audioVars, shownVars, hostVars
<1>1. CASE UNCHANGED httpVars
  BY <1>1 DEF httpVars
<1>2. CASE Begin
  BY <1>2 DEF Begin, Checked, Moves, AtWorker
<1>3. CASE PushSamples
  <2>1. ASSUME NEW n \in Nat, Cuts(n) PROVE segments' \in Seq(Nat) /\ cut' \in Nat
    BY <2>1, CutsInOrder
  <2> QED
    BY <1>3, <2>1 DEF PushSamples, Checked, Moves, AtWorker
<1>4. CASE FinishSamples
  <2>1. ASSUME NEW n \in Nat, Cuts(n) PROVE segments' \in Seq(Nat) /\ cut' \in Nat
    BY <2>1, CutsInOrder
  <2> QED
    BY <1>4, <2>1 DEF FinishSamples, Moves, AtWorker
<1>5. CASE Drained
  BY <1>5 DEF Drained, BackAtWorker, Moves, AtWorker
<1>6. CASE Transcribe
  BY <1>6, TakenInOrder, NoRequestTyped, RunTyped DEF Transcribe, Moves
<1>7. CASE InNetwork
  <2>1. <<nextIndex>> \in Seq(Nat)
    OBVIOUS
  <2> QED
    BY <1>7, <2>1, RequestStep DEF RequestSteps
<1>8. CASE CommitText
  <2>1. Append(committed, [index |-> nextIndex, segment |-> taken]) \in Seq([index : Nat, segment : Nat])
    OBVIOUS
  <2>2. <<>> \in Seq(Nat)
    OBVIOUS
  <2>3. committed' \in Seq([index : Nat, segment : Nat])
    BY <1>8, <2>1 DEF CommitText
  <2>4. (shown' = <<>> \/ shown' = shown) /\ nextIndex' \in Nat
    BY <1>8 DEF CommitText
  <2> QED
    BY <1>8, <2>2, <2>3, <2>4 DEF CommitText, AfterCommit, Moves
<1>9. CASE WorkerSettles
  <2>1. <<>> \in Seq(Nat)
    OBVIOUS
  <2>2. settled' \in {"none", "ok", "error"}
    BY <1>9 DEF WorkerSettles, SettlesAs
  <2>3. /\ shown' = <<>> /\ signalling' = signalling + 1 /\ place' = "ended"
        /\ UNCHANGED <<permit, request, deadline>> /\ Outside
    BY <1>9 DEF WorkerSettles, SettlesAs, Changed, Moves
  <2> QED
    BY <2>1, <2>2, <2>3 DEF Outside
<1>10. CASE HostCancels
  BY <1>10 DEF HostCancels, SettlesAs, Changed, Outside
<1>11. CASE HostFinishes
  BY <1>11 DEF HostFinishes, Changed, Outside
<1>12. CASE Signal
  BY <1>12 DEF Signal, NotifyOne, Outside
<1>13. CASE Surroundings
  BY <1>13, SurroundingsStep DEF External
<1> QED
  BY <1>1, <1>2, <1>3, <1>4, <1>5, <1>6, <1>7, <1>8, <1>9, <1>10, <1>11, <1>12, <1>13
  DEF HttpNext, HttpStep, InNetwork, Surroundings

\* Segments are taken from the front, one at a time.
LEMMA StepInOrder ==
    ASSUME HttpTypes, SegmentsInOrder, [HttpNext]_httpVars PROVE SegmentsInOrder'
<1> USE DEF HttpTypes, SegmentsInOrder, Transcribing, configVars, audioVars, shownVars, hostVars
<1>1. CASE UNCHANGED httpVars
  BY <1>1 DEF httpVars, LastSegments
<1>2. CASE Begin
  BY <1>2 DEF Begin, Checked, Moves, AtWorker, LastSegments
<1>3. CASE PushSamples
  <2>1. ASSUME NEW n \in Nat, Cuts(n) PROVE Len(segments') <= cut' /\ LastSegments'
    BY <2>1, CutsInOrder
  <2> QED
    <3>1. CASE utterances
      BY <1>3, <2>1, <3>1 DEF PushSamples, Checked, Moves, AtWorker
    <3>2. CASE ~utterances
      BY <1>3, <3>2 DEF PushSamples, LastSegments, Checked, Moves, AtWorker
    <3> QED
      BY <3>1, <3>2
<1>4. CASE FinishSamples
  <2>1. ASSUME NEW n \in Nat, Cuts(n) PROVE Len(segments') <= cut' /\ LastSegments'
    BY <2>1, CutsInOrder
  <2> QED
    BY <1>4, <2>1 DEF FinishSamples, Moves, AtWorker
<1>5. CASE Drained
  BY <1>5 DEF Drained, BackAtWorker, Moves, AtWorker, LastSegments
<1>6. CASE Transcribe
  BY <1>6, TakenInOrder DEF Transcribe, Moves, LastSegments
<1>7. CASE InNetwork
  BY <1>7, RequestStep DEF RequestSteps, InRequest, LastSegments
<1>8. CASE CommitText
  BY <1>8 DEF CommitText, CheckOk, AfterCommit, Moves, LastSegments
<1>9. CASE WorkerSettles
  BY <1>9 DEF WorkerSettles, SettlesAs, Changed, Outside, Moves, LastSegments
<1>10. CASE HostCancels
  BY <1>10 DEF HostCancels, SettlesAs, Changed, Outside, LastSegments
<1>11. CASE HostFinishes
  BY <1>11 DEF HostFinishes, Changed, Outside, LastSegments
<1>12. CASE Signal
  BY <1>12 DEF Signal, NotifyOne, Outside, LastSegments
<1>13. CASE Surroundings
  BY <1>13, SurroundingsStep DEF External, LastSegments
<1> QED
  BY <1>1, <1>2, <1>3, <1>4, <1>5, <1>6, <1>7, <1>8, <1>9, <1>10, <1>11, <1>12, <1>13
  DEF HttpNext, HttpStep, InNetwork, Surroundings

\* Each segment that is taken gets its final before the next is taken.
LEMMA StepCounted ==
    ASSUME HttpTypes, SegmentsInOrder, FinalsCounted, [HttpNext]_httpVars PROVE FinalsCounted'
<1> USE DEF HttpTypes, SegmentsInOrder, FinalsCounted, Transcribing, configVars, audioVars, shownVars, hostVars
<1>1. CASE UNCHANGED httpVars
  BY <1>1 DEF httpVars
<1>2. CASE Begin
  BY <1>2 DEF Begin, Checked, Moves, AtWorker
<1>3. CASE PushSamples
  <2>1. ASSUME NEW n \in Nat, Cuts(n) PROVE cut' = cut + n /\ Len(segments') = Len(segments) + n
    BY <2>1, CutsInOrder
  <2> QED
    <3>1. CASE utterances
      <4>1. PICK n \in 0..2 : Cuts(n)
        BY <1>3, <3>1 DEF PushSamples
      <4>2. n \in Nat /\ cut' = cut + n /\ Len(segments') = Len(segments) + n
        BY <2>1, <4>1
      <4>3. place = "run" /\ place' \in {"drain", "failing"} /\ AtWorker
        BY <1>3, <3>1 DEF PushSamples, Checked, Moves
      <4> QED
        BY <4>2, <4>3 DEF AtWorker
    <3>2. CASE ~utterances
      BY <1>3, <3>2 DEF PushSamples, Checked, Moves, AtWorker
    <3> QED
      BY <3>1, <3>2
<1>4. CASE FinishSamples
  <2>1. ASSUME NEW n \in Nat, Cuts(n) PROVE cut' = cut + n /\ Len(segments') = Len(segments) + n
    BY <2>1, CutsInOrder
  <2> QED
    BY <1>4, <2>1 DEF FinishSamples, Moves, AtWorker
<1>5. CASE Drained
  BY <1>5 DEF Drained, BackAtWorker, Moves, AtWorker
<1>6. CASE Transcribe
  <2>1. /\ segments' = Tail(segments) /\ Len(segments') = Len(segments) - 1
        /\ place' \in {"upload", "failing"}
    BY <1>6, TakenInOrder DEF Transcribe, Moves
  <2> QED
    <3>1. place = "drain" /\ UNCHANGED <<settled, nextIndex, committed, cut>>
      BY <1>6 DEF Transcribe
    <3>2. Len(segments) \in Nat /\ Len(committed) \in Nat
      OBVIOUS
    <3>3. CASE settled = "none"
      <4>1. nextIndex = Len(committed) /\ Len(committed) + Len(segments) = cut
        BY <3>1, <3>3
      <4>2. ASSUME place' = "upload" PROVE Len(committed) + Len(segments') + 1 = cut
        <5>1. Len(segments') = Len(segments) - 1 /\ cut \in Nat
          BY <2>1
        <5> HIDE DEF HttpTypes, SegmentsInOrder, FinalsCounted, Transcribing
        <5> QED
          BY ONLY <3>2, <4>1, <5>1
      <4> QED
        BY <2>1, <3>1, <3>3, <4>1, <4>2
    <3>4. CASE settled # "none"
      BY <3>1, <3>4
    <3> QED
      BY <3>3, <3>4
<1>7. CASE InNetwork
  BY <1>7, RequestStep DEF RequestSteps, InRequest
<1>8. CASE CommitText
  BY <1>8 DEF CommitText, CheckOk, AfterCommit, Moves
<1>9. CASE WorkerSettles
  BY <1>9 DEF WorkerSettles, SettlesAs, Changed, Outside, Moves
<1>10. CASE HostCancels
  BY <1>10 DEF HostCancels, SettlesAs, Changed, Outside
<1>11. CASE HostFinishes
  BY <1>11 DEF HostFinishes, Changed, Outside
<1>12. CASE Signal
  BY <1>12 DEF Signal, NotifyOne, Outside
<1>13. CASE Surroundings
  BY <1>13, SurroundingsStep DEF External
<1> QED
  BY <1>1, <1>2, <1>3, <1>4, <1>5, <1>6, <1>7, <1>8, <1>9, <1>10, <1>11, <1>12, <1>13
  DEF HttpNext, HttpStep, InNetwork, Surroundings

\* Without voice detection nothing is cut before the input is closed.
LEMMA StepOneRecording ==
    ASSUME HttpTypes, OneRecording, [HttpNext]_httpVars PROVE OneRecording'
<1> USE DEF HttpTypes, OneRecording, configVars, audioVars, shownVars, hostVars
<1>1. CASE UNCHANGED httpVars
  BY <1>1 DEF httpVars
<1>2. CASE Begin
  BY <1>2 DEF Begin, Checked, Moves, AtWorker
<1>3. CASE PushSamples
  <2>1. CASE utterances
    BY <1>3, <2>1 DEF PushSamples, Checked, Moves, AtWorker
  <2>2. CASE ~utterances
    <3>1. place = "run" /\ UNCHANGED <<utterances, closing, cut>> /\ (place' = "failing" \/ held' > 0)
      BY <1>3, <2>2 DEF PushSamples, Checked, Moves, AtWorker
    <3>2. place' \in {"run", "failing"}
      BY <1>3, <2>2 DEF PushSamples, Checked, Moves
    <3> QED
      BY <3>1, <3>2
  <2> QED
    BY <2>1, <2>2
<1>4. CASE FinishSamples
  <2>1. place = "run" /\ closing' /\ place' = "drain" /\ UNCHANGED <<utterances, pushes>>
    BY <1>4 DEF FinishSamples, Moves, AtWorker
  <2>2. ~utterances => cut' = cut + (IF held > 0 THEN 1 ELSE 0)
    BY <1>4 DEF FinishSamples, Cuts
  <2> QED
    BY <2>1, <2>2
<1>5. CASE Drained
  BY <1>5 DEF Drained, BackAtWorker, Moves, AtWorker
<1>6. CASE Transcribe
  BY <1>6 DEF Transcribe, Moves
<1>7. CASE InNetwork
  BY <1>7, RequestStep DEF RequestSteps, InRequest
<1>8. CASE CommitText
  BY <1>8 DEF CommitText, CheckOk, AfterCommit, Moves
<1>9. CASE WorkerSettles
  BY <1>9 DEF WorkerSettles, SettlesAs, Changed, Outside, Moves
<1>10. CASE HostCancels
  BY <1>10 DEF HostCancels, SettlesAs, Changed, Outside
<1>11. CASE HostFinishes
  BY <1>11 DEF HostFinishes, Changed, Outside
<1>12. CASE Signal
  BY <1>12 DEF Signal, NotifyOne, Outside
<1>13. CASE Surroundings
  BY <1>13, SurroundingsStep DEF External
<1> QED
  BY <1>1, <1>2, <1>3, <1>4, <1>5, <1>6, <1>7, <1>8, <1>9, <1>10, <1>11, <1>12, <1>13
  DEF HttpNext, HttpStep, InNetwork, Surroundings

\* A final is of the segment that is taken, at the next index.
LEMMA StepServed ==
    ASSUME HttpTypes, SegmentsInOrder, FinalsCounted, OneRecording, TranscriptAsServed, [HttpNext]_httpVars PROVE TranscriptAsServed'
<1> USE DEF HttpTypes, SegmentsInOrder, FinalsCounted, OneRecording, TranscriptAsServed, Transcribing, configVars, audioVars, shownVars, hostVars
<1>1. CASE UNCHANGED httpVars
  BY <1>1 DEF httpVars
<1>2. CASE Begin
  BY <1>2 DEF Begin, Checked, Moves, AtWorker
<1>3. CASE PushSamples
  BY <1>3 DEF PushSamples, Checked, Moves, AtWorker
<1>4. CASE FinishSamples
  BY <1>4 DEF FinishSamples, Moves, AtWorker
<1>5. CASE Drained
  BY <1>5 DEF Drained, BackAtWorker, Moves, AtWorker
<1>6. CASE Transcribe
  BY <1>6 DEF Transcribe, Moves
<1>7. CASE InNetwork
  BY <1>7, RequestStep DEF RequestSteps, InRequest, CheckOk
<1>8. CASE CommitText
  <2>1. CASE CheckOk /\ committed' = Append(committed, [index |-> nextIndex, segment |-> taken])
    <3>1. nextIndex = Len(committed) /\ taken = Len(committed) + 1 /\ settled = "none"
      BY <1>8, <2>1 DEF CommitText, CheckOk
    <3>2. /\ DOMAIN committed' = 1..Len(committed) + 1
          /\ \A k \in DOMAIN committed : committed'[k] = committed[k]
          /\ committed'[Len(committed) + 1] = [index |-> nextIndex, segment |-> taken]
      <4>1. [index |-> nextIndex, segment |-> taken] \in [index : Nat, segment : Nat]
        OBVIOUS
      <4> QED
        BY ONLY <2>1, <4>1, HttpTypes, AppendProperties DEF HttpTypes
    <3>3. ASSUME NEW k \in DOMAIN committed' PROVE committed'[k] = [index |-> k - 1, segment |-> k]
      <4>1. DOMAIN committed = 1..Len(committed) /\ Len(committed) \in Nat
        OBVIOUS
      <4>2. \A j \in DOMAIN committed : committed[j] = [index |-> j - 1, segment |-> j]
        BY DEF TranscriptAsServed
      <4>3. CASE k \in DOMAIN committed
        BY ONLY <3>2, <4>2, <4>3
      <4>4. CASE k = Len(committed) + 1
        <5>1. k - 1 = nextIndex /\ k = taken
          BY ONLY <3>1, <4>1, <4>4
        <5> QED
          BY ONLY <3>2, <4>4, <5>1
      <4> QED
        BY ONLY <3>2, <4>1, <4>3, <4>4
    <3>4. shown' = <<>> /\ settled' = settled
      BY <1>8, <2>1, <3>2 DEF CommitText
    <3> QED
      BY <3>1, <3>3, <3>4
  <2>2. CASE UNCHANGED shownVars
    BY <1>8, <2>2 DEF CommitText
  <2> QED
    BY <1>8, <2>1, <2>2 DEF CommitText
<1>9. CASE WorkerSettles
  <2>1. /\ shown' = <<>> /\ UNCHANGED <<committed, cut, utterances, pushes>>
        /\ settled' = settled \/ settled' = "error" \/ (place = "done" /\ settled = "none")
    BY <1>9 DEF WorkerSettles, SettlesAs, Outside
  <2>2. place = "done" /\ settled = "none" => Len(committed) = cut /\ (utterances \/ pushes = 0 \/ cut = 1)
    OBVIOUS
  <2> QED
    BY <2>1, <2>2
<1>10. CASE HostCancels
  BY <1>10 DEF HostCancels, SettlesAs, Changed, Outside
<1>11. CASE HostFinishes
  BY <1>11 DEF HostFinishes, Changed, Outside
<1>12. CASE Signal
  BY <1>12 DEF Signal, NotifyOne, Outside
<1>13. CASE Surroundings
  BY <1>13, SurroundingsStep DEF External
<1> QED
  BY <1>1, <1>2, <1>3, <1>4, <1>5, <1>6, <1>7, <1>8, <1>9, <1>10, <1>11, <1>12, <1>13
  DEF HttpNext, HttpStep, InNetwork, Surroundings

\* The permit is consumed only to check again.
LEMMA StepTold ==
    ASSUME HttpTypes, ToldOfTheEnd, NoLostCancel, [HttpNext]_httpVars
    PROVE  ToldOfTheEnd' /\ NoLostCancel'
<1> USE DEF HttpTypes, ToldOfTheEnd, NoLostCancel, Waiting, InRequest, Moves, Leaves,
            configVars, audioVars, shownVars, hostVars
<1>1. CASE UNCHANGED httpVars
  BY <1>1 DEF httpVars
<1>2. CASE Begin
  BY <1>2 DEF Begin, Checked, AtWorker
<1>3. CASE PushSamples
  BY <1>3 DEF PushSamples, Checked, AtWorker
<1>4. CASE FinishSamples
  BY <1>4 DEF FinishSamples, AtWorker
<1>5. CASE Drained
  BY <1>5 DEF Drained, BackAtWorker, AtWorker
<1>6. CASE Transcribe
  BY <1>6 DEF Transcribe, Requests, NoRequest
<1>7. CASE CommitText
  BY <1>7 DEF CommitText, CheckOk, AfterCommit
<1>8. CASE WorkerSettles
  BY <1>8 DEF WorkerSettles, SettlesAs, Changed, Outside
<1>9. CASE HostCancels
  BY <1>9 DEF HostCancels, SettlesAs, Changed, Outside
<1>10. CASE HostFinishes
  BY <1>10 DEF HostFinishes, Changed, Outside
<1>11. CASE Signal
  BY <1>11 DEF Signal, NotifyOne, Outside
<1>12. CASE Surroundings
  BY <1>12, SurroundingsStep DEF External
<1>13. CASE RunChecks
  BY <1>13 DEF RunChecks, CheckOk, RunSteps, UploadSteps, RequestSteps, NoRequest, Requests
<1>14. CASE RunLimits
  BY <1>14 DEF RunLimits, NextEnd, RunSteps, UploadSteps, RequestSteps, NoRequest, Requests
<1>15. CASE RunNotified
  BY <1>15 DEF RunNotified, RunSteps, UploadSteps, RequestSteps, NoRequest, Requests
<1>16. CASE RunTimesOut
  BY <1>16 DEF RunTimesOut, RunSteps, UploadSteps, RequestSteps, NoRequest, Requests
<1>17. CASE SeesProgress
  BY <1>17 DEF SeesProgress, RunSteps, UploadSteps, RequestSteps, NoRequest, Requests
<1>18. CASE StageTimesOut
  BY <1>18 DEF StageTimesOut, RunSteps, UploadSteps, RequestSteps, NoRequest, Requests
<1>19. CASE Responds
  BY <1>19 DEF Responds, RunSteps, UploadSteps, RequestSteps, NoRequest, Requests
<1>20. CASE ReadChunk
  <2>1. /\ UNCHANGED hostVars /\ (permit' = permit \/ permit')
        /\ place' \notin {"upload", "response"} \/ (UNCHANGED place /\ request'.run = request.run
                                                   /\ request'.sawDeadline = request.sawDeadline)
    BY <1>20 DEF ReadChunk, RequestFails, GivesText, ShowsPartial, RequestSteps, Requests
  <2> QED
    BY <1>20, <2>1 DEF ReadChunk
<1>21. CASE ReadEnd
  BY <1>21 DEF ReadEnd, RequestFails, GivesText, ShowsPartial, RunSteps, UploadSteps, RequestSteps, NoRequest, Requests
<1> QED
  BY <1>1, <1>2, <1>3, <1>4, <1>5, <1>6, <1>7, <1>8, <1>9, <1>10, <1>11, <1>12, <1>13, <1>14, <1>15, <1>16, <1>17, <1>18, <1>19, <1>20, <1>21
  DEF HttpNext, HttpStep, Surroundings

\* The inductive invariant holds throughout: it starts so, and every step keeps it.
THEOREM HttpInvariantHolds == HttpSpec => []HttpInv
<1>1. HttpInit => HttpInv
  <2> SUFFICES ASSUME HttpInit PROVE HttpInv
    OBVIOUS
  <2>1. HttpTypes
    <3>1. <<>> \in Seq(Nat) /\ <<>> \in Seq([index : Nat, segment : Nat])
      OBVIOUS
    <3> QED
      BY <3>1, NoRequestTyped DEF HttpInit, HttpTypes
  <2> QED
    BY <2>1 DEF HttpInit, HttpInv, SegmentsInOrder, LastSegments, FinalsCounted, OneRecording,
                ToldOfTheEnd, TranscriptAsServed, NoLostCancel, Waiting, InRequest, Transcribing
<1>2. HttpInv /\ [HttpNext]_httpVars => HttpInv'
  BY StepTyped, StepInOrder, StepCounted, StepOneRecording, StepTold, StepServed DEF HttpInv
<1> QED
  BY <1>1, <1>2, PTL DEF HttpSpec

\* The host gets the text of every segment once and in order, and a session that
\* completes has left none out (HttpDriver::transcribe, drain and finish).
THEOREM SegmentsAreServed == HttpSpec => []TranscriptAsServed
<1>1. HttpInv => TranscriptAsServed
  BY DEF HttpInv
<1> QED
  BY HttpInvariantHolds, <1>1, PTL

\* A request that waits for the network is told of a cancellation and of a nearer
\* deadline (Network::run and Control::signal).
THEOREM RequestsAreTold == HttpSpec => []NoLostCancel
<1>1. HttpInv => NoLostCancel
  BY DEF HttpInv
<1> QED
  BY HttpInvariantHolds, <1>1, PTL

-----------------------------------------------------------------------------
(* DashScope.  A sentence is the final of its number; the driver hears the *)
(* finals in turn, at most one of them twice, and its index, the calls it  *)
(* makes and the store go on together.                                     *)
Events ==
    {e \in [type : {"task-started", "task-finished", "task-failed", "heartbeat", "partial", "final"},
            task : {"ours", "other", "none"}, sentence : 0..Len(Says)] :
       e.type \in {"partial", "final"} /\ e.task # "other" => e.sentence \in Sentences}
ClientMessages == {"run-task", "audio", "finish-task"}

DashTypes ==
    /\ driver \in {"start", "run", "finish", "done", "failed"}
    /\ ready \in BOOLEAN /\ done \in BOOLEAN /\ finishing \in BOOLEAN /\ committing \in BOOLEAN
    /\ index \in Nat /\ said \in 0..Len(Says)
    /\ toServer \in Seq(ClientMessages) /\ toClient \in Seq(Events)
    /\ server \in {"idle", "started", "closing", "finished"}
    /\ oddity \in {"none", "repeated", "unidentified", "misrouted", "heartbeat"}

-----------------------------------------------------------------------------
\* Finals on the wire.  Each of those from the one after q to the n-th is there, and
\* none before those in front of it.
OursToUs(e, type) == e.type = type /\ e.task # "other"
IsFinal(e, k) == OursToUs(e, "final") /\ e.sentence = k
Due(w, q, n) == \A k \in (q + 1)..n : \E j \in 1..Len(w) : IsFinal(w[j], k)
InTurn(w, q, n) ==
    \A j \in 1..Len(w), k \in Sentences : IsFinal(w[j], k) =>
        k <= n /\ \A m \in (q + 1)..(k - 1) : \E i \in 1..(j - 1) : IsFinal(w[i], m)

\* A final that is there once more, after it was heard or after itself.
Again(w, q, j) ==
    \E k \in Sentences : IsFinal(w[j], k) /\ (k <= q \/ \E i \in 1..(j - 1) : IsFinal(w[i], k))
Odd(e, how) ==
    \/ how = "repeated" /\ e.sentence \in Identified
    \/ how = "unidentified" /\ e.sentence \notin Identified
NotAgain(w, q) == \A j \in 1..Len(w) : ~Again(w, q, j)
AgainOnce(w, q, x, how) ==
    /\ \A i, j \in 1..Len(w) : Again(w, q, i) /\ Again(w, q, j) => i = j
    /\ \A j \in 1..Len(w) : Again(w, q, j) => x = 0 /\ Odd(w[j], how)

\* The driver has heard the finals up to q, and x of them once more; those after q are
\* on the wire.
Counted(q, x) == index + (IF committing THEN 1 ELSE 0) = q + x
FinalsOnWire(q, x) ==
    /\ Counted(q, x) /\ (x = 1 => oddity = "unidentified")
    /\ completedSentences = {<<k>> : k \in (1..q) \cap Identified}
    /\ Due(toClient, q, said) /\ InTurn(toClient, q, said) /\ AgainOnce(toClient, q, x, oddity)
HeardInTurn == driver # "failed" => \E q \in 0..said, x \in {0, 1} : FinalsOnWire(q, x)

\* The task starts once and its end is the last thing said about it.
EndOnWire ==
    /\ \A j \in 1..Len(toServer) : toServer[j] = "run-task" => j = 1 /\ server = "idle"
    /\ \A j \in 1..Len(toClient) :
         OursToUs(toClient[j], "task-finished") => j = Len(toClient) /\ server = "finished"
    /\ done => server = "finished" /\ toClient = <<>>
    /\ driver = "done" => done /\ Idle

-----------------------------------------------------------------------------
\* One call at a time: a commit under the next index, or its partial.
CallsMatch ==
    /\ refused \/ driver = "failed" => calls = <<>>
    /\ driver = "failed" => ~committing
    /\ calls # <<>> =>
         /\ Len(calls) = 1 /\ Head(calls).id = Name[index]
         /\ IF committing
            THEN /\ Head(calls).op \in {"commit", "store commit"} /\ Head(calls).index = index
                 /\ Texts = {} /\ oddity # "unidentified" => Head(calls).text = Says[index + 1]
            ELSE Head(calls).op = "partial"

\* The store follows the driver: nothing waits, and what is completed are the indices
\* before the next one, each under its name.
NextIndex == IF committing /\ calls = <<>> /\ ~refused THEN index + 1 ELSE index
StoreFollows ==
    outcome = "none" /\ (driver = "failed" => ~refused) =>
        /\ nextSegment = NextIndex
        /\ \A id \in Ids : completed[id] # Open =>
             \E j \in 0..(NextIndex - 1) : id = Name[j] /\ completed[id] = j
        /\ \A id \in Ids : HasPartial(id) => id = Name[NextIndex]

\* What the host is shown.
SaidUpTo(n) == NonBlank(SubSeq(Says, 1, n))
ShownSoFar ==
    /\ pending = {}
    /\ outcome = "ok" => driver = "done"
    /\ Texts = {} /\ oddity # "unidentified" =>
        /\ outcome = "none" /\ driver # "failed" => Shown = SaidUpTo(NextIndex)
        /\ \E n \in 0..said : Shown = SaidUpTo(n)
        /\ driver = "done" /\ outcome # "error" => Shown = SaidUpTo(said)

DashInv ==
    /\ StoreInv /\ BudgetInv /\ SinkInv /\ DashTypes
    /\ HeardInTurn /\ EndOnWire /\ CallsMatch /\ StoreFollows /\ ShownSoFar

-----------------------------------------------------------------------------
\* The sentences.
LEMMA SaysTyped ==
    /\ Len(Says) \in Nat /\ Sentences = 1..Len(Says) /\ \A k \in Sentences : Says[k] \in Seq(Chars)
    /\ \A j \in 0..(Len(Says) + 1) : Name[j] \in Ids
    /\ \A j, k \in 0..(Len(Says) + 1) : Name[j] = Name[k] => j = k
<1>1. Says \in Seq(Seq(Chars)) /\ Name \in [0..Len(Says) + 1 -> Ids] /\ IsInjective(Name)
  BY TaskAssumption
<1>2. Len(Says) \in Nat /\ DOMAIN Says = 1..Len(Says)
  BY <1>1, LenProperties
<1>3. \A k \in 1..Len(Says) : Says[k] \in Seq(Chars)
  BY <1>1, ElementOfSeq
<1>4. \A j, k \in 0..(Len(Says) + 1) : Name[j] = Name[k] => j = k
  BY <1>1 DEF IsInjective
<1> QED
  BY <1>1, <1>2, <1>3, <1>4 DEF Sentences

\* An event is the final of one sentence.
LEMMA OneSentence == \A e, k, l : IsFinal(e, k) /\ IsFinal(e, l) => k = l
BY DEF IsFinal

\* What is taken that is not the next final: what is due stays due, in its turn.
LEMMA TakenOther ==
    ASSUME NEW S, NEW w \in Seq(S), w # <<>>, NEW p, p = Tail(w), NEW q \in Nat, NEW n \in 0..Len(Says),
           Due(w, q, n), InTurn(w, q, n), \A k \in Sentences : IsFinal(Head(w), k) => k <= q
    PROVE  Due(p, q, n) /\ InTurn(p, q, n)
<1> DEFINE m == Len(w)
<1>1. /\ m \in Nat /\ m >= 1 /\ Head(w) = w[1] /\ Len(p) = m - 1
      /\ \A j \in 1..(m - 1) : p[j] = w[j + 1]
  BY TailIs
<1> HIDE DEF m
<1>2. /\ \A j \in 1..(m - 1) : j + 1 \in 1..m
      /\ \A j \in 1..m : j = 1 \/ (j - 1 \in 1..(m - 1) /\ (j - 1) + 1 = j)
  BY ONLY <1>1
<1>3. Due(p, q, n)
  <2> SUFFICES ASSUME NEW k \in (q + 1)..n PROVE \E j \in 1..(m - 1) : IsFinal(p[j], k)
    BY <1>1 DEF Due
  <2>1. PICK j \in 1..m : IsFinal(w[j], k)
    BY DEF Due, m
  <2>2. j # 1
    <3> SUFFICES ASSUME j = 1 PROVE FALSE
      OBVIOUS
    <3>1. k \in Sentences /\ ~(k <= q)
      BY SaysTyped
    <3>2. IsFinal(Head(w), k)
      BY <1>1, <2>1
    <3> QED
      BY <3>1, <3>2
  <2> QED
    BY <1>1, <1>2, <2>1, <2>2
<1>4. InTurn(p, q, n)
  <2> SUFFICES ASSUME NEW j \in 1..(m - 1), NEW k \in Sentences, IsFinal(p[j], k)
               PROVE  k <= n /\ \A l \in (q + 1)..(k - 1) : \E i \in 1..(j - 1) : IsFinal(p[i], l)
    BY <1>1 DEF InTurn
  <2>1. j + 1 \in 1..m /\ IsFinal(w[j + 1], k)
    BY <1>1, <1>2
  <2>2. k <= n /\ \A l \in (q + 1)..(k - 1) : \E i \in 1..((j + 1) - 1) : IsFinal(w[i], l)
    BY <2>1 DEF InTurn, m
  <2>3. \A l \in (q + 1)..(k - 1) : \E i \in 1..(j - 1) : IsFinal(p[i], l)
    <3> SUFFICES ASSUME NEW l \in (q + 1)..(k - 1) PROVE \E i \in 1..(j - 1) : IsFinal(p[i], l)
      OBVIOUS
    <3>1. PICK i \in 1..((j + 1) - 1) : IsFinal(w[i], l)
      BY <2>2
    <3>2. i \in 1..m /\ j \in Nat
      BY <1>1
    <3>3. l \in Sentences /\ ~(l <= q)
      BY <2>2, SaysTyped
    <3>4. i # 1
      BY <1>1, <3>1, <3>3
    <3>5. i - 1 \in 1..(j - 1) /\ i - 1 \in 1..(m - 1) /\ (i - 1) + 1 = i
      BY <1>1, <3>2, <3>4
    <3> QED
      BY <1>1, <3>1, <3>5
  <2> QED
    BY <2>2, <2>3
<1> QED
  BY <1>3, <1>4

\* Nothing is there again because another was taken.
LEMMA TakenAgain ==
    ASSUME NEW S, NEW w \in Seq(S), w # <<>>, NEW p, p = Tail(w), NEW q \in Nat, NEW x, NEW how,
           AgainOnce(w, q, x, how)
    PROVE  AgainOnce(p, q, x, how) /\ (Again(w, q, 1) => NotAgain(p, q))
<1> DEFINE m == Len(w)
<1>1. /\ m \in Nat /\ m >= 1 /\ Head(w) = w[1] /\ Len(p) = m - 1
      /\ \A j \in 1..(m - 1) : p[j] = w[j + 1]
  BY TailIs
<1> HIDE DEF m
<1>2. 1 \in 1..m /\ \A j \in 1..(m - 1) : j + 1 \in 1..m /\ j + 1 # 1
  BY ONLY <1>1
<1>3. ASSUME NEW j \in 1..(m - 1), Again(p, q, j) PROVE Again(w, q, j + 1)
  <2>1. PICK k \in Sentences : IsFinal(p[j], k) /\ (k <= q \/ \E i \in 1..(j - 1) : IsFinal(p[i], k))
    BY <1>3 DEF Again
  <2>2. IsFinal(w[j + 1], k)
    BY <1>1, <2>1
  <2>3. ASSUME NEW i \in 1..(j - 1), IsFinal(p[i], k) PROVE i + 1 \in 1..((j + 1) - 1) /\ IsFinal(w[i + 1], k)
    <3>1. i \in 1..(m - 1) /\ i + 1 \in 1..((j + 1) - 1)
      BY <1>1
    <3> QED
      BY <1>1, <2>3, <3>1
  <2> QED
    BY <2>1, <2>2, <2>3 DEF Again
<1>4. \A i, j \in 1..m : Again(w, q, i) /\ Again(w, q, j) => i = j
  BY DEF AgainOnce, m
<1>5. \A j \in 1..m : Again(w, q, j) => x = 0 /\ Odd(w[j], how)
  BY DEF AgainOnce, m
<1>6. ASSUME NEW i \in 1..(m - 1), NEW j \in 1..(m - 1), Again(p, q, i), Again(p, q, j) PROVE i = j
  <2>1. i + 1 = j + 1
    BY <1>2, <1>3, <1>4, <1>6
  <2> QED
    BY ONLY <1>1, <2>1, i \in 1..(m - 1), j \in 1..(m - 1)
<1>7. ASSUME NEW j \in 1..(m - 1), Again(p, q, j) PROVE x = 0 /\ Odd(p[j], how)
  BY <1>1, <1>2, <1>3, <1>5, <1>7
<1>8. ASSUME Again(w, q, 1), NEW j \in 1..(m - 1), Again(p, q, j) PROVE FALSE
  <2>1. j + 1 = 1
    BY <1>2, <1>3, <1>4, <1>8
  <2> QED
    BY <1>2, <2>1
<1>9. AgainOnce(p, q, x, how)
  BY <1>1, <1>6, <1>7 DEF AgainOnce
<1>10. Again(w, q, 1) => NotAgain(p, q)
  BY <1>1, <1>8 DEF NotAgain
<1> QED
  BY <1>9, <1>10

\* Where nothing is there again, nothing odd has to be said of it.
LEMMA NoneAgain == \A w, q, x, how : NotAgain(w, q) => AgainOnce(w, q, x, how)
BY DEF NotAgain, AgainOnce

\* A final that was not heard is the next one.
LEMMA TakenNext ==
    ASSUME NEW S, NEW w \in Seq(S), w # <<>>, NEW p, p = Tail(w), NEW q \in Nat, NEW n \in 0..Len(Says),
           NEW x, NEW how, Due(w, q, n), InTurn(w, q, n), AgainOnce(w, q, x, how),
           NEW k \in Sentences, IsFinal(Head(w), k), k > q
    PROVE  k = q + 1 /\ k <= n /\ Due(p, k, n) /\ InTurn(p, k, n) /\ AgainOnce(p, k, x, how)
<1> DEFINE m == Len(w)
<1>1. /\ m \in Nat /\ m >= 1 /\ Head(w) = w[1] /\ Len(p) = m - 1
      /\ \A j \in 1..(m - 1) : p[j] = w[j + 1]
  BY TailIs
<1> HIDE DEF m
<1>2. k \in Nat /\ n \in Nat
  BY SaysTyped
<1>3. k <= n /\ \A l \in (q + 1)..(k - 1) : \E i \in 1..(1 - 1) : IsFinal(w[i], l)
  <2>1. 1 \in 1..m /\ IsFinal(w[1], k)
    BY <1>1
  <2> QED
    BY <2>1 DEF InTurn, m
<1>4. k = q + 1
  <2>1. CASE k > q + 1
    <3>1. q + 1 \in (q + 1)..(k - 1)
      BY <1>2, <2>1
    <3>2. PICK i \in 1..(1 - 1) : IsFinal(w[i], q + 1)
      BY <1>3, <3>1
    <3> QED
      BY <3>2
  <2> QED
    BY <1>2, <2>1
<1>5. Due(w, k, n)
  BY <1>2, <1>4 DEF Due
<1>6. InTurn(w, k, n)
  <2> SUFFICES ASSUME NEW j \in 1..m, NEW l \in Sentences, IsFinal(w[j], l)
               PROVE  l <= n /\ \A h \in (k + 1)..(l - 1) : \E i \in 1..(j - 1) : IsFinal(w[i], h)
    BY DEF InTurn, m
  <2>1. l <= n /\ \A h \in (q + 1)..(l - 1) : \E i \in 1..(j - 1) : IsFinal(w[i], h)
    BY DEF InTurn, m
  <2>2. \A h \in (k + 1)..(l - 1) : h \in (q + 1)..(l - 1)
    BY <1>4, SaysTyped
  <2> QED
    BY <2>1, <2>2
<1>7. \A l \in Sentences : IsFinal(Head(w), l) => l <= k
  BY <1>2, OneSentence
<1>8. Due(p, k, n) /\ InTurn(p, k, n)
  BY <1>2, <1>5, <1>6, <1>7, TakenOther
<1>9. ASSUME NEW j \in 1..(m - 1), Again(p, k, j) PROVE Again(w, q, j + 1) /\ j + 1 \in 1..m
  <2>1. PICK l \in Sentences : IsFinal(p[j], l) /\ (l <= k \/ \E i \in 1..(j - 1) : IsFinal(p[i], l))
    BY <1>9 DEF Again
  <2>2. IsFinal(w[j + 1], l) /\ j + 1 \in 1..m /\ 1 \in 1..((j + 1) - 1)
    BY <1>1, <2>1
  <2>3. ASSUME NEW i \in 1..(j - 1), IsFinal(p[i], l) PROVE i + 1 \in 1..((j + 1) - 1) /\ IsFinal(w[i + 1], l)
    <3>1. i \in 1..(m - 1) /\ i + 1 \in 1..((j + 1) - 1)
      BY <1>1
    <3> QED
      BY <1>1, <2>3, <3>1
  <2>4. CASE l <= k
    <3>1. l <= q \/ l = k
      BY <1>2, <1>4, <2>4, SaysTyped
    <3>2. l = k => IsFinal(w[1], l)
      BY <1>1
    <3> QED
      BY <2>2, <3>1, <3>2 DEF Again
  <2> QED
    BY <2>1, <2>2, <2>3, <2>4 DEF Again
<1>10. AgainOnce(p, k, x, how)
  <2>1. \A i, j \in 1..m : Again(w, q, i) /\ Again(w, q, j) => i = j
    BY DEF AgainOnce, m
  <2>2. \A j \in 1..m : Again(w, q, j) => x = 0 /\ Odd(w[j], how)
    BY DEF AgainOnce, m
  <2>3. ASSUME NEW i \in 1..(m - 1), NEW j \in 1..(m - 1), Again(p, k, i), Again(p, k, j) PROVE i = j
    <3>1. i + 1 = j + 1
      BY <1>9, <2>1, <2>3
    <3> QED
      BY ONLY <1>1, <3>1, i \in 1..(m - 1), j \in 1..(m - 1)
  <2>4. ASSUME NEW j \in 1..(m - 1), Again(p, k, j) PROVE x = 0 /\ Odd(p[j], how)
    BY <1>1, <1>9, <2>2, <2>4
  <2> QED
    BY <1>1, <2>3, <2>4 DEF AgainOnce
<1> QED
  BY <1>3, <1>4, <1>8, <1>10

\* What is put behind the others leaves what is due before it, and repeats nothing of it.
LEMMA GrownFinals ==
    ASSUME NEW S, NEW w \in Seq(S), NEW e \in S, NEW p, p = Append(w, e), NEW q \in Nat, NEW n \in 0..Len(Says),
           Due(w, q, n), InTurn(w, q, n)
    PROVE  /\ Due(p, q, n)
           /\ \A k \in Sentences : IsFinal(e, k) /\ k = n + 1 => Due(p, q, n + 1) /\ InTurn(p, q, n + 1)
           /\ (\A k \in Sentences : IsFinal(e, k) => k <= n) => InTurn(p, q, n)
           /\ \A j \in 1..Len(w) : Again(p, q, j) <=> Again(w, q, j)
           /\ \A k \in Sentences : IsFinal(e, k) /\ k = n + 1 /\ q <= n => ~Again(p, q, Len(w) + 1)
           /\ (\A k \in Sentences : ~IsFinal(e, k)) => ~Again(p, q, Len(w) + 1)
<1> DEFINE m == Len(w)
<1>1. m \in Nat /\ Len(p) = m + 1 /\ p[m + 1] = e /\ \A j \in 1..m : p[j] = w[j]
  BY AppendIs
<1> HIDE DEF m
<1>2. /\ \A j \in 1..(m + 1) : j \in 1..m \/ j = m + 1
      /\ \A j \in 1..m : j \in 1..(m + 1) /\ \A i \in 1..(j - 1) : i \in 1..m
  BY ONLY <1>1
<1>3. n \in Nat /\ \A k \in Sentences : k \in Nat
  BY SaysTyped
<1>4. Due(p, q, n)
  BY <1>1, <1>2 DEF Due, m
<1>5. ASSUME NEW j \in 1..m, NEW k \in Sentences, IsFinal(p[j], k)
      PROVE  k <= n /\ \A l \in (q + 1)..(k - 1) : \E i \in 1..(j - 1) : IsFinal(p[i], l)
  <2>1. IsFinal(w[j], k)
    BY <1>1, <1>5
  <2>2. k <= n /\ \A l \in (q + 1)..(k - 1) : \E i \in 1..(j - 1) : IsFinal(w[i], l)
    BY <2>1 DEF InTurn, m
  <2> QED
    BY <1>1, <1>2, <2>2
<1>6. ASSUME NEW k \in Sentences, k <= n + 1
      PROVE  \A l \in (q + 1)..(k - 1) : \E i \in 1..((m + 1) - 1) : IsFinal(p[i], l)
  <2> SUFFICES ASSUME NEW l \in (q + 1)..(k - 1) PROVE \E i \in 1..((m + 1) - 1) : IsFinal(p[i], l)
    OBVIOUS
  <2>1. l \in (q + 1)..n
    BY <1>3, <1>6
  <2>2. PICK i \in 1..m : IsFinal(w[i], l)
    BY <2>1 DEF Due, m
  <2> QED
    BY <1>1, <2>2
<1>7. ASSUME NEW k \in Sentences, IsFinal(e, k), k = n + 1
      PROVE  Due(p, q, n + 1) /\ InTurn(p, q, n + 1)
  <2>1. Due(p, q, n + 1)
    <3> SUFFICES ASSUME NEW l \in (q + 1)..(n + 1) PROVE \E j \in 1..(m + 1) : IsFinal(p[j], l)
      BY <1>1 DEF Due
    <3>1. l \in (q + 1)..n \/ l = k
      BY <1>3, <1>7
    <3>2. m + 1 \in 1..(m + 1)
      BY <1>1
    <3>3. CASE l = k
      BY <1>1, <1>7, <3>2, <3>3
    <3>4. CASE l \in (q + 1)..n
      BY <1>1, <1>4, <3>4 DEF Due
    <3> QED
      BY <3>1, <3>3, <3>4
  <2>2. InTurn(p, q, n + 1)
    <3> SUFFICES ASSUME NEW j \in 1..(m + 1), NEW l \in Sentences, IsFinal(p[j], l)
                 PROVE  l <= n + 1 /\ \A h \in (q + 1)..(l - 1) : \E i \in 1..(j - 1) : IsFinal(p[i], h)
      BY <1>1 DEF InTurn
    <3>1. CASE j \in 1..m
      <4>1. l <= n
        BY <1>5, <3>1
      <4>2. l \in Nat
        BY <1>3
      <4>3. l <= n + 1
        BY ONLY <1>3, <4>1, <4>2
      <4> QED
        BY <1>5, <3>1, <4>3
    <3>2. CASE j = m + 1
      <4>1. l = n + 1 /\ l <= n + 1
        BY <1>1, <1>3, <1>7, <3>2, OneSentence
      <4> QED
        BY <1>6, <3>2, <4>1
    <3> QED
      BY <1>2, <3>1, <3>2
  <2> QED
    BY <2>1, <2>2
<1>8. ASSUME \A k \in Sentences : IsFinal(e, k) => k <= n PROVE InTurn(p, q, n)
  <2> SUFFICES ASSUME NEW j \in 1..(m + 1), NEW l \in Sentences, IsFinal(p[j], l)
               PROVE  l <= n /\ \A h \in (q + 1)..(l - 1) : \E i \in 1..(j - 1) : IsFinal(p[i], h)
    BY <1>1 DEF InTurn
  <2>1. CASE j \in 1..m
    BY <1>5, <2>1
  <2>2. CASE j = m + 1
    <3>1. l <= n /\ l <= n + 1
      BY <1>1, <1>3, <1>8, <2>2
    <3> QED
      BY <1>6, <2>2, <3>1
  <2> QED
    BY <1>2, <2>1, <2>2
<1>9. ASSUME NEW j \in 1..m PROVE Again(p, q, j) <=> Again(w, q, j)
  <2>1. p[j] = w[j] /\ \A i \in 1..(j - 1) : p[i] = w[i]
    BY <1>1, <1>2
  <2> QED
    BY <2>1 DEF Again
<1>10. ASSUME NEW k \in Sentences, IsFinal(e, k), k = n + 1, q <= n, Again(p, q, m + 1) PROVE FALSE
  <2>1. PICK l \in Sentences : IsFinal(p[m + 1], l) /\ (l <= q \/ \E i \in 1..((m + 1) - 1) : IsFinal(p[i], l))
    BY <1>10 DEF Again
  <2>2. l = n + 1 /\ ~(l <= q)
    BY <1>1, <1>3, <1>10, <2>1, OneSentence
  <2>3. PICK i \in 1..((m + 1) - 1) : IsFinal(p[i], l)
    BY <2>1, <2>2
  <2>4. i \in 1..m
    BY <1>1
  <2>5. l <= n
    BY <1>5, <2>3, <2>4
  <2> QED
    BY <1>3, <2>2, <2>5
<1>11. ASSUME \A k \in Sentences : ~IsFinal(e, k), Again(p, q, m + 1) PROVE FALSE
  BY <1>1, <1>11 DEF Again
<1> QED
  BY <1>4, <1>7, <1>8, <1>9, <1>10, <1>11 DEF m

\* The next final, or something else: nothing more is there again.
LEMMA GrownNew ==
    ASSUME NEW S, NEW w \in Seq(S), NEW e \in S, NEW p, p = Append(w, e), NEW q \in Nat, NEW x, NEW how,
           \A j \in 1..Len(w) : Again(p, q, j) <=> Again(w, q, j), ~Again(p, q, Len(w) + 1),
           AgainOnce(w, q, x, how)
    PROVE  AgainOnce(p, q, x, how) /\ (NotAgain(w, q) => NotAgain(p, q))
<1> DEFINE m == Len(w)
<1>1. m \in Nat /\ Len(p) = m + 1 /\ p[m + 1] = e /\ \A j \in 1..m : p[j] = w[j]
  BY AppendIs
<1> HIDE DEF m
<1>2. \A j \in 1..(m + 1) : j \in 1..m \/ j = m + 1
  BY ONLY <1>1
<1>3. \A j \in 1..(m + 1) : Again(p, q, j) => j \in 1..m /\ Again(w, q, j) /\ p[j] = w[j]
  BY <1>1, <1>2 DEF m
<1> QED
  BY <1>1, <1>3 DEF AgainOnce, NotAgain, m

\* One that is there again, where none was.
LEMMA GrownAgain ==
    ASSUME NEW S, NEW w \in Seq(S), NEW e \in S, NEW p, p = Append(w, e), NEW q \in Nat, NEW how,
           \A j \in 1..Len(w) : Again(p, q, j) <=> Again(w, q, j), NotAgain(w, q), Odd(e, how)
    PROVE  AgainOnce(p, q, 0, how)
<1> DEFINE m == Len(w)
<1>1. m \in Nat /\ Len(p) = m + 1 /\ p[m + 1] = e /\ \A j \in 1..m : p[j] = w[j]
  BY AppendIs
<1> HIDE DEF m
<1>2. \A j \in 1..(m + 1) : j \in 1..m \/ j = m + 1
  BY ONLY <1>1
<1>3. \A j \in 1..(m + 1) : Again(p, q, j) => j = m + 1
  BY <1>2 DEF m, NotAgain
<1> QED
  BY <1>1, <1>3 DEF AgainOnce

-----------------------------------------------------------------------------
\* What the actions do to each other's variables.
\* A step that tells the driver nothing of the transcript.
Plain(e) == \A k : ~IsFinal(e, k)

\* The driver takes an event.
LEMMA ReceiveDoes ==
    ASSUME Receive
    PROVE  /\ Idle /\ Waits /\ outcome = "none" /\ toClient # <<>> /\ toClient' = Tail(toClient)
           /\ UNCHANGED <<storeVars, driver, pushed, finishing, index, toServer, serverVars>>
           /\ LET e == Head(toClient)
              IN  \/ /\ Plain(e) /\ UNCHANGED <<completedSentences, committing, calls>>
                     /\ \/ done' = done /\ ready' \in {ready, TRUE} /\ refused' \in {refused, TRUE}
                        \/ /\ OursToUs(e, "task-finished") /\ done' = TRUE
                           /\ UNCHANGED <<ready, refused>>
                  \/ /\ OursToUs(e, "partial") /\ UNCHANGED <<done, ready, completedSentences, committing, refused>>
                     /\ calls' = <<Call("partial", Name[index], 0, Says[e.sentence])>>
                  \/ /\ OursToUs(e, "final") /\ ~FirstSeen(e.sentence)
                     /\ UNCHANGED <<done, ready, completedSentences, committing, calls, refused>>
                  \/ /\ OursToUs(e, "final") /\ FirstSeen(e.sentence)
                     /\ UNCHANGED <<done, ready, refused>>
                     /\ completedSentences' = completedSentences \cup Identity(e.sentence)
                     /\ committing' = TRUE
                     /\ calls' = <<Call("commit", Name[index], index, Says[e.sentence])>>
<1> DEFINE e == Head(toClient)
<1>1. /\ Idle /\ Waits /\ outcome = "none" /\ toClient # <<>> /\ toClient' = Tail(toClient)
      /\ UNCHANGED <<storeVars, driver, pushed, toServer, serverVars>>
  BY DEF Receive
<1>2. \/ ~Owns(e) /\ Unmoved
      \/ Owns(e) /\ (OnStarted(e) \/ OnFinished(e) \/ OnFailed(e) \/ OnHeartbeat(e) \/ OnPartial(e) \/ OnFinal(e))
  BY DEF Receive
<1> HIDE DEF e
<1> DEFINE Nothing == Plain(e) /\ UNCHANGED <<completedSentences, committing, calls>>
<1>3. CASE ~Owns(e) /\ Unmoved
  BY <1>1, <1>3 DEF Unmoved, Owns, Plain, IsFinal, OursToUs, protocolVars, sinkVars, e
<1>4. CASE Owns(e) /\ OnStarted(e)
  BY <1>1, <1>4 DEF OnStarted, Plain, IsFinal, OursToUs, sinkVars, e
<1>5. CASE Owns(e) /\ OnFinished(e)
  BY <1>1, <1>5 DEF OnFinished, Owns, Plain, IsFinal, OursToUs, e
<1>6. CASE Owns(e) /\ OnFailed(e)
  BY <1>1, <1>6 DEF OnFailed, Plain, IsFinal, OursToUs, protocolVars, e
<1>7. CASE Owns(e) /\ OnHeartbeat(e)
  BY <1>1, <1>7 DEF OnHeartbeat, Unmoved, Plain, IsFinal, OursToUs, protocolVars, sinkVars, e
<1>8. CASE Owns(e) /\ OnPartial(e)
  BY <1>1, <1>8 DEF OnPartial, Owns, OursToUs, protocolVars, e
<1>9. CASE Owns(e) /\ OnFinal(e)
  BY <1>1, <1>9 DEF OnFinal, SeenBefore, Unmoved, Owns, OursToUs, protocolVars, sinkVars, e
<1> QED
  BY <1>2, <1>3, <1>4, <1>5, <1>6, <1>7, <1>8, <1>9

\* It moves on.
DriverMoves == Started \/ PushAudio \/ FinishTask \/ FinishReturns
LEMMA DriverMovesDo ==
    ASSUME DriverMoves
    PROVE  /\ Idle
           /\ UNCHANGED <<storeVars, calls, refused, ready, done, index, completedSentences, committing,
                          toClient, serverVars>>
           /\ \/ driver' \in {"run", "finish"} /\ driver \in {"start", "run"}
              \/ driver' = "done" /\ driver = "finish" /\ done
           /\ finishing' \in {finishing, TRUE} /\ pushed' \in {pushed, TRUE}
           /\ \/ toServer' = toServer
              \/ toServer' = Append(toServer, "audio") \/ toServer' = Append(toServer, "finish-task")
<1>1. CASE Started
  BY <1>1 DEF Started, Goes, protocolVars, sinkVars
<1>2. CASE PushAudio
  BY <1>2 DEF PushAudio, Goes, protocolVars, sinkVars
<1>3. CASE FinishTask
  BY <1>3 DEF FinishTask, Goes, sinkVars
<1>4. CASE FinishReturns
  BY <1>4 DEF FinishReturns, Goes, protocolVars, sinkVars
<1> QED
  BY <1>1, <1>2, <1>3, <1>4 DEF DriverMoves

\* It gives up.
LEMMA GivingUpDoes ==
    ASSUME CheckFails \/ DriverFails
    PROVE  /\ Active /\ driver' = "failed" /\ calls' = <<>> /\ committing' = FALSE
           /\ UNCHANGED <<storeVars, refused, pushed, ready, done, finishing, index, completedSentences,
                          toServer, toClient, serverVars>>
BY DEF CheckFails, DriverFails, DriverGivesUp, wire

\* The session is settled.
LEMMA SettlingDoes ==
    ASSUME Settles
    PROVE  /\ outcome = "none" /\ (Complete \/ FailSession)
           /\ \E result \in {"ok", "error"} : Settle(result) /\ (result = "ok" => driver = "done")
           /\ UNCHANGED <<calls, refused, driver, pushed, ready, done, finishing, index, completedSentences,
                          committing, toServer, toClient, serverVars>>
<1>1. /\ (driver = "done" /\ Complete) \/ FailSession
      /\ UNCHANGED <<sinkVars, driverVars, wire, serverVars>>
  BY DEF Settles
<1>2. CASE driver = "done" /\ Complete
  <2>1. outcome = "none" /\ \E result \in {"ok", "error"} : Settle(result)
    BY <1>2 DEF Complete
  <2> QED
    BY <1>1, <1>2, <2>1 DEF sinkVars, driverVars, protocolVars, wire
<1>3. CASE FailSession
  <2>1. outcome = "none" /\ Settle("error") /\ "error" \in {"ok", "error"} /\ "error" # "ok"
    BY <1>3 DEF FailSession
  <2> QED
    BY <1>1, <1>3, <2>1 DEF sinkVars, driverVars, protocolVars, wire
<1> QED
  BY <1>1, <1>2, <1>3

\* The server reads, or says something.
LEMMA ServerDoes ==
    ASSUME DashTypes, ServerNext
    PROVE  /\ UNCHANGED <<storeVars, calls, refused, driver, pushed, ready, done, finishing, index,
                          completedSentences, committing>>
           /\ \/ /\ toServer # <<>> /\ toServer' = Tail(toServer) /\ UNCHANGED <<said, oddity>>
                 /\ \/ /\ Head(toServer) = "run-task" /\ server' = "started"
                       /\ \E e \in Events : Plain(e) /\ e.type # "task-finished" /\ Sends(e)
                    \/ /\ Head(toServer) # "run-task" /\ toClient' = toClient
                       /\ server' \in {"idle", "started", "closing", "finished"}
                       /\ server = "finished" => server' = server
                       /\ server' # server => server' = "closing"
              \/ /\ toServer' = toServer /\ server' = server /\ server \in {"started", "closing"}
                 /\ UNCHANGED oddity
                 /\ \E e \in Events : /\ Sends(e) /\ e.type \in {"partial", "final"} /\ e.task # "other"
                                      /\ said + 1 \in Sentences /\ e.sentence = said + 1
                                      /\ said' = IF e.type = "final" THEN said + 1 ELSE said
              \/ /\ toServer' = toServer /\ server \in {"started", "closing"} /\ server' = "finished"
                 /\ UNCHANGED <<said, oddity>>
                 /\ \E e \in Events : Plain(e) /\ Sends(e)
              \/ /\ toServer' = toServer /\ server' = server /\ server # "finished" /\ server # "idle" /\ said' = said
                 /\ oddity = "none"
                 /\ oddity' \in {"none", "repeated", "unidentified", "misrouted", "heartbeat"} \ {"none"}
                 /\ \E e \in Events :
                      /\ Sends(e) /\ ~OursToUs(e, "task-finished")
                      /\ Plain(e) \/ (e.sentence \in Sentences /\ e.sentence <= said /\ Odd(e, oddity'))
<1> USE DEF Plain, IsFinal, OursToUs
<1>1. said \in Nat /\ Len(Says) \in Nat /\ Sentences = 1..Len(Says) /\ said <= Len(Says)
      /\ server \in {"idle", "started", "closing", "finished"}
  BY SaysTyped DEF DashTypes
<1>2. \A type \in {"task-started", "task-finished", "task-failed", "heartbeat"}, task \in {"ours", "other", "none"} :
        Event(type, task) \in Events /\ Plain(Event(type, task))
        /\ Event(type, task).type = type /\ Event(type, task).task = task
  BY <1>1 DEF Events, Event
<1>3. \A type \in {"partial", "final"}, k \in Sentences :
        /\ Result(type, k, "ours") \in Events /\ Result(type, k, "ours").type = type
        /\ Result(type, k, "ours").task = "ours" /\ Result(type, k, "ours").sentence = k
  BY <1>1 DEF Events, Result
<1>4. \A type \in {"partial", "final"} :
        Result(type, Len(Says), "other") \in Events /\ Result(type, Len(Says), "other").task = "other"
  BY <1>1 DEF Events, Result
<1>5. UNCHANGED <<storeVars, calls, refused, driver, pushed, ready, done, finishing, index, completedSentences, committing>>
  BY DEF ServerNext, ServerReads, ServerSaysPartial, ServerSaysFinal, ServerFinishes, ServerGivesUp,
         WireGoesWrong, ServerSteps, sinkVars, driverVars, protocolVars

<1> HIDE DEF Plain, IsFinal, OursToUs
<1>6. CASE ServerReads
  <2>1. toServer # <<>> /\ toServer' = Tail(toServer) /\ UNCHANGED <<said, oddity>>
    BY <1>6 DEF ServerReads
  <2>2. CASE /\ Head(toServer) = "run-task" /\ server' = "started"
             /\ \E type \in {"task-started", "task-failed"}, task \in {"ours", "none"} : Sends(Event(type, task))
    <3>1. PICK type \in {"task-started", "task-failed"}, task \in {"ours", "none"} : Sends(Event(type, task))
      BY <2>2
    <3> DEFINE e == Event(type, task)
    <3>2. e \in Events /\ Plain(e) /\ e.type # "task-finished" /\ Sends(e)
      <4>1. type \in {"task-started", "task-finished", "task-failed", "heartbeat"} /\ task \in {"ours", "other", "none"}
        OBVIOUS
      <4> QED
        BY <1>2, <3>1, <4>1
    <3> HIDE DEF e
    <3> QED
      BY <1>5, <2>1, <2>2, <3>2
  <2>3. CASE \/ Head(toServer) = "audio" /\ UNCHANGED <<server, toClient>>
             \/ /\ Head(toServer) = "finish-task" /\ toClient' = toClient
                /\ server' = IF server = "finished" THEN server ELSE "closing"
    BY <1>1, <1>5, <2>1, <2>3
  <2> QED
    BY <1>6, <2>2, <2>3 DEF ServerReads
<1>7. CASE ServerSaysPartial \/ ServerSaysFinal
  <2>1. PICK type \in {"partial", "final"} :
          /\ Sends(Result(type, said + 1, "ours")) /\ Speaks /\ UNCHANGED <<toServer, server, oddity>>
          /\ said' = IF type = "final" THEN said + 1 ELSE said
    BY <1>7 DEF ServerSaysPartial, ServerSaysFinal
  <2> DEFINE e == Result(type, said + 1, "ours")
  <2>2. said + 1 \in Sentences /\ server \in {"started", "closing"}
    BY <1>1, <2>1 DEF Speaks
  <2>3. /\ e \in Events /\ Sends(e) /\ e.type = type /\ e.task # "other" /\ e.sentence = said + 1
    BY <1>3, <2>1, <2>2
  <2> HIDE DEF e
  <2> QED
    BY <1>5, <2>1, <2>2, <2>3
<1>8. CASE ServerFinishes \/ ServerGivesUp
  <2>1. PICK type \in {"task-finished", "task-failed"}, task \in {"ours", "none"} :
          /\ Sends(Event(type, task)) /\ server \in {"started", "closing"} /\ server' = "finished"
          /\ UNCHANGED <<toServer, said, oddity>>
    BY <1>8 DEF ServerFinishes, ServerGivesUp
  <2> DEFINE e == Event(type, task)
  <2>2. e \in Events /\ Plain(e) /\ Sends(e)
    <3>1. type \in {"task-started", "task-finished", "task-failed", "heartbeat"} /\ task \in {"ours", "other", "none"}
      OBVIOUS
    <3> QED
      BY <1>2, <2>1, <3>1
  <2> HIDE DEF e
  <2> QED
    BY <1>5, <2>1, <2>2
<1>9. CASE WireGoesWrong
  <2>1. /\ oddity = "none" /\ server \notin {"idle", "finished"}
        /\ UNCHANGED <<toServer, server, said>>
    BY <1>9 DEF WireGoesWrong
  <2>2. \E e \in Events :
          /\ Sends(e) /\ ~OursToUs(e, "task-finished")
          /\ oddity' \in {"repeated", "unidentified", "misrouted", "heartbeat"}
          /\ Plain(e) \/ (e.sentence \in Sentences /\ e.sentence <= said /\ Odd(e, oddity'))
    <3>1. CASE /\ oddity' = "repeated"
               /\ \E k \in Sentences, type \in {"partial", "final"} :
                    /\ k <= said /\ (type = "final" => k \in Identified)
                    /\ Sends(Result(type, k, "ours"))
      <4>1. PICK k \in Sentences, type \in {"partial", "final"} :
                    /\ k <= said /\ (type = "final" => k \in Identified)
                    /\ Sends(Result(type, k, "ours"))
        BY <3>1
      <4> DEFINE e == Result(type, k, "ours")
      <4>2. e \in Events /\ Sends(e) /\ e.type = type /\ e.sentence = k
        BY <1>3, <4>1
      <4> HIDE DEF e
      <4> QED
        BY <3>1, <4>1, <4>2 DEF Odd, Plain, IsFinal, OursToUs
    <3>2. CASE /\ oddity' = "unidentified"
               /\ \E k \in Sentences \ Identified : k <= said /\ Sends(Result("final", k, "ours"))
      <4>1. PICK k \in Sentences \ Identified : k <= said /\ Sends(Result("final", k, "ours"))
        BY <3>2
      <4> DEFINE e == Result("final", k, "ours")
      <4>2. e \in Events /\ Sends(e) /\ e.type = "final" /\ e.sentence = k
        BY <1>3, <4>1
      <4> HIDE DEF e
      <4> QED
        BY <3>2, <4>1, <4>2 DEF Odd, OursToUs
    <3>3. CASE /\ oddity' = "misrouted"
               /\ \/ \E type \in {"task-finished", "task-failed"} : Sends(Event(type, "other"))
                  \/ \E type \in {"partial", "final"} : Sends(Result(type, Len(Says), "other"))
      <4>1. \E e \in Events : Sends(e) /\ e.task = "other"
        <5>1. CASE \E type \in {"task-finished", "task-failed"} : Sends(Event(type, "other"))
          <6>1. PICK type \in {"task-finished", "task-failed"} : Sends(Event(type, "other"))
            BY <5>1
          <6>2. Event(type, "other") \in Events /\ Event(type, "other").task = "other"
            BY <1>2
          <6> QED
            BY <6>1, <6>2
        <5>2. CASE \E type \in {"partial", "final"} : Sends(Result(type, Len(Says), "other"))
          <6>1. PICK type \in {"partial", "final"} : Sends(Result(type, Len(Says), "other"))
            BY <5>2
          <6>2. Result(type, Len(Says), "other") \in Events /\ Result(type, Len(Says), "other").task = "other"
            BY <1>4
          <6> QED
            BY <6>1, <6>2
        <5> QED
          BY <3>3, <5>1, <5>2
      <4>2. PICK e \in Events : Sends(e) /\ e.task = "other"
        BY <4>1
      <4> QED
        BY <3>3, <4>2 DEF Plain, IsFinal, OursToUs
    <3>4. CASE oddity' = "heartbeat" /\ Sends(Event("heartbeat", "ours"))
      <4> DEFINE e == Event("heartbeat", "ours")
      <4>1. e \in Events /\ Plain(e) /\ e.type = "heartbeat"
        BY <1>2
      <4> HIDE DEF e
      <4> QED
        BY <3>4, <4>1 DEF OursToUs, e
    <3> QED
      BY <1>9, <3>1, <3>2, <3>3, <3>4 DEF WireGoesWrong
  <2> QED
    BY <1>5, <2>1, <2>2
<1> QED
  BY <1>6, <1>7, <1>8, <1>9 DEF ServerNext

\* Every step is one of these.
LEMMA StepKinds ==
    DashScopeNext => \/ Receive \/ DriverCalls \/ Committed \/ DriverMoves \/ (CheckFails \/ DriverFails)
                     \/ Settles \/ ServerNext
BY DEF DashScopeNext, DriverNext, DriverMoves

-----------------------------------------------------------------------------
\* Types.
LEMMA TypesInit == DashScopeInit => DashTypes
<1> SUFFICES ASSUME DashScopeInit PROVE DashTypes
  OBVIOUS
<1>1. 0 \in 0..Len(Says) /\ <<>> \in Seq(Events)
  BY SaysTyped, EmptySeq
<1>2. <<"run-task">> \in Seq(ClientMessages)
  BY DEF ClientMessages
<1> QED
  BY <1>1, <1>2 DEF DashScopeInit, DashTypes

\* Each step keeps them.
LEMMA TypesStep == ASSUME DashTypes, [DashScopeNext]_vars PROVE DashTypes'
<1>0. Len(Says) \in Nat /\ Sentences = 1..Len(Says)
  BY SaysTyped
<1>1. CASE UNCHANGED vars
  BY <1>1 DEF vars, driverVars, protocolVars, serverVars, wire, DashTypes
<1>2. CASE Receive
  <2>1. Tail(toClient) \in Seq(Events)
    BY <1>2, TailIs, ReceiveDoes DEF DashTypes
  <2>2. done' \in BOOLEAN /\ ready' \in BOOLEAN /\ committing' \in BOOLEAN
    BY <1>2, ReceiveDoes DEF DashTypes
  <2> QED
    BY <1>2, <2>1, <2>2, ReceiveDoes DEF DashTypes, serverVars
<1>3. CASE DriverCalls
  BY <1>3 DEF DriverCalls, driverVars, protocolVars, serverVars, wire, DashTypes
<1>4. CASE Committed
  <2>1. index' = index + 1 /\ committing' = FALSE /\ UNCHANGED <<driver, ready, done, finishing, wire, serverVars>>
    BY <1>4 DEF Committed
  <2>2. index' \in Nat
    BY <2>1 DEF DashTypes
  <2>3. committing' \in BOOLEAN
    BY <2>1
  <2> QED
    BY <2>1, <2>2, <2>3 DEF serverVars, wire, DashTypes
<1>5. CASE DriverMoves
  <2>1. toServer' \in Seq(ClientMessages)
    <3>1. "audio" \in ClientMessages /\ "finish-task" \in ClientMessages /\ toServer \in Seq(ClientMessages)
      BY DEF ClientMessages, DashTypes
    <3>2. Append(toServer, "audio") \in Seq(ClientMessages) /\ Append(toServer, "finish-task") \in Seq(ClientMessages)
      BY <3>1, AppendIs
    <3> QED
      BY <1>5, <3>1, <3>2, DriverMovesDo
  <2>2. driver' \in {"run", "finish", "done"} /\ finishing' \in BOOLEAN
    BY <1>5, DriverMovesDo DEF DashTypes
  <2> QED
    BY <1>5, <2>1, <2>2, DriverMovesDo DEF DashTypes, serverVars
<1>6. CASE CheckFails \/ DriverFails
  BY <1>6, GivingUpDoes DEF DashTypes, serverVars
<1>7. CASE Settles
  BY <1>7, SettlingDoes DEF DashTypes, serverVars
<1>8. CASE ServerNext
  <2>1. \A e \in Events : Sends(e) => toClient' \in Seq(Events)
    <3> SUFFICES ASSUME NEW e \in Events, Sends(e) PROVE toClient' \in Seq(Events)
      OBVIOUS
    <3>1. toClient \in Seq(Events) /\ toClient' = Append(toClient, e)
      BY DEF Sends, DashTypes
    <3> QED
      BY <3>1, AppendIs
  <2>2. toClient' \in Seq(Events)
    BY <1>8, <2>1, ServerDoes DEF DashTypes
  <2>3. toServer' \in Seq(ClientMessages)
    <3>1. toServer # <<>> => Tail(toServer) \in Seq(ClientMessages)
      BY TailIs DEF DashTypes
    <3> QED
      BY <1>8, <3>1, ServerDoes DEF DashTypes
  <2>4. said' \in 0..Len(Says)
    BY <1>0, <1>8, ServerDoes DEF DashTypes
  <2>5. server' \in {"idle", "started", "closing", "finished"}
        /\ oddity' \in {"none", "repeated", "unidentified", "misrouted", "heartbeat"}
    BY <1>8, ServerDoes DEF DashTypes
  <2> QED
    BY <1>8, <2>2, <2>3, <2>4, <2>5, ServerDoes DEF DashTypes
<1>9. DashScopeNext \/ UNCHANGED vars
  OBVIOUS
<1> QED
  BY <1>1, <1>2, <1>3, <1>4, <1>5, <1>6, <1>7, <1>8, <1>9, StepKinds

-----------------------------------------------------------------------------
\* The end of the task.
LEMMA EndStep == ASSUME DashTypes, EndOnWire, [DashScopeNext]_vars PROVE EndOnWire'
<1>0. toClient \in Seq(Events) /\ toServer \in Seq(ClientMessages)
  BY DEF DashTypes
<1>1. ASSUME UNCHANGED <<toServer, toClient, server, done>>, driver' = "done" => (done /\ Idle)' PROVE EndOnWire'
  BY <1>1 DEF EndOnWire
<1>2. CASE UNCHANGED vars
  <2>1. UNCHANGED <<toServer, toClient, server, done, driver, committing, calls, refused>>
    BY <1>2 DEF vars, driverVars, protocolVars, serverVars, wire, sinkVars
  <2> QED
    BY <2>1, <1>1 DEF EndOnWire, Idle
<1>3. CASE Receive
  <2> DEFINE e == Head(toClient)
             m == Len(toClient)
             p == toClient'
  <2>1. /\ m \in Nat /\ m >= 1 /\ e = toClient[1] /\ Len(p) = m - 1
        /\ \A j \in 1..(m - 1) : p[j] = toClient[j + 1]
    BY <1>0, <1>3, TailIs, ReceiveDoes
  <2>2. p \in Seq(Events) /\ (Len(p) = 0 => p = <<>>)
    BY <1>0, <1>3, TailIs, ReceiveDoes, EmptySeq
  <2>3. UNCHANGED <<toServer, server, driver>> /\ driver # "done"
    BY <1>3, ReceiveDoes DEF serverVars, Waits
  <2>4. ~done
    BY <1>3, ReceiveDoes DEF EndOnWire
  <2>5. done' => OursToUs(e, "task-finished")
    <3>1. done' = done \/ OursToUs(e, "task-finished")
      BY <1>3, ReceiveDoes
    <3>2. ~done => (done' = done => ~done')
      OBVIOUS
    <3> QED
      BY <2>4, <3>1, <3>2
  <2> HIDE DEF p, e, m
  <2>6. \A j \in 1..m : OursToUs(toClient[j], "task-finished") => j = m /\ server = "finished"
    BY DEF EndOnWire, m
  <2>7. \A j \in 1..(m - 1) : OursToUs(p[j], "task-finished") => j = m - 1 /\ server = "finished"
    <3> SUFFICES ASSUME NEW j \in 1..(m - 1), OursToUs(p[j], "task-finished") PROVE j = m - 1 /\ server = "finished"
      OBVIOUS
    <3>1. j + 1 \in 1..m
      BY <2>1
    <3>2. j + 1 = m /\ server = "finished"
      BY <2>1, <2>6, <3>1
    <3> QED
      BY <2>1, <3>2
  <2>8. done' => server = "finished" /\ p = <<>>
    <3> SUFFICES ASSUME done' PROVE server = "finished" /\ p = <<>>
      OBVIOUS
    <3>1. 1 \in 1..m /\ OursToUs(toClient[1], "task-finished")
      BY <2>1, <2>5
    <3>2. 1 = m /\ server = "finished"
      BY <2>6, <3>1
    <3> QED
      BY <2>1, <2>2, <3>2
  <2>9. toServer' = toServer /\ server' = server /\ driver' # "done"
    BY <2>3
  <2>10. \A j \in 1..Len(p) : OursToUs(p[j], "task-finished") => j = Len(p) /\ server = "finished"
    BY <2>1, <2>7
  <2> QED
    BY <2>8, <2>9, <2>10 DEF EndOnWire, p
<1>4. CASE DriverCalls \/ Committed
  <2>1. UNCHANGED <<toServer, toClient, server, done, driver>> /\ (~Idle \/ committing)
    BY <1>4 DEF DriverCalls, Committed, driverVars, protocolVars, serverVars, wire, SinkStep, Idle
  <2>2. ~Idle
    BY <2>1 DEF Idle
  <2> QED
    BY <1>1, <2>1, <2>2 DEF EndOnWire
<1>5. CASE DriverMoves
  <2>1. UNCHANGED <<toClient, server, done, committing, calls, refused>> /\ Idle /\ (driver' = "done" => done)
    BY <1>5, DriverMovesDo DEF serverVars
  <2>2. Idle'
    BY <2>1 DEF Idle
  <2>3. \A j \in 1..Len(toServer') : toServer'[j] = "run-task" => j = 1 /\ server = "idle"
    <3>1. CASE toServer' = toServer
      BY <3>1 DEF EndOnWire
    <3>2. ASSUME NEW m \in {"audio", "finish-task"}, toServer' = Append(toServer, m)
          PROVE  \A j \in 1..Len(toServer') : toServer'[j] = "run-task" => j = 1 /\ server = "idle"
      <4> DEFINE p == toServer'
      <4>1. m \in ClientMessages /\ m # "run-task"
        BY DEF ClientMessages
      <4>2. /\ Len(toServer) \in Nat /\ Len(p) = Len(toServer) + 1 /\ p[Len(toServer) + 1] = m
            /\ \A j \in 1..Len(toServer) : p[j] = toServer[j]
        BY <1>0, <3>2, <4>1, AppendIs
      <4> HIDE DEF p
      <4>3. \A j \in 1..Len(p) : j \in 1..Len(toServer) \/ j = Len(toServer) + 1
        BY ONLY <4>2
      <4>4. \A j \in 1..Len(p) : p[j] = "run-task" => j = 1 /\ server = "idle"
        BY <4>1, <4>2, <4>3 DEF EndOnWire
      <4> QED
        BY <4>4 DEF p
    <3> QED
      BY <1>5, <3>1, <3>2, DriverMovesDo
  <2> QED
    BY <2>1, <2>2, <2>3 DEF EndOnWire
<1>6. CASE CheckFails \/ DriverFails
  BY <1>1, <1>6, GivingUpDoes DEF serverVars
<1>7. CASE Settles
  <2>1. UNCHANGED <<toServer, toClient, server, done, driver, committing, calls, refused>>
    BY <1>7, SettlingDoes DEF serverVars
  <2> QED
    BY <2>1, <1>1 DEF EndOnWire, Idle
<1>8. CASE ServerNext
  <2>1. UNCHANGED <<calls, refused, driver, done, committing>>
    BY <1>8, ServerDoes
  <2>2. driver' = "done" => (done /\ Idle)'
    BY <2>1 DEF EndOnWire, Idle
  <2>3. ASSUME server = "finished" PROVE server' = "finished" /\ toClient' = toClient
    <3>1. ~(toServer # <<>> /\ Head(toServer) = "run-task")
      <4>1. toServer # <<>> => Head(toServer) = toServer[1] /\ 1 \in 1..Len(toServer)
        BY <1>0, TailIs
      <4> QED
        BY <2>3, <4>1 DEF EndOnWire
    <3> QED
      BY <1>8, <2>3, <3>1, ServerDoes
  <2>4. \A j \in 1..Len(toServer') : toServer'[j] = "run-task" => j = 1 /\ server' = "idle"
    <3>0. \/ toServer # <<>> /\ toServer' = Tail(toServer)
          \/ toServer' = toServer /\ (server = "idle" => server' = "idle")
      BY <1>8, ServerDoes
    <3>1. CASE toServer' = toServer /\ (server = "idle" => server' = "idle")
      BY <3>1 DEF EndOnWire
    <3>2. CASE toServer # <<>> /\ toServer' = Tail(toServer)
      <4> DEFINE p == toServer'
                 m == Len(toServer)
      <4>1. /\ m \in Nat /\ m >= 1 /\ Len(p) = m - 1
            /\ \A j \in 1..(m - 1) : p[j] = toServer[j + 1]
        BY <1>0, <3>2, TailIs
      <4> HIDE DEF p, m
      <4>2. \A j \in 1..m : toServer[j] = "run-task" => j = 1
        BY DEF EndOnWire, m
      <4>3. ASSUME NEW j \in 1..(m - 1), p[j] = "run-task" PROVE FALSE
        <5>1. j + 1 \in 1..m /\ j + 1 # 1
          BY <4>1
        <5> QED
          BY <4>1, <4>2, <4>3, <5>1
      <4> QED
        BY <4>1, <4>3 DEF p
    <3> QED
      BY <3>0, <3>1, <3>2
  <2>5. \A j \in 1..Len(toClient') :
          OursToUs(toClient'[j], "task-finished") => j = Len(toClient') /\ server' = "finished"
    <3>1. CASE toClient' = toClient
      BY <2>3, <3>1 DEF EndOnWire
    <3>2. ASSUME NEW e \in Events, Sends(e), OursToUs(e, "task-finished") => server' = "finished"
          PROVE  \A j \in 1..Len(toClient') :
                   OursToUs(toClient'[j], "task-finished") => j = Len(toClient') /\ server' = "finished"
      <4> DEFINE p == toClient'
                 m == Len(toClient)
      <4>1. toClient' = Append(toClient, e)
        BY <3>2 DEF Sends
      <4>2. m \in Nat /\ Len(p) = m + 1 /\ p[m + 1] = e /\ \A j \in 1..m : p[j] = toClient[j]
        BY <1>0, <4>1, AppendIs
      <4>3. server # "finished"
        <5>1. server = "finished" => Append(toClient, e) = toClient
          BY <2>3, <4>1
        <5>2. Len(Append(toClient, e)) # Len(toClient)
          BY <4>1, <4>2
        <5> QED
          BY <5>1, <5>2
      <4> HIDE DEF p, m
      <4>4. \A j \in 1..m : ~OursToUs(p[j], "task-finished")
        BY <4>2, <4>3 DEF EndOnWire, m
      <4>5. \A j \in 1..(m + 1) : j \in 1..m \/ j = m + 1
        BY ONLY <4>2
      <4> QED
        BY <3>2, <4>2, <4>4, <4>5 DEF p
    <3>3. \/ toClient' = toClient
          \/ \E e \in Events : Sends(e) /\ (OursToUs(e, "task-finished") => server' = "finished")
      BY <1>8, ServerDoes DEF OursToUs
    <3> QED
      BY <3>1, <3>2, <3>3
  <2>6. done' => server' = "finished" /\ toClient' = <<>>
    BY <2>1, <2>3 DEF EndOnWire
  <2> QED
    BY <2>1, <2>2, <2>4, <2>5, <2>6 DEF EndOnWire
<1>9. DashScopeNext \/ UNCHANGED vars
  OBVIOUS
<1> QED
  BY <1>2, <1>3, <1>4, <1>5, <1>6, <1>7, <1>8, <1>9, StepKinds

-----------------------------------------------------------------------------
\* The finals on the wire.
\* Nothing that it speaks of changes.
LEMMA HeardUnmoved ==
    ASSUME HeardInTurn, UNCHANGED <<index, committing, completedSentences, toClient, said, oddity>>,
           driver' # "failed" => driver # "failed"
    PROVE  HeardInTurn'
BY DEF HeardInTurn, FinalsOnWire, Counted

\* The server goes on.
LEMMA HeardServer == ASSUME DashTypes, HeardInTurn, ServerNext PROVE HeardInTurn'
<1>0. /\ toClient \in Seq(Events) /\ said \in 0..Len(Says) /\ Len(Says) \in Nat
      /\ UNCHANGED <<driver, index, completedSentences, committing>>
  BY SaysTyped, ServerDoes DEF DashTypes
<1>1. SUFFICES ASSUME driver # "failed", NEW q \in 0..said, NEW x \in {0, 1}, FinalsOnWire(q, x)
               PROVE  \E r \in 0..said', y \in {0, 1} : FinalsOnWire(r, y)'
  BY <1>0 DEF HeardInTurn
<1> DEFINE w == toClient
           p == toClient'
<1>2. /\ Counted(q, x) /\ (x = 1 => oddity = "unidentified")
      /\ completedSentences = {<<k>> : k \in (1..q) \cap Identified}
      /\ Due(w, q, said) /\ InTurn(w, q, said) /\ AgainOnce(w, q, x, oddity)
      /\ q \in Nat /\ q <= said /\ said \in Nat
  BY <1>0, <1>1 DEF FinalsOnWire
<1>3. Counted(q, x)'
  BY <1>0, <1>2 DEF Counted
<1>4. SUFFICES /\ q \in 0..said' /\ (x = 1 => oddity' = "unidentified")
               /\ Due(p, q, said') /\ InTurn(p, q, said') /\ AgainOnce(p, q, x, oddity')
  BY <1>0, <1>2, <1>3 DEF FinalsOnWire
<1> HIDE DEF w, p
<1>5. CASE toClient' = toClient /\ UNCHANGED <<said, oddity>>
  BY <1>2, <1>5 DEF w, p
<1>6. ASSUME NEW e \in Events, Sends(e), Plain(e), UNCHANGED <<said, oddity>>
      PROVE  /\ Due(p, q, said) /\ InTurn(p, q, said) /\ AgainOnce(p, q, x, oddity)
  <2>1. p = Append(w, e) /\ w \in Seq(Events)
    BY <1>0, <1>6 DEF Sends, w, p
  <2>2. \A k \in Sentences : ~IsFinal(e, k)
    BY <1>6 DEF Plain
  <2>3. /\ Due(p, q, said) /\ InTurn(p, q, said)
        /\ \A j \in 1..Len(w) : Again(p, q, j) <=> Again(w, q, j)
        /\ ~Again(p, q, Len(w) + 1)
    BY <1>0, <1>2, <2>1, <2>2, GrownFinals
  <2>4. AgainOnce(p, q, x, oddity)
    BY <1>2, <2>1, <2>3, GrownNew
  <2> QED
    BY <2>3, <2>4
<1>7. ASSUME NEW e \in Events, Sends(e), OursToUs(e, "final"), UNCHANGED oddity, said + 1 \in Sentences,
             e.sentence = said + 1, said' = said + 1
      PROVE  /\ q \in 0..said' /\ Due(p, q, said') /\ InTurn(p, q, said') /\ AgainOnce(p, q, x, oddity')
  <2>1. p = Append(w, e) /\ w \in Seq(Events)
    BY <1>0, <1>7 DEF Sends, w, p
  <2> DEFINE k == said + 1
  <2>2. k \in Sentences /\ IsFinal(e, k)
    BY <1>7 DEF IsFinal
  <2>3. /\ Due(p, q, said + 1) /\ InTurn(p, q, said + 1)
        /\ \A j \in 1..Len(w) : Again(p, q, j) <=> Again(w, q, j)
        /\ ~Again(p, q, Len(w) + 1)
    BY <1>0, <1>2, <2>1, <2>2, GrownFinals
  <2>4. AgainOnce(p, q, x, oddity)
    BY <1>2, <2>1, <2>3, GrownNew
  <2>5. q \in 0..(said + 1)
    BY <1>2
  <2> QED
    BY <1>7, <2>3, <2>4, <2>5
<1>8. ASSUME NEW e \in Events, Sends(e), said' = said, oddity = "none",
             Plain(e) \/ (e.sentence \in Sentences /\ e.sentence <= said /\ Odd(e, oddity'))
      PROVE  /\ (x = 1 => oddity' = "unidentified")
             /\ Due(p, q, said) /\ InTurn(p, q, said) /\ AgainOnce(p, q, x, oddity')
  <2>1. p = Append(w, e) /\ w \in Seq(Events)
    BY <1>0, <1>8 DEF Sends, w, p
  <2>2. x = 0
    BY <1>2, <1>8
  <2>3. NotAgain(w, q)
    BY <1>2, <1>8 DEF AgainOnce, NotAgain, Odd
  <2>4. \A k \in Sentences : IsFinal(e, k) => k <= said
    BY <1>8 DEF Plain, IsFinal
  <2>5. /\ Due(p, q, said) /\ InTurn(p, q, said)
        /\ \A j \in 1..Len(w) : Again(p, q, j) <=> Again(w, q, j)
        /\ (\A k \in Sentences : ~IsFinal(e, k)) => ~Again(p, q, Len(w) + 1)
    BY <1>0, <1>2, <2>1, <2>4, GrownFinals
  <2>6. CASE Plain(e)
    <3>1. ~Again(p, q, Len(w) + 1)
      BY <2>5, <2>6 DEF Plain
    <3>2. AgainOnce(w, q, x, oddity')
      BY <2>3, NoneAgain
    <3>3. AgainOnce(p, q, x, oddity')
      BY <1>2, <2>1, <2>5, <3>1, <3>2, GrownNew
    <3> QED
      BY <2>2, <2>5, <3>3
  <2>7. CASE Odd(e, oddity')
    <3>1. AgainOnce(p, q, 0, oddity')
      BY <1>2, <2>1, <2>3, <2>5, <2>7, GrownAgain
    <3> QED
      BY <2>2, <2>5, <3>1
  <2> QED
    BY <1>8, <2>6, <2>7
<1> DEFINE Wrong(e) == Plain(e) \/ (e.sentence \in Sentences /\ e.sentence <= said /\ Odd(e, oddity'))
<1>9. \/ toClient' = toClient /\ UNCHANGED <<said, oddity>>
      \/ \E e \in Events : Sends(e) /\ Plain(e) /\ UNCHANGED <<said, oddity>>
      \/ \E e \in Events : /\ Sends(e) /\ OursToUs(e, "final") /\ UNCHANGED oddity /\ said + 1 \in Sentences
                           /\ e.sentence = said + 1 /\ said' = said + 1
      \/ \E e \in Events : Sends(e) /\ said' = said /\ oddity = "none" /\ Wrong(e)
  BY ServerDoes DEF Plain, IsFinal, OursToUs
<1>10. ASSUME NEW e \in Events, Sends(e), said' = said, oddity = "none", Wrong(e)
       PROVE  /\ q \in 0..said' /\ (x = 1 => oddity' = "unidentified")
              /\ Due(p, q, said') /\ InTurn(p, q, said') /\ AgainOnce(p, q, x, oddity')
  BY <1>8, <1>10
<1> HIDE DEF Wrong
<1> QED
  <2>1. CASE \E e \in Events : Sends(e) /\ Plain(e) /\ UNCHANGED <<said, oddity>>
    BY <1>1, <1>2, <1>6, <2>1
  <2>2. CASE \E e \in Events : /\ Sends(e) /\ OursToUs(e, "final") /\ UNCHANGED oddity /\ said + 1 \in Sentences
                               /\ e.sentence = said + 1 /\ said' = said + 1
    BY <1>2, <1>7, <2>2
  <2>3. CASE \E e \in Events : Sends(e) /\ said' = said /\ oddity = "none" /\ Wrong(e)
    BY <1>10, <2>3
  <2> QED
    BY <1>1, <1>2, <1>5, <1>9, <2>1, <2>2, <2>3

\* The driver takes an event.
LEMMA HeardReceive ==
    ASSUME DashTypes, HeardInTurn, Receive
    PROVE  /\ HeardInTurn'
           /\ committing' /\ oddity # "unidentified" => Head(toClient).sentence = index + 1
<1> DEFINE e == Head(toClient)
           w == toClient
           p == toClient'
<1>a. /\ w # <<>> /\ p = Tail(w) /\ UNCHANGED <<driver, index, said, oddity>> /\ Idle /\ Waits
  BY ReceiveDoes DEF serverVars
<1>b. /\ w \in Seq(Events) /\ said \in 0..Len(Says) /\ Len(Says) \in Nat /\ index \in Nat
  BY SaysTyped DEF DashTypes
<1>c. committing = FALSE /\ driver # "failed"
  BY <1>a DEF Idle, Waits, DashTypes
<1>d. committing' \in BOOLEAN
  BY <1>c, ReceiveDoes
<1>e. e \in Events /\ e = w[1]
  BY <1>a, <1>b, TailIs
<1>0. /\ w \in Seq(Events) /\ w # <<>> /\ p = Tail(w) /\ said \in 0..Len(Says) /\ Len(Says) \in Nat
      /\ UNCHANGED <<driver, index, said, oddity>> /\ committing = FALSE /\ driver # "failed"
      /\ committing' \in BOOLEAN /\ e \in Events /\ e = w[1] /\ index \in Nat
  BY <1>a, <1>b, <1>c, <1>d, <1>e
<1>1. PICK q \in 0..said, x \in {0, 1} : FinalsOnWire(q, x)
  BY <1>0 DEF HeardInTurn
<1>2. /\ index = q + x /\ (x = 1 => oddity = "unidentified")
      /\ completedSentences = {<<k>> : k \in (1..q) \cap Identified}
      /\ Due(w, q, said) /\ InTurn(w, q, said) /\ AgainOnce(w, q, x, oddity)
      /\ q \in Nat /\ q <= said /\ said \in Nat
  BY <1>0, <1>1 DEF FinalsOnWire, Counted
<1>3. ASSUME NEW r \in 0..said, NEW y \in {0, 1}, index + (IF committing' THEN 1 ELSE 0) = r + y,
             y = 1 => oddity = "unidentified",
             completedSentences' = {<<k>> : k \in (1..r) \cap Identified},
             Due(p, r, said), InTurn(p, r, said), AgainOnce(p, r, y, oddity)
      PROVE  HeardInTurn'
  BY <1>0, <1>3 DEF HeardInTurn, FinalsOnWire, Counted
<1> HIDE DEF w, p
<1>4. CASE UNCHANGED <<completedSentences, committing>> /\ (Plain(e) \/ OursToUs(e, "partial"))
  <2>1. \A k \in Sentences : IsFinal(Head(w), k) => k <= q
    BY <1>4 DEF Plain, IsFinal, OursToUs, w
  <2>2. Due(p, q, said) /\ InTurn(p, q, said) /\ AgainOnce(p, q, x, oddity)
    BY <1>0, <1>2, <2>1, TakenOther, TakenAgain
  <2>3. HeardInTurn'
    BY <1>0, <1>2, <1>3, <1>4, <2>2
  <2> QED
    BY <1>0, <1>4, <2>3
<1>5. CASE OursToUs(e, "final")
  <2> DEFINE k == e.sentence
  <2>1. k \in Sentences /\ IsFinal(e, k) /\ k \in Nat /\ k >= 1
    BY <1>0, <1>5, SaysTyped DEF Events, IsFinal, OursToUs
  <2>2. \/ ~FirstSeen(k) /\ UNCHANGED <<completedSentences, committing>>
        \/ FirstSeen(k) /\ committing' = TRUE /\ completedSentences' = completedSentences \cup Identity(k)
    BY <1>5, ReceiveDoes DEF Plain, IsFinal, OursToUs
  <2>3. FirstSeen(k) <=> ~(k \in Identified /\ k <= q)
    <3>1. k \in Identified => (<<k>> \in completedSentences <=> k <= q)
      <4>1. k \in Identified /\ k <= q => <<k>> \in completedSentences
        BY <1>2, <2>1
      <4>2. <<k>> \in completedSentences => k <= q
        <5>1. SUFFICES ASSUME NEW l \in (1..q) \cap Identified, <<k>> = <<l>> PROVE k <= q
          BY <1>2
        <5> QED
          BY <1>2, <5>1
      <4> QED
        BY <4>1, <4>2
    <3>2. k \in Identified => (FirstSeen(k) <=> <<k>> \notin completedSentences)
      BY DEF FirstSeen, Identity
    <3>3. k \notin Identified => FirstSeen(k)
      BY DEF FirstSeen, Identity
    <3> QED
      BY <3>1, <3>2, <3>3
  <2> HIDE DEF k
  <2>4. CASE k > q
    <3>0. IsFinal(Head(w), k)
      BY <2>1 DEF w
    <3>1. k = q + 1 /\ k <= said /\ Due(p, k, said) /\ InTurn(p, k, said) /\ AgainOnce(p, k, x, oddity)
      BY <1>0, <1>2, <2>1, <2>4, <3>0, TakenNext
    <3>2. FirstSeen(k) /\ committing' = TRUE /\ completedSentences' = completedSentences \cup Identity(k)
      BY <1>2, <2>1, <2>2, <2>3, <2>4
    <3>3. completedSentences' = {<<l>> : l \in (1..k) \cap Identified}
      <4>1. 1..k = (1..q) \cup {k}
        BY <1>2, <3>1
      <4>2. k \in Identified => Identity(k) = {<<k>>}
        BY DEF Identity
      <4>3. k \notin Identified => Identity(k) = {}
        BY DEF Identity
      <4> QED
        BY <1>2, <3>2, <4>1, <4>2, <4>3
    <3>4. k \in 0..said /\ index + 1 = k + x
      BY <1>2, <2>1, <3>1
    <3>5. HeardInTurn'
      BY <1>2, <1>3, <3>1, <3>2, <3>3, <3>4
    <3>6. oddity # "unidentified" => k = index + 1
      BY <1>2, <3>1
    <3> QED
      BY <3>5, <3>6 DEF k
  <2>5. CASE k <= q
    <3>1. \A l \in Sentences : IsFinal(Head(w), l) => l <= q
      BY <2>1, <2>5, OneSentence DEF w
    <3>2. 1 \in 1..Len(w)
      BY <1>0, TailIs
    <3>3. Again(w, q, 1)
      BY <1>0, <2>1, <2>5 DEF Again
    <3>4. x = 0 /\ Odd(e, oddity)
      BY <1>0, <1>2, <3>2, <3>3 DEF AgainOnce
    <3>5. NotAgain(p, q)
      BY <1>0, <1>2, <3>3, TakenAgain
    <3>6. Due(p, q, said) /\ InTurn(p, q, said)
      BY <1>0, <1>2, <3>1, TakenOther
    <3>7. AgainOnce(p, q, 0, oddity) /\ AgainOnce(p, q, 1, oddity)
      BY <3>5, NoneAgain
    <3>8. CASE k \in Identified
      <4>1. UNCHANGED <<completedSentences, committing>>
        BY <2>2, <2>3, <2>5, <3>8
      <4>2. HeardInTurn'
        BY <1>0, <1>2, <1>3, <3>4, <3>6, <3>7, <4>1
      <4> QED
        BY <1>0, <4>1, <4>2
    <3>9. CASE k \notin Identified
      <4>1. committing' = TRUE /\ completedSentences' = completedSentences
        BY <2>2, <2>3, <3>9 DEF Identity
      <4>2. oddity = "unidentified"
        BY <3>4, <3>9 DEF Odd, k
      <4>3. index + 1 = q + 1
        BY <1>2, <3>4
      <4>4. HeardInTurn'
        BY <1>2, <1>3, <3>6, <3>7, <4>1, <4>2, <4>3
      <4> QED
        BY <4>2, <4>4
    <3> QED
      BY <3>8, <3>9
  <2> QED
    BY <1>2, <2>1, <2>4, <2>5
<1>6. \/ UNCHANGED <<completedSentences, committing>> /\ (Plain(e) \/ OursToUs(e, "partial"))
      \/ OursToUs(e, "final")
  BY ReceiveDoes
<1> QED
  BY <1>4, <1>5, <1>6

\* Every step.
LEMMA HeardStep == ASSUME DashTypes, HeardInTurn, [DashScopeNext]_vars PROVE HeardInTurn'
<1>1. CASE UNCHANGED vars
  BY <1>1, HeardUnmoved DEF vars, driverVars, protocolVars, serverVars, wire
<1>2. CASE Receive
  BY <1>2, HeardReceive
<1>3. CASE DriverCalls
  BY <1>3, HeardUnmoved DEF DriverCalls, driverVars, protocolVars, serverVars, wire
<1>4. CASE Committed
  <2>1. /\ committing /\ index' = index + 1 /\ committing' = FALSE
        /\ UNCHANGED <<driver, completedSentences, toClient, said, oddity>>
    BY <1>4 DEF Committed, serverVars, wire
  <2>2. index \in Nat
    BY DEF DashTypes
  <2>3. \A q \in 0..said, x \in {0, 1} : Counted(q, x) => Counted(q, x)'
    BY <2>1, <2>2 DEF Counted
  <2> QED
    BY <2>1, <2>3 DEF HeardInTurn, FinalsOnWire
<1>5. CASE DriverMoves
  <2>1. driver # "failed"
    BY <1>5, DriverMovesDo
  <2> QED
    BY <1>5, <2>1, DriverMovesDo, HeardUnmoved DEF serverVars
<1>6. CASE CheckFails \/ DriverFails
  BY <1>6, GivingUpDoes DEF HeardInTurn
<1>7. CASE Settles
  BY <1>7, SettlingDoes, HeardUnmoved DEF serverVars
<1>8. CASE ServerNext
  BY <1>8, HeardServer
<1>9. DashScopeNext \/ UNCHANGED vars
  OBVIOUS
<1> QED
  BY <1>1, <1>2, <1>3, <1>4, <1>5, <1>6, <1>7, <1>8, <1>9, StepKinds

-----------------------------------------------------------------------------
\* The store and the sink.
\* The index is one of those that have a name.
LEMMA IndexBound ==
    ASSUME DashTypes, HeardInTurn, driver # "failed"
    PROVE  /\ index \in 0..(Len(Says) + 1) /\ NextIndex \in {index, index + 1}
           /\ NextIndex \in 0..(Len(Says) + 1) /\ Name[index] \in Ids
           /\ Idle => NextIndex = index
<1>1. Len(Says) \in Nat /\ index \in Nat /\ said \in 0..Len(Says)
  BY SaysTyped DEF DashTypes
<1>2. PICK q \in 0..said, x \in {0, 1} : Counted(q, x)
  BY DEF HeardInTurn, FinalsOnWire
<1>3. index \in 0..(Len(Says) + 1) /\ (committing => index + 1 \in 0..(Len(Says) + 1))
  BY <1>1, <1>2 DEF Counted
<1> QED
  BY <1>1, <1>3, SaysTyped DEF NextIndex, Idle

\* A single call.
LEMMA OneCall ==
    ASSUME NEW S, NEW c \in S, NEW p, p = <<c>>
    PROVE  p \in Seq(S) /\ Len(p) = 1 /\ Head(p) = c /\ p[1] = c /\ p # <<>> /\ Tail(p) = <<>>
           /\ \A j \in 1..Len(p) : p[j] = c
OBVIOUS

\* What the driver calls for an event.
LEMMA ReceiveCalls ==
    ASSUME DashTypes, HeardInTurn, Receive
    PROVE  \/ calls' = <<>> /\ UNCHANGED committing
           \/ \E c \in SinkCalls :
                /\ calls' = <<c>> /\ c.id = Name[index] /\ UNCHANGED refused
                /\ \/ c.op = "partial" /\ UNCHANGED committing
                   \/ /\ c.op = "commit" /\ c.index = index /\ committing' = TRUE
                      /\ c.text = Says[Head(toClient).sentence]
<1> DEFINE e == Head(toClient)
<1>1. /\ toClient \in Seq(Events) /\ toClient # <<>> /\ index \in Nat /\ driver # "failed" /\ calls = <<>>
  BY ReceiveDoes DEF DashTypes, Waits, Idle
<1>2. e \in Events
  BY <1>1, TailIs
<1>3. Name[index] \in Ids
  BY <1>1, IndexBound
<1>4. OursToUs(e, "partial") \/ OursToUs(e, "final") => Says[e.sentence] \in Seq(Chars)
  BY <1>2, SaysTyped DEF Events, OursToUs
<1> DEFINE t == Says[e.sentence]
<1>5. \/ calls' = calls /\ UNCHANGED committing
      \/ /\ OursToUs(e, "partial") /\ UNCHANGED <<committing, refused>>
         /\ calls' = <<Call("partial", Name[index], 0, t)>>
      \/ /\ OursToUs(e, "final") /\ committing' = TRUE /\ UNCHANGED refused
         /\ calls' = <<Call("commit", Name[index], index, t)>>
  BY ReceiveDoes
<1>6. t \in Seq(Chars) =>
        /\ Call("partial", Name[index], 0, t) \in SinkCalls
        /\ Call("commit", Name[index], index, t) \in SinkCalls
  BY <1>1, <1>3 DEF Call, SinkCalls
<1>7. /\ Call("partial", Name[index], 0, t).op = "partial" /\ Call("partial", Name[index], 0, t).id = Name[index]
      /\ Call("commit", Name[index], index, t).op = "commit" /\ Call("commit", Name[index], index, t).id = Name[index]
      /\ Call("commit", Name[index], index, t).index = index /\ Call("commit", Name[index], index, t).text = t
  BY DEF Call
<1> QED
  BY <1>1, <1>4, <1>5, <1>6, <1>7

\* The store's invariants hold whatever the driver does, and its calls keep to their
\* preflights.
LEMMA StoreSinkStep ==
    ASSUME StoreInv, BudgetInv, SinkInv, DashTypes, HeardInTurn, [DashScopeNext]_vars
    PROVE  StoreInv' /\ BudgetInv' /\ SinkInv'
<1>1. ASSUME UNCHANGED storeVars, UNCHANGED <<calls, refused>> PROVE StoreInv' /\ BudgetInv' /\ SinkInv'
  BY <1>1, StoreStep, BudgetStep, SinkUntouched
<1>2. ASSUME UNCHANGED storeVars, calls' = <<>>, refused' \in BOOLEAN PROVE StoreInv' /\ BudgetInv' /\ SinkInv'
  <2>1. calls' \in Seq(SinkCalls) /\ \A j \in 1..Len(calls') : calls'[j].op \notin {"store commit", "store final"}
    BY <1>2, EmptySeq
  <2> QED
    BY <1>2, <2>1, StoreStep, BudgetStep, NoneInHand
<1>3. refused \in BOOLEAN
  BY DEF SinkInv, SinkTypes
<1>4. CASE UNCHANGED vars
  BY <1>1, <1>4 DEF vars, sinkVars
<1>5. CASE Receive
  <2>1. UNCHANGED storeVars /\ refused' \in BOOLEAN
    BY <1>3, <1>5, ReceiveDoes
  <2>2. CASE calls' = <<>>
    BY <1>2, <2>1, <2>2
  <2>3. ASSUME NEW c \in SinkCalls, calls' = <<c>>, c.op \in {"partial", "commit"}
        PROVE  StoreInv' /\ BudgetInv' /\ SinkInv'
    <3> DEFINE p == calls'
    <3>1. p \in Seq(SinkCalls) /\ \A j \in 1..Len(p) : p[j] = c
      BY <2>3, OneCall
    <3>2. \A j \in 1..Len(p) : p[j].op \notin {"store commit", "store final"}
      BY <2>3, <3>1
    <3> HIDE DEF p
    <3>3. calls' \in Seq(SinkCalls) /\ \A j \in 1..Len(calls') : calls'[j].op \notin {"store commit", "store final"}
      BY <3>1, <3>2 DEF p
    <3> QED
      BY <2>1, <3>3, StoreStep, BudgetStep, NoneInHand
  <2> QED
    BY <1>5, <2>2, <2>3, ReceiveCalls
<1>6. CASE DriverCalls
  <2>1. SinkInv' /\ [AnyCall]_storeVars
    BY <1>6, SinkKeeps DEF DriverCalls
  <2> QED
    BY <2>1, StoreStep, BudgetStep
<1>7. CASE Committed
  BY <1>1, <1>7 DEF Committed, sinkVars
<1>8. CASE DriverMoves
  BY <1>1, <1>8, DriverMovesDo
<1>9. CASE CheckFails \/ DriverFails
  BY <1>2, <1>3, <1>9, GivingUpDoes
<1>10. CASE Settles
  <2>1. AnyCall /\ outcome' # "none" /\ UNCHANGED <<calls, refused>>
    BY <1>10, SettlingDoes DEF AnyCall, Settle
  <2> QED
    BY <2>1, StoreStep, BudgetStep, SinkUntouched
<1>11. CASE ServerNext
  BY <1>1, <1>11, ServerDoes
<1>12. DashScopeNext \/ UNCHANGED vars
  OBVIOUS
<1> QED
  BY <1>4, <1>5, <1>6, <1>7, <1>8, <1>9, <1>10, <1>11, <1>12, StepKinds

-----------------------------------------------------------------------------
\* What a call of the driver does.
\* The text takes the next index, and nothing waits.
TookNext(id, text) ==
    /\ pending' = {} /\ nextSegment' = nextSegment + 1 /\ outcome' = outcome
    /\ completed' = [completed EXCEPT ![id] = nextSegment]
    /\ partials' = [partials EXCEPT ![id] = NoPartial]
    /\ transcript' = IF Blank(text) THEN transcript
                     ELSE Append(transcript, [id |-> id, index |-> nextSegment, text |-> text])

\* A set of one or of no segment has one order.
LEMMA OrderOfFew ==
    /\ InOrder({}) = <<>>
    /\ \A s \in Segment : InOrder({s}) = <<s>>
<1>1. InOrder({}) = <<>>
  <2>1. IsFiniteSet({}) /\ Cardinality({}) = 0
    BY FS_EmptySet
  <2>2. <<>> \in [1..0 -> {}]
    OBVIOUS
  <2> QED
    BY <2>1, <2>2, OrderIs
<1>2. ASSUME NEW s \in Segment PROVE InOrder({s}) = <<s>>
  <2>1. IsFiniteSet({s}) /\ Cardinality({s}) = 1
    BY FS_Singleton
  <2>2. <<s>> \in [1..1 -> {s}] /\ <<s>>[1] = s
    OBVIOUS
  <2>3. s.index \in Nat
    BY DEF Segment
  <2> DEFINE q == <<s>>
             S == {s}
  <2>4. /\ q \in [1..Cardinality(S) -> S] /\ \A k \in 1..Cardinality(S) : k = 1
        /\ 1 \in 1..Cardinality(S) /\ q[1] = s /\ \A r \in S : r = s
    BY <2>1, <2>2
  <2>5. IsFiniteSet(S)
    BY <2>1
  <2> HIDE DEF q, S
  <2>6. /\ \A r \in S : r.index \in Nat
        /\ \A r, t \in S : r.index = t.index => r = t
        /\ \A j, k \in 1..Cardinality(S) : j < k => q[j].index < q[k].index
        /\ \A r \in S : \E k \in 1..Cardinality(S) : q[k] = r
    BY <2>3, <2>4
  <2>7. InOrder(S) = q
    BY ONLY <2>4, <2>5, <2>6, OrderIs
  <2> QED
    BY <2>7 DEF q, S
<1> QED
  BY <1>1, <1>2

\* A final of the next index, with nothing waiting: the store takes it, or has no room.
LEMMA CommitTakesNext ==
    ASSUME StoreInv, pending = {}, NEW id \in Ids, NEW text \in Seq(Chars), completed[id] = Open,
           Commit(nextSegment, id, text)
    PROVE  \/ reply'.error # "none" /\ UNCHANGED <<texts, outcome>>
           \/ reply'.error = "none" /\ TookNext(id, text)
<1> DEFINE i == nextSegment
           s == [id |-> id, index |-> i, text |-> text]
<1>1. i \in Nat /\ transcript \in Seq(Segment)
  BY DEF StoreInv, StoreTypes
<1>2. Open # i /\ Open # Unindexed
  BY <1>1, MarksAssumption
<1>3. outcome = "none" /\ CommitNew(i, id, text)
  BY <1>2 DEF Commit
<1>4. ~IndexReused(i)
  BY <1>1 DEF IndexReused
<1>5. CASE Fail("resource")
  BY <1>5 DEF Fail, Return
<1>6. CASE /\ completed' = [completed EXCEPT ![id] = i]
           /\ partials' = [partials EXCEPT ![id] = NoPartial]
           /\ Drain(Put(pending, s), RetainedWith(id, Len(text)), HasPartial(id))
           /\ outcome' = outcome
  <2>1. s \in Segment /\ s.index = i /\ s.text = text
    BY <1>1 DEF Segment
  <2>2. Put(pending, s) = {s}
    BY DEF Put
  <2>3. IsFiniteSet({s})
    BY FS_Singleton
  <2> HIDE DEF s
  <2>4. FirstGap({s}, i) = i + 1
    <3> DEFINE S == {s}
               n == i + 1
    <3>1. /\ IsFiniteSet(S) /\ i \in Nat /\ n \in Nat /\ n >= i
          /\ \A k \in i..(n - 1) : \E r \in S : r.index = k
          /\ ~\E r \in S : r.index = n
      BY <1>1, <2>1, <2>3
    <3> HIDE DEF S, n
    <3>2. FirstGap(S, i) = n
      BY ONLY <3>1, FirstGapIs
    <3> QED
      BY <3>2 DEF S, n
  <2>5. Below({s}, i + 1) = {s}
    BY <1>1, <2>1 DEF Below
  <2>6. /\ pending' = {} /\ nextSegment' = i + 1 /\ reply'.error = "none"
        /\ transcript' = transcript \o InOrder(WithText({s}))
    BY <1>6, <2>2, <2>4, <2>5 DEF Drain, Return
  <2>7. transcript' = IF Blank(text) THEN transcript ELSE Append(transcript, s)
    <3>1. CASE Blank(text)
      <4>1. WithText({s}) = {}
        BY <2>1, <3>1 DEF WithText
      <4>2. transcript' = transcript \o <<>>
        BY <2>6, <4>1, OrderOfFew
      <4> QED
        BY <1>1, <3>1, <4>2, ConcatEmptySeq
    <3>2. CASE ~Blank(text)
      <4>1. WithText({s}) = {s}
        BY <2>1, <3>2 DEF WithText
      <4>2. transcript' = transcript \o <<s>>
        BY <2>1, <2>6, <4>1, OrderOfFew
      <4> QED
        BY <1>1, <2>1, <3>2, <4>2, AppendIsConcat
    <3> QED
      BY <3>1, <3>2
  <2> QED
    BY <1>6, <2>6, <2>7 DEF TookNext, s
<1> QED
  BY <1>3, <1>4, <1>5, <1>6 DEF CommitNew

\* The name of the index is free.
LEMMA NameIsFree ==
    ASSUME DashTypes, HeardInTurn, StoreFollows, outcome = "none", driver # "failed", NextIndex = index
    PROVE  completed[Name[index]] = Open /\ nextSegment = index /\ Name[index] \in Ids
<1>1. index \in 0..(Len(Says) + 1) /\ Name[index] \in Ids /\ Len(Says) \in Nat
  BY IndexBound, SaysTyped
<1>2. nextSegment = index
  BY DEF StoreFollows
<1>3. ASSUME completed[Name[index]] # Open PROVE FALSE
  <2>1. PICK j \in 0..(index - 1) : Name[index] = Name[j]
    BY <1>1, <1>3 DEF StoreFollows
  <2>2. j \in 0..(Len(Says) + 1) /\ j # index
    BY <1>1
  <2> QED
    BY <1>1, <2>1, <2>2, SaysTyped
<1> QED
  BY <1>1, <1>2, <1>3

\* The text of a call that was processed.
ToStore(c, p) ==
    /\ p.op = "store commit" /\ p.id = c.id /\ p.index = c.index /\ p.text \in Processed(c.text)

\* A call of the driver: the session is over, a preflight lets the call through, or
\* the call is made.
LEMMA SinkDoes ==
    ASSUME StoreInv, SinkInv, DashTypes, HeardInTurn, CallsMatch, StoreFollows, pending = {}, SinkStep
    PROVE  /\ driver # "failed" /\ calls # <<>> /\ ~refused /\ NextIndex = index
           /\ \/ outcome # "none" /\ UNCHANGED storeVars /\ calls' = <<>>
              \/ /\ outcome = "none" /\ committing /\ UNCHANGED storeVars /\ ~refused'
                 /\ \E p \in SinkCalls : calls' = <<p>> /\ ToStore(Head(calls), p)
              \/ /\ outcome = "none" /\ committing /\ refused' /\ calls' = <<>>
                 /\ UNCHANGED <<texts, outcome>>
              \/ /\ outcome = "none" /\ committing /\ ~refused' /\ calls' = <<>>
                 /\ TookNext(Name[index], Head(calls).text)
              \/ /\ outcome = "none" /\ ~committing /\ calls' = <<>>
                 /\ UNCHANGED <<transcript, pending, completed, nextSegment, outcome>>
                 /\ \A id \in Ids : id # Name[index] => partials'[id] = partials[id]
<1> DEFINE c == Head(calls)
<1>1. calls # <<>> /\ driver # "failed" /\ ~refused
  BY DEF SinkStep, CallsMatch
<1>2. /\ Len(calls) = 1 /\ c.id = Name[index]
      /\ committing => c.op \in {"commit", "store commit"} /\ c.index = index
      /\ ~committing => c.op = "partial"
  BY <1>1 DEF CallsMatch
<1>3. calls \in Seq(SinkCalls) /\ c \in SinkCalls
  BY <1>1, TailIs DEF SinkInv, SinkTypes
<1>4. Tail(calls) = <<>>
  <2>1. Tail(calls) \in Seq(SinkCalls) /\ Len(Tail(calls)) = Len(calls) - 1
    BY <1>1, <1>3, TailIs
  <2>2. Len(Tail(calls)) = 1 - 1
    BY <1>2, <2>1, Zenon
  <2>3. 1 - 1 = 0
    OBVIOUS
  <2> QED
    BY <2>1, <2>2, <2>3, EmptySeq
<1>5. c.text \in Seq(Chars) /\ c.id \in Ids /\ c.index \in Nat
  BY <1>3 DEF SinkCalls
<1>6. NextIndex = index
  BY <1>1 DEF NextIndex
<1> HIDE DEF c
<1>7. outcome = "none" => completed[c.id] = Open /\ nextSegment = index
  BY <1>1, <1>2, <1>6, NameIsFree
<1>8. index \in Nat /\ Open # index /\ Open # Unindexed
  BY MarksAssumption DEF DashTypes
<1>9. CASE CallTooLate
  <2>1. outcome # "none" /\ UNCHANGED storeVars /\ calls' = <<>>
    BY <1>4, <1>9 DEF CallTooLate
  <2> QED
    BY <1>1, <1>6, <2>1
<1>10. CASE Preflight
  <2>1. outcome = "none" /\ UNCHANGED storeVars /\ c.op \in {"commit", "final"}
    BY <1>10 DEF Preflight, c
  <2>2. committing /\ c.op = "commit" /\ c.index = index
    BY <1>2, <2>1
  <2>3. ~IndexReused(index) /\ ~PendingFull(index)
    BY <1>7, <1>8, <2>1 DEF IndexReused, PendingFull
  <2>4. PreflightCommit(c.index, c.id) = "process"
    BY <1>7, <1>8, <2>1, <2>2, <2>3 DEF PreflightCommit
  <2>5. PICK text \in Processed(c.text) :
          calls' = <<[c EXCEPT !.op = "store commit", !.text = text]>> \o Tail(calls) /\ UNCHANGED refused
    BY <1>10, <2>2, <2>4 DEF Preflight, c
  <2> DEFINE p == [c EXCEPT !.op = "store commit", !.text = text]
  <2>6. text \in Seq(Chars)
    BY <1>5, InputsAssumption DEF Processed
  <2>7. p \in SinkCalls /\ ToStore(c, p)
    BY <1>3, <2>6 DEF SinkCalls, ToStore
  <2>8. calls' = <<p>>
    <3>1. calls' = <<p>> \o <<>>
      BY <1>4, <2>5
    <3> HIDE DEF p
    <3>2. <<p>> \o <<>> = <<p>>
      BY <2>7, OneCall, ConcatEmptySeq
    <3> QED
      BY <3>1, <3>2
  <2> HIDE DEF p
  <2>9. ~refused'
    BY <1>1, <2>5
  <2> QED
    BY <1>1, <1>6, <2>1, <2>2, <2>7, <2>8, <2>9 DEF c
<1>11. CASE StoreCall
  <2>1. Returned
    BY <1>11 DEF StoreCall
  <2>2. calls' = <<>>
    BY <1>4, <2>1 DEF Returned
  <2>3. CASE ~committing
    <3>1. c.op = "partial"
      BY <1>2, <2>3
    <3>2. SetPartial(c.id, c.text)
      BY <1>11, <3>1 DEF StoreCall, c
    <3>3. UNCHANGED <<transcript, pending, completed, nextSegment, outcome>>
      BY <1>5, <3>2, PartialsStep
    <3>4. outcome = "none" /\ \A id \in Ids : id # c.id => partials'[id] = partials[id]
      BY <1>5, <3>2, CallsDo
    <3> QED
      BY <1>1, <1>2, <1>6, <2>2, <2>3, <3>3, <3>4
  <2>4. CASE committing
    <3>1. c.op \in {"commit", "store commit"} /\ c.index = index
      BY <1>2, <2>4
    <3>2. Commit(index, c.id, c.text)
      BY <1>11, <3>1 DEF StoreCall, c
    <3>3. outcome = "none"
      BY <3>2 DEF Commit
    <3>4. \/ reply'.error # "none" /\ UNCHANGED <<texts, outcome>>
          \/ reply'.error = "none" /\ TookNext(c.id, c.text)
      BY <1>5, <1>7, <3>2, <3>3, CommitTakesNext
    <3>5. refused' <=> reply'.error # "none"
      BY <2>1 DEF Returned
    <3> QED
      BY <1>1, <1>2, <1>6, <2>2, <2>4, <3>3, <3>4, <3>5 DEF c
  <2> QED
    BY <2>3, <2>4
<1> QED
  BY <1>9, <1>10, <1>11 DEF SinkStep

-----------------------------------------------------------------------------
\* What was said so far.
\* A text is blank exactly when nothing but white space is in it.
LEMMA BlankIs == ASSUME NEW text \in Seq(Chars) PROVE Blank(text) <=> text \in Seq(WhiteSpace)
<1>1. Len(text) \in Nat /\ DOMAIN text = 1..Len(text)
  BY LenProperties
<1>2. ASSUME Blank(text) PROVE text \in Seq(WhiteSpace)
  <2>1. text \in [1..Len(text) -> WhiteSpace]
    BY <1>1, <1>2 DEF Blank
  <2> QED
    BY <1>1, <2>1
<1>3. ASSUME text \in Seq(WhiteSpace) PROVE Blank(text)
  BY <1>1, <1>3, ElementOfSeq DEF Blank
<1> QED
  BY <1>2, <1>3

\* Nothing was said before the first sentence, and each adds its text.
LEMMA SaidOneMore ==
    /\ SaidUpTo(0) = <<>>
    /\ \A n \in 0..(Len(Says) - 1) :
         SaidUpTo(n + 1) = IF Blank(Says[n + 1]) THEN SaidUpTo(n) ELSE Append(SaidUpTo(n), Says[n + 1])
<1>1. SaidUpTo(0) = <<>>
  <2>1. SubSeq(Says, 1, 0) = <<>>
    BY SubSeqEmpty
  <2> QED
    BY <2>1, RetainNothing DEF SaidUpTo, NonBlank
<1>2. ASSUME NEW n \in 0..(Len(Says) - 1)
      PROVE  SaidUpTo(n + 1) = IF Blank(Says[n + 1]) THEN SaidUpTo(n) ELSE Append(SaidUpTo(n), Says[n + 1])
  <2> DEFINE q == SubSeq(Says, 1, n)
             t == Says[n + 1]
             D == Seq(WhiteSpace)
  <2>1. /\ Says \in Seq(Seq(Chars)) /\ Len(Says) \in Nat /\ n \in Nat /\ t \in Seq(Chars)
    BY SaysTyped, TaskAssumption
  <2>2. \A j \in 1..n : Says[j] \in Seq(Chars)
    BY <2>1, SaysTyped
  <2>3. q \in Seq(Seq(Chars))
    BY <2>1, <2>2, SubSeqProperties
  <2>4. SubSeq(Says, 1, n + 1) = Append(q, t)
    <3> DEFINE m == n + 1
    <3>1. m \in 1..Len(Says) /\ m - 1 = n /\ 1 \in 1..Len(Says)
      BY <2>1
    <3>2. Says[m] = t
      OBVIOUS
    <3> HIDE DEF m, q, t
    <3>3. SubSeq(Says, 1, m) = SubSeq(Says, 1, m - 1) \o <<Says[m]>>
      BY <2>1, <3>1, SubSeqRecursiveSecond
    <3>4. SubSeq(Says, 1, m - 1) = q
      BY <3>1 DEF q
    <3>5. Append(q, t) = q \o <<t>>
      BY <2>1, <2>3, AppendIsConcat
    <3>6. SubSeq(Says, 1, m) = Append(q, t)
      BY <3>2, <3>3, <3>4, <3>5, Zenon
    <3> QED
      BY <3>6 DEF m
  <2>5. Blank(t) <=> t \in D
    BY <2>1, BlankIs
  <2> HIDE DEF q, t, D
  <2>6. Retain(Append(q, t), D) = IF t \in D THEN Retain(q, D) ELSE Append(Retain(q, D), t)
    BY <2>1, <2>3, RetainOneMore
  <2>7. SaidUpTo(n + 1) = Retain(Append(q, t), D) /\ SaidUpTo(n) = Retain(q, D)
    BY <2>4 DEF SaidUpTo, NonBlank, D, q
  <2>8. SaidUpTo(n + 1) = IF Blank(t) THEN SaidUpTo(n) ELSE Append(SaidUpTo(n), t)
    BY <2>5, <2>6, <2>7, Zenon
  <2> QED
    BY <2>8 DEF t
<1> QED
  BY <1>1, <1>2

\* a is what b begins with.
BeginsWith(b, a) == Len(a) <= Len(b) /\ \A j \in 1..Len(a) : a[j] = b[j]

\* The library's way to say so.
LEMMA PrefixIs ==
    ASSUME NEW S, NEW a \in Seq(S), NEW b \in Seq(S), BeginsWith(b, a) PROVE IsPrefix(a, b)
<1> DEFINE c == SubSeq(b, 1, Len(a))
<1>1. Len(a) \in Nat /\ Len(b) \in Nat /\ Len(a) <= Len(b) /\ \A j \in 1..Len(a) : b[j] = a[j] /\ b[j] \in S
  BY LenProperties, ElementOfSeq DEF BeginsWith
<1>2. c \in Seq(S) /\ Len(c) = Len(a) /\ \A j \in 1..Len(a) : c[j] = b[j]
  <2>1. /\ c \in Seq(S) /\ Len(c) = IF 1 <= Len(a) THEN Len(a) - 1 + 1 ELSE 0
        /\ \A j \in 1..(Len(a) - 1 + 1) : c[j] = b[1 + j - 1]
    BY <1>1, SubSeqProperties
  <2> HIDE DEF c
  <2> QED
    BY <1>1, <2>1
<1> HIDE DEF c
<1>3. c = a
  BY <1>1, <1>2, SeqEqual
<1>4. SubSeq(a, 1, Len(a)) = a
  BY SubSeqFull
<1> QED
  BY <1>1, <1>3, <1>4 DEF IsPrefix, c

\* What was said is a sequence of texts.
LEMMA SaidTyped == \A n \in 0..Len(Says) : SaidUpTo(n) \in Seq(Seq(Chars))
<1> DEFINE Bad == {n \in 0..Len(Says) : SaidUpTo(n) \notin Seq(Seq(Chars))}
<1>1. SUFFICES ASSUME Bad # {} PROVE FALSE
  OBVIOUS
<1>2. Bad \in SUBSET Nat
  OBVIOUS
<1>3. PICK m \in Bad : \A j \in Bad : m <= j
  BY <1>1, <1>2, LeastNumber
<1>4. m # 0
  BY <1>3, SaidOneMore, EmptySeq
<1> DEFINE n == m - 1
<1>5. n \in 0..(Len(Says) - 1) /\ n \in 0..Len(Says) /\ n + 1 = m /\ m \in 1..Len(Says) /\ ~(m <= n)
  BY <1>3, <1>4, SaysTyped
<1>6. SaidUpTo(n) \in Seq(Seq(Chars)) /\ Says[m] \in Seq(Chars)
  BY <1>3, <1>5, SaysTyped
<1>7. SaidUpTo(m) = IF Blank(Says[m]) THEN SaidUpTo(n) ELSE Append(SaidUpTo(n), Says[m])
  <2>1. SaidUpTo(n + 1) = IF Blank(Says[n + 1]) THEN SaidUpTo(n) ELSE Append(SaidUpTo(n), Says[n + 1])
    BY <1>5, SaidOneMore
  <2> QED
    BY <1>5, <2>1
<1>8. Append(SaidUpTo(n), Says[m]) \in Seq(Seq(Chars))
  BY <1>6, AppendIs
<1> QED
  BY <1>3, <1>6, <1>7, <1>8

\* What was said first stays.
LEMMA SaidGrows ==
    ASSUME NEW n \in 0..Len(Says), NEW k \in n..Len(Says) PROVE BeginsWith(SaidUpTo(k), SaidUpTo(n))
<1> DEFINE Bad == {m \in n..Len(Says) : ~BeginsWith(SaidUpTo(m), SaidUpTo(n))}
<1>1. SUFFICES ASSUME Bad # {} PROVE FALSE
  OBVIOUS
<1>0. Len(Says) \in Nat /\ n \in Nat
  BY SaysTyped
<1>2. Bad \in SUBSET Nat
  BY <1>0
<1>3. PICK m \in Bad : \A j \in Bad : m <= j
  BY <1>1, <1>2, LeastNumber
<1>4. m # n
  <2>1. Len(SaidUpTo(n)) \in Nat
    BY SaidTyped, LenProperties
  <2>2. BeginsWith(SaidUpTo(n), SaidUpTo(n))
    BY <2>1 DEF BeginsWith
  <2> QED
    BY <1>3, <2>2
<1> DEFINE h == m - 1
<1>5. h \in 0..(Len(Says) - 1) /\ h \in n..Len(Says) /\ h \in 0..Len(Says) /\ h + 1 = m /\ m \in 1..Len(Says) /\ ~(m <= h)
  BY <1>0, <1>3, <1>4
<1>6. BeginsWith(SaidUpTo(h), SaidUpTo(n))
  BY <1>3, <1>5
<1>7. SaidUpTo(m) = SaidUpTo(h) \/ SaidUpTo(m) = Append(SaidUpTo(h), Says[m])
  <2>1. SaidUpTo(h + 1) = IF Blank(Says[h + 1]) THEN SaidUpTo(h) ELSE Append(SaidUpTo(h), Says[h + 1])
    BY <1>5, SaidOneMore
  <2> QED
    BY <1>5, <2>1
<1>8. SaidUpTo(h) \in Seq(Seq(Chars)) /\ SaidUpTo(n) \in Seq(Seq(Chars)) /\ Says[m] \in Seq(Chars)
  BY <1>5, SaidTyped, SaysTyped
<1>9. CASE SaidUpTo(m) = SaidUpTo(h)
  BY <1>3, <1>6, <1>9
<1>10. CASE SaidUpTo(m) = Append(SaidUpTo(h), Says[m])
  <2> DEFINE a == SaidUpTo(n)
             b == SaidUpTo(h)
             c == SaidUpTo(m)
  <2>1. Len(a) \in Nat /\ Len(b) \in Nat /\ Len(c) = Len(b) + 1 /\ \A j \in 1..Len(b) : c[j] = b[j]
    BY <1>8, <1>10, AppendIs, LenProperties
  <2>2. Len(a) <= Len(b) /\ \A j \in 1..Len(a) : a[j] = b[j]
    BY <1>6 DEF BeginsWith
  <2> HIDE DEF a, b, c
  <2>3. Len(a) <= Len(c) /\ \A j \in 1..Len(a) : a[j] = c[j]
    BY <2>1, <2>2
  <2> QED
    BY <1>3, <2>3 DEF BeginsWith, a, c
<1> QED
  BY <1>7, <1>9, <1>10

-----------------------------------------------------------------------------
\* The calls.
\* Nothing that they depend on changes.
LEMMA CallsUnmoved ==
    ASSUME CallsMatch, UNCHANGED <<calls, refused, index, committing>>, driver' = "failed" => driver = "failed",
           oddity' # "unidentified" => oddity # "unidentified"
    PROVE  CallsMatch'
BY DEF CallsMatch

\* A single call that fits.
LEMMA CallFits ==
    ASSUME NEW c \in SinkCalls, calls' = <<c>>, c.id = Name[index'], ~refused', driver' # "failed",
           IF committing'
           THEN /\ c.op \in {"commit", "store commit"} /\ c.index = index'
                /\ Texts = {} /\ oddity' # "unidentified" => c.text = Says[index' + 1]
           ELSE c.op = "partial"
    PROVE  CallsMatch'
<1> DEFINE p == calls'
<1>1. Len(p) = 1 /\ Head(p) = c
  BY OneCall
<1> HIDE DEF p
<1>2. Len(calls') = 1 /\ Head(calls') = c
  BY <1>1 DEF p
<1> QED
  BY <1>2 DEF CallsMatch

\* Without calls.
LEMMA NoCallFits == ASSUME calls' = <<>>, driver' = "failed" => ~committing' PROVE CallsMatch'
BY DEF CallsMatch

\* A text that nobody rewrites.
LEMMA ProcessedIs == ASSUME Texts = {}, NEW t PROVE Processed(t) = {t}
BY DEF Processed

\* Every step.
LEMMA CallsStep ==
    ASSUME StoreInv, SinkInv, DashTypes, HeardInTurn, CallsMatch, StoreFollows, pending = {},
           [DashScopeNext]_vars
    PROVE  CallsMatch'
<1>1. CASE UNCHANGED vars
  <2>1. UNCHANGED <<calls, refused, index, committing, driver, oddity>>
    BY <1>1 DEF vars, driverVars, protocolVars, serverVars, sinkVars
  <2> QED
    BY <2>1, CallsUnmoved
<1>2. CASE Receive
  <2>1. UNCHANGED <<driver, index, oddity>> /\ driver # "failed" /\ ~refused /\ ~committing
    BY <1>2, ReceiveDoes DEF serverVars, Waits, Idle
  <2>2. CASE calls' = <<>>
    BY <2>1, <2>2, NoCallFits
  <2>3. ASSUME NEW c \in SinkCalls, calls' = <<c>>, c.id = Name[index], UNCHANGED refused,
               \/ c.op = "partial" /\ UNCHANGED committing
               \/ /\ c.op = "commit" /\ c.index = index /\ committing' = TRUE
                  /\ c.text = Says[Head(toClient).sentence]
        PROVE  CallsMatch'
    <3>1. CASE c.op = "partial" /\ UNCHANGED committing
      <4>1. ~committing' /\ ~refused'
        BY <2>1, <2>3, <3>1
      <4> QED
        BY <2>1, <2>3, <3>1, <4>1, CallFits
    <3>2. CASE /\ c.op = "commit" /\ c.index = index /\ committing' = TRUE
               /\ c.text = Says[Head(toClient).sentence]
      <4>1. committing' /\ ~refused'
        BY <2>1, <2>3, <3>2
      <4>2. oddity # "unidentified" => c.text = Says[index + 1]
        BY <1>2, <3>2, <4>1, HeardReceive
      <4> QED
        BY <2>1, <2>3, <3>2, <4>1, <4>2, CallFits
    <3> QED
      BY <2>3, <3>1, <3>2
  <2> QED
    BY <1>2, <2>2, <2>3, ReceiveCalls
<1>3. CASE DriverCalls
  <2>1. SinkStep /\ UNCHANGED <<driver, index, committing, oddity>>
    BY <1>3 DEF DriverCalls, driverVars, protocolVars, serverVars
  <2>2. driver # "failed" /\ calls # <<>>
    BY <2>1, SinkDoes
  <2>3. CASE calls' = <<>>
    BY <2>1, <2>2, <2>3, NoCallFits
  <2>4. ASSUME committing, ~refused', NEW p \in SinkCalls, calls' = <<p>>, ToStore(Head(calls), p)
        PROVE  CallsMatch'
    <3>1. /\ Head(calls).id = Name[index] /\ Head(calls).index = index
          /\ Texts = {} /\ oddity # "unidentified" => Head(calls).text = Says[index + 1]
      BY <2>2, <2>4 DEF CallsMatch
    <3>2. /\ p.id = Name[index] /\ p.index = index /\ p.op = "store commit"
          /\ Texts = {} => p.text = Head(calls).text
      BY <2>4, <3>1, ProcessedIs DEF ToStore
    <3>3. committing'
      BY <2>1, <2>4
    <3> QED
      BY <2>1, <2>2, <2>4, <3>1, <3>2, <3>3, CallFits
  <2> QED
    BY <2>1, <2>3, <2>4, SinkDoes
<1>4. CASE Committed
  <2>1. calls' = <<>> /\ driver' = driver /\ committing
    BY <1>4 DEF Committed, sinkVars
  <2>2. driver # "failed"
    BY <2>1 DEF CallsMatch
  <2> QED
    BY <2>1, <2>2, NoCallFits
<1>5. CASE DriverMoves
  <2>1. calls' = <<>> /\ driver' # "failed"
    BY <1>5, DriverMovesDo DEF Idle
  <2> QED
    BY <2>1, NoCallFits
<1>6. CASE CheckFails \/ DriverFails
  <2>1. calls' = <<>> /\ ~committing'
    BY <1>6, GivingUpDoes
  <2> QED
    BY <2>1, NoCallFits
<1>7. CASE Settles
  BY <1>7, SettlingDoes, CallsUnmoved DEF serverVars
<1>8. CASE ServerNext
  <2>1. UNCHANGED <<calls, refused, index, committing, driver>>
    BY <1>8, ServerDoes
  <2>2. oddity' # "unidentified" => oddity # "unidentified"
    <3>1. oddity' = oddity \/ oddity = "none"
      BY <1>8, ServerDoes
    <3> QED
      BY <3>1
  <2> QED
    BY <2>1, <2>2, CallsUnmoved
<1>9. DashScopeNext \/ UNCHANGED vars
  OBVIOUS
<1> QED
  BY <1>1, <1>2, <1>3, <1>4, <1>5, <1>6, <1>7, <1>8, <1>9, StepKinds

-----------------------------------------------------------------------------
\* The store and the driver.
\* Nothing that they agree on changes.
LEMMA FollowsUnmoved ==
    ASSUME StoreFollows, UNCHANGED <<nextSegment, completed, partials>>, outcome' = "none" => outcome = "none",
           NextIndex' = NextIndex, (driver' = "failed" => ~refused') => (driver = "failed" => ~refused)
    PROVE  StoreFollows'
BY DEF StoreFollows, HasPartial

\* The next index when nothing is committed, or the commit is still to be made.
LEMMA NextIndexIs ==
    /\ ~committing \/ calls # <<>> \/ refused => NextIndex = index
    /\ ~committing' \/ calls' # <<>> \/ refused' => NextIndex' = index'
BY DEF NextIndex

\* The final that the store takes next.
LEMMA FollowsTook ==
    ASSUME StoreInv, BudgetInv, DashTypes, HeardInTurn, StoreFollows, outcome = "none", driver # "failed",
           NextIndex = index, NextIndex' = index + 1, NEW text, TookNext(Name[index], text)
    PROVE  StoreFollows'
<1> DEFINE n == Name[index]
<1>1. completed[n] = Open /\ nextSegment = index /\ n \in Ids /\ index \in Nat
  BY NameIsFree DEF DashTypes
<1>2. completed \in [Ids -> Nat \cup {Open, Unindexed}] /\ partials \in [Ids -> Partial]
  BY DEF StoreInv, StoreTypes, BudgetInv, BudgetTypes
<1> HIDE DEF n
<1>3. /\ nextSegment' = index + 1
      /\ completed'[n] = index /\ \A id \in Ids : id # n => completed'[id] = completed[id]
      /\ partials'[n] = NoPartial /\ \A id \in Ids : id # n => partials'[id] = partials[id]
  BY <1>1, <1>2 DEF TookNext, n
<1>4. /\ \A id \in Ids : completed[id] # Open => \E j \in 0..(index - 1) : id = Name[j] /\ completed[id] = j
      /\ \A id \in Ids : HasPartial(id) => id = n
  BY DEF StoreFollows, n
<1>5. ASSUME NEW id \in Ids, completed'[id] # Open
      PROVE  \E j \in 0..index : id = Name[j] /\ completed'[id] = j
  <2>1. CASE id = n
    BY <1>1, <1>3, <2>1 DEF n
  <2>2. CASE id # n
    <3>1. PICK j \in 0..(index - 1) : id = Name[j] /\ completed[id] = j
      BY <1>3, <1>4, <1>5, <2>2
    <3>2. j \in 0..index
      BY <1>1
    <3> QED
      BY <1>3, <2>2, <3>1, <3>2
  <2> QED
    BY <2>1, <2>2
<1>6. ASSUME NEW id \in Ids, partials'[id].revision > 0 PROVE FALSE
  <2>1. id = n
    BY <1>3, <1>4, <1>6 DEF HasPartial
  <2> QED
    BY <1>3, <1>6, <2>1 DEF NoPartial
<1>7. NextIndex' - 1 = index
  BY <1>1
<1> QED
  BY <1>3, <1>5, <1>6, <1>7 DEF StoreFollows, HasPartial

\* Every step.
LEMMA FollowsStep ==
    ASSUME StoreInv, BudgetInv, SinkInv, DashTypes, HeardInTurn, CallsMatch, StoreFollows, pending = {},
           [DashScopeNext]_vars
    PROVE  StoreFollows'
<1>1. CASE UNCHANGED vars
  <2>1. UNCHANGED <<nextSegment, completed, partials, outcome, calls, refused, index, committing, driver>>
    BY <1>1 DEF vars, driverVars, protocolVars, serverVars, sinkVars, storeVars, texts
  <2>2. NextIndex' = NextIndex
    BY <2>1 DEF NextIndex
  <2> QED
    BY <2>1, <2>2, FollowsUnmoved
<1>2. CASE Receive
  <2>1. UNCHANGED <<storeVars, driver, index>> /\ driver # "failed" /\ ~committing
    BY <1>2, ReceiveDoes DEF Waits, Idle
  <2>2. ~committing' \/ calls' # <<>>
    <3>1. CASE UNCHANGED committing
      BY <2>1, <3>1
    <3>2. CASE \E c \in SinkCalls : calls' = <<c>>
      <4>1. PICK c \in SinkCalls : calls' = <<c>>
        BY <3>2
      <4> QED
        BY <4>1, OneCall
    <3> QED
      BY <1>2, <3>1, <3>2, ReceiveCalls
  <2>3. NextIndex' = NextIndex
    BY <2>1, <2>2, NextIndexIs
  <2> QED
    BY <2>1, <2>3, FollowsUnmoved DEF storeVars, texts
<1>3. CASE DriverCalls
  <2>1. SinkStep /\ UNCHANGED <<driver, index, committing>>
    BY <1>3 DEF DriverCalls, driverVars, protocolVars
  <2>2. driver # "failed" /\ calls # <<>> /\ ~refused /\ NextIndex = index
    BY <2>1, SinkDoes
  <2>3. CASE outcome # "none" /\ UNCHANGED storeVars
    BY <2>3 DEF StoreFollows, storeVars
  <2>4. ASSUME UNCHANGED storeVars, NEW p \in SinkCalls, calls' = <<p>>
        PROVE  StoreFollows'
    <3>1. calls' # <<>>
      BY <2>4, OneCall
    <3>2. NextIndex' = NextIndex
      BY <2>1, <2>2, <3>1, NextIndexIs
    <3> QED
      BY <2>1, <2>2, <2>4, <3>2, FollowsUnmoved DEF storeVars, texts
  <2>5. CASE refused' /\ UNCHANGED <<texts, outcome>>
    <3>1. NextIndex' = NextIndex
      BY <2>1, <2>2, <2>5, NextIndexIs
    <3> QED
      BY <2>1, <2>2, <2>5, <3>1, FollowsUnmoved DEF texts
  <2>6. CASE /\ outcome = "none" /\ committing /\ ~refused' /\ calls' = <<>>
             /\ TookNext(Name[index], Head(calls).text)
    <3>1. NextIndex' = index + 1
      BY <2>1, <2>6 DEF NextIndex
    <3> QED
      BY <2>2, <2>6, <3>1, FollowsTook
  <2>7. CASE /\ outcome = "none" /\ ~committing
             /\ UNCHANGED <<transcript, pending, completed, nextSegment, outcome>>
             /\ \A id \in Ids : id # Name[index] => partials'[id] = partials[id]
    <3>1. NextIndex' = index
      BY <2>1, <2>7, NextIndexIs
    <3>2. /\ nextSegment = index
          /\ \A id \in Ids : completed[id] # Open => \E j \in 0..(index - 1) : id = Name[j] /\ completed[id] = j
          /\ \A id \in Ids : HasPartial(id) => id = Name[index]
      BY <2>2, <2>7 DEF StoreFollows
    <3>3. \A id \in Ids : partials'[id].revision > 0 => id = Name[index]
      BY <2>7, <3>2 DEF HasPartial
    <3>4. /\ nextSegment' = index
          /\ \A id \in Ids : completed'[id] # Open => \E j \in 0..(index - 1) : id = Name[j] /\ completed'[id] = j
      BY <2>7, <3>2
    <3> QED
      BY <3>1, <3>3, <3>4 DEF StoreFollows, HasPartial
  <2> QED
    BY <2>1, <2>3, <2>4, <2>5, <2>6, <2>7, SinkDoes
<1>4. CASE Committed
  <2>1. /\ committing /\ calls = <<>> /\ ~refused /\ index' = index + 1 /\ ~committing'
        /\ UNCHANGED <<storeVars, driver>>
    BY <1>4 DEF Committed
  <2>2. NextIndex = index + 1 /\ NextIndex' = index + 1
    BY <2>1 DEF NextIndex
  <2>3. driver # "failed"
    BY <2>1 DEF CallsMatch
  <2> QED
    BY <2>1, <2>2, <2>3, FollowsUnmoved DEF storeVars, texts
<1>5. CASE DriverMoves
  <2>1. UNCHANGED <<storeVars, calls, refused, index, committing>> /\ driver # "failed"
    BY <1>5, DriverMovesDo
  <2>2. NextIndex' = NextIndex
    BY <2>1 DEF NextIndex
  <2> QED
    BY <2>1, <2>2, FollowsUnmoved DEF storeVars, texts
<1>6. CASE CheckFails \/ DriverFails
  <2>1. /\ UNCHANGED <<storeVars, refused, index>> /\ ~committing' /\ driver' = "failed" /\ driver # "failed"
    BY <1>6, GivingUpDoes DEF Active
  <2>2. CASE refused \/ outcome # "none"
    BY <2>1, <2>2 DEF StoreFollows, storeVars
  <2>3. CASE Idle
    <3>1. NextIndex = index /\ NextIndex' = index
      BY <2>1, <2>3, NextIndexIs DEF Idle
    <3> QED
      BY <2>1, <3>1, FollowsUnmoved DEF storeVars, texts
  <2> QED
    BY <1>6, <2>2, <2>3 DEF CheckFails, DriverFails
<1>7. CASE Settles
  <2>1. outcome' # "none"
    BY <1>7, SettlingDoes DEF Settle
  <2> QED
    BY <2>1 DEF StoreFollows
<1>8. CASE ServerNext
  <2>1. UNCHANGED <<storeVars, calls, refused, index, committing, driver>>
    BY <1>8, ServerDoes
  <2>2. NextIndex' = NextIndex
    BY <2>1 DEF NextIndex
  <2> QED
    BY <2>1, <2>2, FollowsUnmoved DEF storeVars, texts
<1>9. DashScopeNext \/ UNCHANGED vars
  OBVIOUS
<1> QED
  BY <1>1, <1>2, <1>3, <1>4, <1>5, <1>6, <1>7, <1>8, <1>9, StepKinds

-----------------------------------------------------------------------------
\* What the host is shown.
\* A segment behind the others shows its text behind theirs.
LEMMA ShownAppend ==
    ASSUME transcript \in Seq(Segment), NEW s \in Segment, transcript' = Append(transcript, s)
    PROVE  Shown' = Append(Shown, s.text)
<1> DEFINE n == Len(transcript)
           p == transcript'
           T == Seq(Chars)
           a == Append(Shown, s.text)
           b == [k \in DOMAIN p |-> p[k].text]
<1>1. /\ n \in Nat /\ Len(p) = n + 1 /\ p[n + 1] = s /\ \A k \in 1..n : p[k] = transcript[k]
      /\ p \in Seq(Segment)
  BY AppendIs
<1>2. /\ DOMAIN transcript = 1..n /\ DOMAIN p = 1..(n + 1) /\ s.text \in T
      /\ \A k \in 1..n : transcript[k].text \in T
  <2>1. DOMAIN transcript = 1..n /\ DOMAIN p = 1..Len(p)
    BY <1>1, LenProperties
  <2>2. \A k \in 1..n : transcript[k] \in Segment
    BY ElementOfSeq
  <2> QED
    BY <1>1, <2>1, <2>2 DEF Segment
<1> HIDE DEF n, p, T
<1>3. Shown \in Seq(T) /\ Len(Shown) = n /\ \A k \in 1..n : Shown[k] = transcript[k].text
  BY <1>1, <1>2 DEF Shown
<1>4. a \in Seq(T) /\ Len(a) = n + 1 /\ a[n + 1] = s.text /\ \A k \in 1..n : a[k] = Shown[k]
  BY <1>2, <1>3, AppendIs
<1>5. \A k \in 1..(n + 1) : p[k].text \in T
  BY <1>1, <1>2
<1>6. b \in Seq(T) /\ Len(b) = n + 1 /\ \A k \in 1..(n + 1) : b[k] = p[k].text
  BY <1>1, <1>2, <1>5
<1> HIDE DEF a, b
<1>7. \A k \in 1..(n + 1) : a[k] = b[k]
  BY <1>1, <1>3, <1>4, <1>6
<1>8. a = b
  BY <1>4, <1>6, <1>7, SeqEqual
<1> QED
  BY <1>8 DEF Shown, a, b, p

\* Nothing is shown that was not.
LEMMA ShownUnmoved ==
    ASSUME DashTypes, ShownSoFar, UNCHANGED <<pending, transcript>>, outcome' = "ok" => driver' = "done",
           oddity' # "unidentified" => oddity # "unidentified", said' \in {said, said + 1},
           outcome' = "none" /\ driver' # "failed" =>
             outcome = "none" /\ driver # "failed" /\ NextIndex' = NextIndex,
           driver' = "done" /\ outcome' # "error" => driver = "done" /\ outcome # "error" /\ said' = said
    PROVE  ShownSoFar'
<1>1. Shown' = Shown
  BY DEF Shown
<1>2. \A k : SaidUpTo(k)' = SaidUpTo(k')
  BY DEF SaidUpTo, NonBlank
<1>3. 0..said \subseteq 0..said'
  BY DEF DashTypes
<1> HIDE DEF Shown
<1>4. pending' = {} /\ (outcome' = "ok" => driver' = "done")
  BY DEF ShownSoFar
<1>5. ASSUME Texts = {}, oddity' # "unidentified"
      PROVE  /\ outcome' = "none" /\ driver' # "failed" => Shown = SaidUpTo(NextIndex')
             /\ \E k \in 0..said' : Shown = SaidUpTo(k)
             /\ driver' = "done" /\ outcome' # "error" => Shown = SaidUpTo(said')
  <2>1. /\ outcome = "none" /\ driver # "failed" => Shown = SaidUpTo(NextIndex)
        /\ \E k \in 0..said : Shown = SaidUpTo(k)
        /\ driver = "done" /\ outcome # "error" => Shown = SaidUpTo(said)
    BY <1>5 DEF ShownSoFar
  <2> QED
    BY <1>3, <2>1
<1> QED
  BY <1>1, <1>4, <1>5 DEF ShownSoFar

\* Of the sentences that the driver has committed, all were said; when the task is
\* done, no other was.
LEMMA AllHeard ==
    ASSUME DashTypes, HeardInTurn, driver # "failed", oddity # "unidentified"
    PROVE  /\ NextIndex \in 0..said /\ (committing => index + 1 \in 0..said)
           /\ toClient = <<>> /\ Idle => NextIndex = said
<1>1. index \in Nat /\ said \in 0..Len(Says) /\ Len(Says) \in Nat
  BY SaysTyped DEF DashTypes
<1>2. PICK q \in 0..said, x \in {0, 1} : FinalsOnWire(q, x)
  BY DEF HeardInTurn
<1>3. x = 0 /\ index + (IF committing THEN 1 ELSE 0) = q
  BY <1>1, <1>2 DEF FinalsOnWire, Counted
<1>4. index \in 0..said /\ (committing => index + 1 \in 0..said)
  BY <1>1, <1>3
<1>5. NextIndex \in 0..said
  BY <1>4 DEF NextIndex
<1>6. ASSUME toClient = <<>>, Idle PROVE NextIndex = said
  <2>1. \A k \in (q + 1)..said : \E j \in 1..Len(toClient) : IsFinal(toClient[j], k)
    BY <1>2 DEF FinalsOnWire, Due
  <2>2. Len(toClient) = 0
    BY <1>6
  <2>3. q = said
    <3>1. ASSUME q < said PROVE FALSE
      <4>1. q + 1 \in (q + 1)..said
        BY <1>1, <3>1
      <4>2. \E j \in 1..0 : IsFinal(toClient[j], q + 1)
        BY <2>1, <2>2, <4>1
      <4> QED
        BY <4>2
    <3> QED
      BY <1>1, <3>1
  <2>4. NextIndex = index /\ index = q
    BY <1>1, <1>3, <1>6 DEF NextIndex, Idle
  <2> QED
    BY <2>3, <2>4
<1> QED
  BY <1>4, <1>5, <1>6

\* The store takes the next sentence.
LEMMA ShownTook ==
    ASSUME StoreInv, SinkInv, DashTypes, HeardInTurn, EndOnWire, CallsMatch, ShownSoFar, calls # <<>>,
           outcome = "none", driver # "failed", committing, NextIndex = index,
           NextIndex' = index + 1, UNCHANGED <<driver, said, oddity>>,
           TookNext(Name[index], Head(calls).text)
    PROVE  ShownSoFar'
<1> DEFINE t == Head(calls).text
           s == [id |-> Name[index], index |-> nextSegment, text |-> t]
<1>1. calls \in Seq(SinkCalls) /\ Head(calls) \in SinkCalls
  BY TailIs DEF SinkInv, SinkTypes
<1>2. s \in Segment /\ s.text = t /\ t \in Seq(Chars) /\ transcript \in Seq(Segment)
  BY <1>1, IndexBound DEF SinkCalls, Segment, StoreInv, StoreTypes
<1>3. driver # "done" /\ pending' = {} /\ outcome' = "none"
  BY DEF EndOnWire, Idle, TookNext
<1>4. ASSUME Texts = {}, oddity # "unidentified"
      PROVE  index + 1 \in 0..said /\ Shown' = SaidUpTo(index + 1)
  <2>1. index + 1 \in 0..said /\ index \in Nat /\ said \in 0..Len(Says) /\ Len(Says) \in Nat
    BY <1>4, AllHeard, SaysTyped DEF DashTypes
  <2>2. index \in 0..(Len(Says) - 1)
    BY <2>1
  <2>3. t = Says[index + 1] /\ Shown = SaidUpTo(index)
    BY <1>4 DEF CallsMatch, ShownSoFar
  <2>4. SaidUpTo(index + 1) = IF Blank(t) THEN SaidUpTo(index) ELSE Append(SaidUpTo(index), t)
    BY <2>2, <2>3, SaidOneMore, Zenon
  <2>5. transcript' = IF Blank(t) THEN transcript ELSE Append(transcript, s)
    BY DEF TookNext
  <2> HIDE DEF t, s
  <2>6. CASE Blank(t)
    <3>1. Shown' = Shown
      BY <2>5, <2>6 DEF Shown
    <3> QED
      BY <2>1, <2>3, <2>4, <2>6, <3>1
  <2>7. CASE ~Blank(t)
    <3>1. Shown' = Append(Shown, t)
      <4>1. transcript' = Append(transcript, s)
        BY <2>5, <2>7
      <4>2. Shown' = Append(Shown, s.text)
        BY <1>2, <4>1, ShownAppend
      <4> QED
        BY <1>2, <4>2
    <3>2. SaidUpTo(index + 1) = Append(SaidUpTo(index), t)
      BY <2>4, <2>7
    <3>3. Shown' = SaidUpTo(index + 1)
      BY <2>3, <3>1, <3>2, Zenon
    <3> QED
      BY <2>1, <3>3
  <2> QED
    BY <2>6, <2>7
<1>5. \A k : SaidUpTo(k)' = SaidUpTo(k')
  BY DEF SaidUpTo, NonBlank
<1> HIDE DEF t, s
<1>6. ASSUME Texts = {}, oddity' # "unidentified"
      PROVE  Shown' = SaidUpTo(NextIndex') /\ \E k \in 0..said' : Shown' = SaidUpTo(k)
  <2>1. index + 1 \in 0..said' /\ Shown' = SaidUpTo(index + 1)
    BY <1>4, <1>6
  <2> QED
    BY <2>1
<1> QED
  BY <1>3, <1>6 DEF ShownSoFar

\* Every step.
LEMMA ShownStep ==
    ASSUME StoreInv, BudgetInv, SinkInv, DashTypes, HeardInTurn, EndOnWire, CallsMatch, StoreFollows,
           ShownSoFar, [DashScopeNext]_vars
    PROVE  ShownSoFar'
<1>0. pending = {} /\ said \in Nat /\ (outcome = "ok" => driver = "done")
  BY SaysTyped DEF ShownSoFar, DashTypes
<1>1. CASE UNCHANGED vars
  <2>1. UNCHANGED <<transcript, pending, outcome, calls, refused, index, committing, driver, said, oddity>>
    BY <1>1 DEF vars, driverVars, protocolVars, serverVars, sinkVars, storeVars, texts
  <2>2. NextIndex' = NextIndex
    BY <2>1 DEF NextIndex
  <2> QED
    BY <1>0, <2>1, <2>2, ShownUnmoved
<1>2. CASE Receive
  <2>1. /\ UNCHANGED <<transcript, pending, outcome, driver, index, said, oddity>>
        /\ driver # "failed" /\ ~committing
    BY <1>2, ReceiveDoes DEF Waits, Idle, storeVars, texts, serverVars
  <2>2. ~committing' \/ calls' # <<>>
    <3>1. CASE UNCHANGED committing
      BY <2>1, <3>1
    <3>2. CASE \E c \in SinkCalls : calls' = <<c>>
      <4>1. PICK c \in SinkCalls : calls' = <<c>>
        BY <3>2
      <4> QED
        BY <4>1, OneCall
    <3> QED
      BY <1>2, <3>1, <3>2, ReceiveCalls
  <2>3. NextIndex' = NextIndex
    BY <2>1, <2>2, NextIndexIs
  <2> QED
    BY <1>0, <2>1, <2>3, ShownUnmoved
<1>3. CASE DriverCalls
  <2>1. SinkStep /\ UNCHANGED <<driver, index, committing, said, oddity>>
    BY <1>3 DEF DriverCalls, driverVars, protocolVars, serverVars
  <2>2. driver # "failed" /\ calls # <<>> /\ ~refused /\ NextIndex = index
    BY <1>0, <2>1, SinkDoes
  <2>3. ASSUME UNCHANGED <<transcript, pending, outcome>>, outcome = "none" => NextIndex' = index PROVE ShownSoFar'
    BY <1>0, <2>1, <2>2, <2>3, ShownUnmoved
  <2>4. CASE outcome # "none" /\ UNCHANGED storeVars
    BY <2>3, <2>4 DEF storeVars, texts
  <2>5. ASSUME UNCHANGED storeVars, NEW p \in SinkCalls, calls' = <<p>>
        PROVE  ShownSoFar'
    <3>1. calls' # <<>>
      BY <2>5, OneCall
    <3>2. NextIndex' = index
      BY <2>1, <3>1, NextIndexIs
    <3> QED
      BY <2>3, <2>5, <3>2 DEF storeVars, texts
  <2>6. CASE refused' /\ UNCHANGED <<texts, outcome>>
    <3>1. NextIndex' = index
      BY <2>1, <2>6, NextIndexIs
    <3> QED
      BY <2>3, <2>6, <3>1 DEF texts
  <2>7. CASE /\ outcome = "none" /\ committing /\ ~refused' /\ calls' = <<>>
             /\ TookNext(Name[index], Head(calls).text)
    <3>1. NextIndex' = index + 1
      BY <2>1, <2>7 DEF NextIndex
    <3> QED
      BY <2>1, <2>2, <2>7, <3>1, ShownTook
  <2>8. CASE ~committing /\ UNCHANGED <<transcript, pending, completed, nextSegment, outcome>>
    <3>1. NextIndex' = index
      BY <2>1, <2>8, NextIndexIs
    <3> QED
      BY <2>3, <2>8, <3>1
  <2> QED
    BY <1>0, <2>1, <2>4, <2>5, <2>6, <2>7, <2>8, SinkDoes
<1>4. CASE Committed
  <2>1. /\ committing /\ calls = <<>> /\ ~refused /\ index' = index + 1 /\ ~committing'
        /\ UNCHANGED <<transcript, pending, outcome, driver, said, oddity>>
    BY <1>4 DEF Committed, storeVars, texts, serverVars
  <2>2. NextIndex = index + 1 /\ NextIndex' = index + 1
    BY <2>1 DEF NextIndex
  <2>3. driver # "failed"
    BY <2>1 DEF CallsMatch
  <2> QED
    BY <1>0, <2>1, <2>2, <2>3, ShownUnmoved
<1>5. CASE DriverMoves
  <2>1. /\ UNCHANGED <<transcript, pending, outcome, calls, refused, index, committing, said, oddity>>
        /\ Idle /\ driver \notin {"done", "failed"} /\ driver' # "failed"
        /\ driver' = "done" => done
    BY <1>5, DriverMovesDo DEF storeVars, texts, serverVars
  <2>2. NextIndex' = NextIndex
    BY <2>1 DEF NextIndex
  <2>3. CASE driver' # "done"
    BY <1>0, <2>1, <2>2, <2>3, ShownUnmoved
  <2>4. CASE driver' = "done"
    <3>1. outcome \in {"none", "error"} /\ toClient = <<>>
      BY <1>0, <2>1, <2>4 DEF BudgetInv, BudgetTypes, EndOnWire
    <3>2. Shown' = Shown /\ \A k : SaidUpTo(k)' = SaidUpTo(k')
      BY <2>1 DEF Shown, SaidUpTo, NonBlank
    <3>3. ASSUME Texts = {}, oddity # "unidentified"
          PROVE  /\ outcome = "none" => Shown = SaidUpTo(NextIndex) /\ Shown = SaidUpTo(said)
                 /\ \E k \in 0..said : Shown = SaidUpTo(k)
      <4>1. NextIndex = said
        BY <2>1, <3>1, <3>3, AllHeard
      <4> QED
        BY <2>1, <3>3, <4>1 DEF ShownSoFar
    <3> QED
      BY <1>0, <2>1, <2>2, <2>4, <3>1, <3>2, <3>3 DEF ShownSoFar
  <2> QED
    BY <2>3, <2>4
<1>6. CASE CheckFails \/ DriverFails
  <2>1. /\ UNCHANGED <<transcript, pending, outcome, said, oddity>>
        /\ driver' = "failed" /\ driver # "done"
    BY <1>6, GivingUpDoes DEF Active, storeVars, texts, serverVars
  <2> QED
    BY <1>0, <2>1, ShownUnmoved
<1>7. CASE Settles
  <2>1. PICK result \in {"ok", "error"} : Settle(result) /\ (result = "ok" => driver = "done")
    BY <1>7, SettlingDoes
  <2>2. UNCHANGED <<driver, said, oddity>> /\ outcome = "none"
    BY <1>7, SettlingDoes DEF serverVars
  <2>3. outcome' = result /\ pending' = {} /\ transcript' = transcript \o InOrder(WithText(pending))
    BY <2>1 DEF Settle
  <2>4. transcript' = transcript
    <3>1. WithText(pending) = {}
      BY <1>0 DEF WithText
    <3>2. transcript' = transcript \o <<>>
      BY <2>3, <3>1, OrderOfFew
    <3> QED
      BY <3>2, ConcatEmptySeq DEF StoreInv, StoreTypes
  <2> QED
    BY <1>0, <2>1, <2>2, <2>3, <2>4, ShownUnmoved
<1>8. CASE ServerNext
  <2>1. UNCHANGED <<transcript, pending, outcome, calls, refused, index, committing, driver>>
    BY <1>8, ServerDoes DEF storeVars, texts
  <2>2. NextIndex' = NextIndex
    BY <2>1 DEF NextIndex
  <2>3. (oddity' = oddity \/ oddity = "none") /\ said' \in {said, said + 1}
    BY <1>8, ServerDoes
  <2>4. driver = "done" => said' = said
    <3>1. driver = "done" => server = "finished"
      BY DEF EndOnWire
    <3>2. server = "finished" => said' = said
      BY <1>8, ServerDoes
    <3> QED
      BY <3>1, <3>2
  <2> QED
    BY <1>0, <2>1, <2>2, <2>3, <2>4, ShownUnmoved
<1>9. DashScopeNext \/ UNCHANGED vars
  OBVIOUS
<1> QED
  BY <1>1, <1>2, <1>3, <1>4, <1>5, <1>6, <1>7, <1>8, <1>9, StepKinds

-----------------------------------------------------------------------------
\* The invariant.
LEMMA DashInvInit == DashScopeInit => DashInv
<1> SUFFICES ASSUME DashScopeInit PROVE DashInv
  OBVIOUS
<1>1. SinkInit /\ Init /\ calls = <<>> /\ refused = FALSE
  BY DEF DashScopeInit, SinkInit
<1>2. StoreInv /\ BudgetInv /\ DashTypes
  BY <1>1, InitStore, InitBudget, TypesInit
<1>3. SinkInv
  BY <1>1, SinkStarts
<1>4. /\ driver = "start" /\ done = FALSE /\ index = 0 /\ completedSentences = {} /\ committing = FALSE
      /\ toServer = <<"run-task">> /\ toClient = <<>> /\ server = "idle" /\ said = 0 /\ oddity = "none"
  BY DEF DashScopeInit
<1>5. HeardInTurn
  <2>1. Len(toClient) = 0
    BY <1>4
  <2>2. Due(toClient, 0, said) /\ InTurn(toClient, 0, said)
    BY <1>4, <2>1 DEF Due, InTurn
  <2>3. AgainOnce(toClient, 0, 0, oddity)
    BY <2>1 DEF AgainOnce
  <2>4. FinalsOnWire(0, 0)
    BY <1>4, <2>2, <2>3 DEF FinalsOnWire, Counted
  <2> QED
    BY <1>4, <2>4 DEF HeardInTurn
<1>6. EndOnWire
  <2>1. Len(toClient) = 0 /\ Len(toServer) = 1
    BY <1>4
  <2> QED
    BY <1>4, <2>1 DEF EndOnWire
<1>7. CallsMatch
  BY <1>1, <1>4 DEF CallsMatch
<1>8. NextIndex = 0
  BY <1>4 DEF NextIndex
<1>9. StoreFollows
  BY <1>1, <1>8 DEF Init, StoreFollows, HasPartial, NoPartial
<1>10. ShownSoFar
  <2>1. Shown = <<>> /\ pending = {} /\ outcome = "none"
    BY <1>1 DEF Init, Shown
  <2>2. Shown = SaidUpTo(0)
    BY <2>1, SaidOneMore
  <2> QED
    BY <1>4, <1>8, <2>1, <2>2 DEF ShownSoFar
<1> QED
  BY <1>2, <1>3, <1>5, <1>6, <1>7, <1>9, <1>10 DEF DashInv

\* Every step keeps it.
LEMMA DashInvStep == DashInv /\ [DashScopeNext]_vars => DashInv'
<1> SUFFICES ASSUME DashInv, [DashScopeNext]_vars PROVE DashInv'
  OBVIOUS
<1>1. /\ StoreInv /\ BudgetInv /\ SinkInv /\ DashTypes /\ HeardInTurn /\ EndOnWire /\ CallsMatch
      /\ StoreFollows /\ ShownSoFar /\ pending = {}
  BY DEF DashInv, ShownSoFar
<1>2. StoreInv' /\ BudgetInv' /\ SinkInv'
  BY <1>1, StoreSinkStep
<1>3. DashTypes'
  BY <1>1, TypesStep
<1>4. HeardInTurn'
  BY <1>1, HeardStep
<1>5. EndOnWire'
  BY <1>1, EndStep
<1>6. CallsMatch'
  BY <1>1, CallsStep
<1>7. StoreFollows'
  BY <1>1, FollowsStep
<1>8. ShownSoFar'
  BY <1>1, ShownStep
<1> QED
  BY <1>2, <1>3, <1>4, <1>5, <1>6, <1>7, <1>8 DEF DashInv

-----------------------------------------------------------------------------
\* The driver's indices, its calls, the store and the events on the wire stay
\* together, whatever the driver's texts, the store's limits and the wire's length.
THEOREM DashScopeInvariantHolds == DashScopeSpec => []DashInv
<1>1. DashScopeInit => DashInv
  BY DashInvInit
<1>2. DashInv /\ [DashScopeNext]_vars => DashInv'
  BY DashInvStep
<1> QED
  BY <1>1, <1>2, PTL DEF DashScopeSpec

\* Between two events the driver's index is the store's, nothing waits for an earlier
\* index, and the only partial is the next sentence's: also when the text processor
\* rewrites texts and when finals without an identity come twice.
THEOREM IndicesAgree == DashScopeSpec => []IndexIsNext
<1>1. DashInv => IndexIsNext
  <2> SUFFICES ASSUME DashInv, Idle, outcome = "none"
               PROVE  /\ nextSegment = index /\ pending = {}
                      /\ \A id \in Ids : HasPartial(id) => id = Name[index]
    BY DEF IndexIsNext
  <2>1. ~refused /\ NextIndex = index
    BY NextIndexIs DEF Idle
  <2> QED
    BY <2>1 DEF DashInv, StoreFollows, ShownSoFar
<1> QED
  BY <1>1, DashScopeInvariantHolds, PTL

\* With texts that no processor rewrites, the host reads the server's sentences in their
\* order, each once, and a finish that returns has them all.
THEOREM TranscriptIsAsSaid == ASSUME Texts = {} PROVE DashScopeSpec => []TranscriptAsSaid
<1>1. DashInv => SaysWhatWasSaid
  <2> SUFFICES ASSUME DashInv, oddity # "unidentified"
               PROVE  /\ IsPrefix(Shown, Said)
                      /\ driver = "done" /\ outcome # "error" => Shown = Said
    BY DEF SaysWhatWasSaid
  <2>1. said \in 0..Len(Says) /\ Len(Says) \in Nat
    BY SaysTyped DEF DashInv, DashTypes
  <2>2. Said = SaidUpTo(said)
    BY DEF Said, SaidUpTo
  <2>3. PICK n \in 0..said : Shown = SaidUpTo(n)
    BY DEF DashInv, ShownSoFar
  <2>4. n \in 0..Len(Says) /\ said \in n..Len(Says)
    BY <2>1
  <2>5. BeginsWith(SaidUpTo(said), SaidUpTo(n))
    BY <2>4, SaidGrows
  <2>6. IsPrefix(SaidUpTo(n), SaidUpTo(said))
    BY <2>1, <2>4, <2>5, SaidTyped, PrefixIs
  <2>7. driver = "done" /\ outcome # "error" => Shown = SaidUpTo(said)
    BY DEF DashInv, ShownSoFar
  <2> QED
    BY <2>2, <2>3, <2>6, <2>7
<1>2. DashInv /\ IndexIsNext => TranscriptAsSaid
  BY <1>1 DEF TranscriptAsSaid
<1> QED
  BY <1>2, DashScopeInvariantHolds, IndicesAgree, PTL
=============================================================================
