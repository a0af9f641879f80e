# Verification of asr-core

`asr-core` is a speech recognition library: a host prepares an `Engine` from a
configuration, opens sessions on it, pushes audio into a session from its own
threads, and reads partial texts and confirmed segments back, either live or as
the result of `finish`. Recognition itself is done by a native recogniser or by
a remote service, behind a driver that a worker thread of the session runs.

This directory models what the library itself is responsible for, the order of
things between the host's threads, the worker, the driver and the subscriber,
and checks it with TLC on small instances and, where marked, for every instance
with TLAPS.

## Inventory

Paths are relative to `src/src/`.

| part | code | state | operations | what must be right |
|---|---|---|---|---|
| Result store | `session/results.rs` | partials, pending and unindexed finals, transcript, ids, byte counts | `register_id`, `set_partial`, `append_delta`, `commit`, `index_unindexed`, `complete_unindexed`, `settle` | finals leave in index order, once, unaltered; limits and hand-kept byte counts are exact; no success with a final missing |
| Live subscription | `session/observe.rs`, parts of `coordinator.rs` | bounded queue of updates, `needs_reset` | `subscribe`, `recv`, drop; called by every change of results or phase | the host's view agrees with the session after coalescing, overflow and Resets; no lost wakeup; the last thing read is the final view |
| Session coordinator | `coordinator.rs`, `session/state.rs` | lifecycle, outcome, input queue, deadline | `try_push`, `push_wait`, `finish`, `cancel`, drop | one outcome, the same for all; input limits; every blocking call returns |
| Worker | `session/worker.rs`, end of `coordinator.rs` | chunk in flight, permit | the loop check / take / push / poll / wait / finish | good result only after every chunk; woken for all it waits for; the permit comes back |
| ResultSink | `session/driver.rs` | cancellation view, text processor | forwards driver results to the store | a processor that runs unlocked does not put text in the wrong place |
| Engine | `engine.rs` | permits, prepared resources, network cache | `prepare`, `start`, `transcribe` | permits are never lost; a failed preparation is not remembered; one deadline per transcription |
| Engine manager | `utils/manager.rs` | generation, request, available engine, errors, handle count | `request_reload`, `get`, `last_available`, `status`, `wait`, clone, drop; loader thread | only the latest generation is published; `wait` answers for the right request; the loader stops with the last handle |
| Realtime protocol | `backends/realtime.rs` | items, commits, finish barrier | server events, finish | finals before commits, acknowledgement of the finish, no early completion |
| DashScope protocol | `backends/dashscope.rs` | task state, index, seen identities | server events, finish | every sentence once and in order, whatever is repeated or misrouted; finish ends |
| Network, WebSocket | `backends/network.rs`, `backends/websocket.rs` | one stored notification per session, a connection | `run`: check, end, wait; send, receive, close with limits | every wait ends at cancellation or its limit, and misses neither |
| HTTP, SSE | `backends/http.rs` | samples or segments held, next index, request, parser | push, drain, request with its stages, response, commit; `SseParser` | each segment gets its own text, once and in order; events split anywhere parse the same |
| Local recognisers, VAD, punctuation | `backends/local.rs`, `vad.rs`, `punct.rs` | native handles, text shown last, next index | push, finish; decoding loop, drain of segments | each utterance confirmed once and in order; the partial is the utterance's own |
| Capture | `capture.rs` | device stream, ring, fault flags, `stop` | callback, drain thread, start, finish, cancel | no captured chunk lost before finish; faults reach the host |
| Audio, resampler | `audio.rs`, `audio/resample.rs`, `utils/audio.rs` | frames that wait, delay still to cut, frames due | `try_push`, `finish` | exactly the frames that are due, none lost at the end or repeated |
| Models, downloads | `utils/models.rs`, `utils/download.rs` | the final path, part files | `ensure`, `fetch`, publication | a crash leaves no half model; what was verified stays; parts are cleaned up and never shared |
| Layout, prechecks, hotwords, config, errors, deadlines | the rest | none | validation | - |

Parts interact in four ways. The host calls the session's methods on its own
threads. The worker thread of a session calls its driver, and the driver calls
back into the session through the sink. All of them share one mutex and one
condition variable per session (`Shared`). A subscriber waits on the same
condition variable. The engine manager has a mutex and a condition variable of
its own, between the host's threads and its loader. Drivers that wait for the
network do so outside all locks, and are told of changes of their session by a
`tokio::sync::Notify`, which stores one notification. Downloads of different
processes meet only in the file system.

The hard part is everywhere the same: state is checked, the lock released, and
the conclusion used later; notifications follow the critical section instead of
being part of it; a final, a chunk or a loaded engine arrives after what it
belonged to is over.

## Modules

| module | models | checked by |
|---|---|---|
| `Segments` | segments and the operators on sets of them that store and log share | through the modules that use it |
| `ResultStore` | `session/results.rs`, one action per call | through `ResultLedger` and `LiveView` |
| `ResultStore_proofs` | theorems about `ResultStore` and `ResultLedger` | `tlapm` |
| `FinalLog` | the promise about finals, abstractly: a ledger of finals, a transcript that is its gapless part | as a property of `ResultLedger` |
| `ResultLedger` | `ResultStore` with a history variable and its refinement of `FinalLog` | `MCResultLedger.cfg` |
| `ResultSink` | `session/driver.rs` in front of the store: preflight, text processor, commit | through `Realtime` and `DashScope` |
| `Realtime` | `backends/realtime.rs` on top of `ResultSink`, and the server it talks to | `MCRealtime*.cfg` |
| `Realtime_proofs` | theorems about `Realtime` and `ResultSink` | `tlapm` |
| `Engine` | `engine.rs`, the end of `coordinator.rs`: calls of `start` and `transcribe`, permits, the network slot, session threads | `MCEngine.cfg` |
| `Engine_proofs` | theorems about `Engine` | `tlapm` |
| `DashScope` | `backends/dashscope.rs` on top of `ResultSink`, and its server | `MCNetwork.cfg` |
| `HttpDriver` | the driver of `backends/http.rs`, and `Network::run` of `backends/network.rs` around its requests | `MCNetwork.cfg` |
| `Network_proofs` | theorems about `HttpDriver` and `DashScope` | `tlapm` |
| `Sse` | `SseParser` of `backends/http.rs`, byte by byte, and a reference for it | `MCParts.cfg` |
| `LocalDriver` | `backends/local.rs`, both drivers, and the queue of segments of `vad.rs` | `MCParts.cfg` |
| `Resampler` | `audio/resample.rs`: which frames come out | `MCParts.cfg` |
| `Download` | `utils/download.rs`: processes on one directory, with crashes | `MCParts.cfg` |
| `Parts_proofs` | theorems about `Download`, `LocalDriver`, `Capture`, `Resampler` and `Sse` | `tlapm` |
| `Capture` | `capture.rs`: callback, ring, drain thread, host; the session as input and outcome | `MCParts.cfg`, `MCCaptureTail.cfg` |
| `LiveView` | `session/observe.rs`, the coordinator's calls into it, the subscriber and its host, on top of `ResultStore` | `MCLiveView*.cfg` |
| `LiveView_proofs` | theorems about `LiveView` | `tlapm` |
| `Session` | `coordinator.rs`, `session/worker.rs`, `session/state.rs`: host threads, worker, driver, clock, condition variable | `MCSession*.cfg` |
| `SessionPromise` | the session contract of the crate's README, abstractly | as a property of `Session` |
| `Session_proofs` | theorems about `Session` | `tlapm` |
| `EngineManager` | `utils/manager.rs`: handles, requests, waits, the loader thread, its condition variable | `MCEngineManager*.cfg` |
| `HotSwap` | what the manager promises, abstractly: one latest request that is loading, ready or failed | as a property of `EngineManager` |
| `EngineManager_proofs` | theorems about `EngineManager` | `tlapm` |

The `MC*` modules give the constants values. `MCNetwork` and `MCParts` put parts
that share no state into one run: `part` is chosen in the initial state, a
behaviour is one of that part's specification, and the variables of the others stay
at one initial value. So the states are the sum of the parts', not the product, and
the fairness is each part's own.

### ResultStore

The driver is the only caller, and it calls under the session lock, so every
call is one action, and `reply` is what it returns. Texts are sequences of
characters of one byte; `sp` is a white one, so `<<sp>>` is a text that is
blank without being empty. `revision` counts to `MaxRevision`, which stands for
`u64::MAX`. A partial of revision 0 stands for "no partial". Once the outcome is
set, the coordinator calls the store no more, and the actions have that guard.

What could go wrong: the transcript is drained as gaps close, which a late
index of an unindexed final can do as well as a commit; a blank final closes a
gap and leaves nothing; the limit on pending finals must not count a final that
fills the gap; the byte count is kept by hand across replacing, moving and
settling, with saturating subtractions. `BudgetsAccounted`
(`TypeOK`, `BytesAccounted`, `IdsAccounted`) and `FinalsInPlace` (`UnindexedHome`,
`FinalsHome`, `TranscriptOrdered`) say this piece by piece, and `ImplementsFinalLog` says it as a whole: the store does
what a plain set of accepted finals would do. The history variable is needed
because a blank final leaves the store without a trace.

### LiveView

All of `observe.rs` is translated as operators on the queue (`ObservePhase`,
`ObservePartial`, `ObserveFinals`, `ObserveRemoval`, `ObserveTerminal`), and each call
of the coordinator is one action that changes the store and the queue together.
A call that has changed something still has to notify: its thread is in
`signalling` until `Signal`. The host rebuilds its view as
`examples/microphone.rs` does. `ViewConverges` is the heart of it: whatever was
coalesced, reading what is queued gives the host the session's transcript,
phase and live partials (`IncrementsSuffice`), a partial never stands beside its own final
(`NoPartialBesideItsFinal`), and a host whose stream has ended has the final view
(`DisconnectedHostIsUpToDate`).

`ConfirmedPartialsAreRemoved` is what `docs/architecture.md` line 23 promises,
and `live_view_stale` shows that the code does not keep it. `final_segments`
asks for a Reset only when the commit removed a partial and drained no segment.
A blank final of `a` that fills the gap in front of a pending final of `b`
drains `b` alone, so the host gets a Segment of `b`, nothing about `a`, and keeps
the partial of `a` until some other reason for a Reset, at the latest the end.
`ViewConverges` says exactly how far it can deviate: only by ids whose final was
blank.

### ResultSink and Realtime

A driver handles one thing at a time. `calls` is what it still has to call for it,
and each call takes the session lock once, so that the host can settle the session
between any two. A final takes two: `Preflight`, and the store's own call with
the text that the processor has made meanwhile. `PreflightHolds` is the contract
between two pieces of code that repeat each other's checks, `preflight_commit` and
`commit`; the realtime run checks it, with the finals of that driver.

`Realtime` is a driver on top of that. `event` is the event it is in the middle of,
`driver` the call of the worker it is in: `"start"`, `"run"` (poll), `"barrier"` and
`"finish"` are the wait loops of `start`, `poll` and `finish`. Both directions of the wire are
sequences. The server is external and modelled from what the driver expects: it
cuts items by itself with server VAD, answers updates and the commit in the order it
reads them, transcribes whatever it has cut, is listening to or will drop
(`Stray`), when it likes, and may repeat one announcement or final.
Text is the same every time an item is transcribed, as repeated finals are ignored
by id.

The driver keeps a record of items next to the store's own, and only the pair is
correct: `DriverAgreesWithStore`. `FinishIsComplete` has two parts: `NothingIsLost` is why the finish predicate has
three conditions, `AllHeard` is the purpose of the VAD barrier: the answer is
the one to the last commit, and nothing the server has heard is left out.

It has an exception. Any announcement during the finish counts as the
acknowledgement, a repeated one too, so `FinishIsAcknowledged`, which is what the
comment on `finish_settled` says, fails in `realtime_ack`: the server repeats the
announcement of a completed item before it gets to the explicit commit, and the
session ends well without the rest of the audio. `FinishIsComplete` asks for `AllHeard` of servers
that do not repeat announcements.

### DashScope

Built like `Realtime`, on another protocol: the server says one sentence after the
other and the driver counts them, so that the only order to get wrong is its own
count. What it defends against comes from the wire, and `oddity` does one of it in each
behaviour: a partial or final is delivered again, an event of another task
comes, or one that names no task (which `task-started` and `task-finished` may always
do). A sentence has an identity of its own or none (`Identified`); without one a
second delivery is a new sentence, as the comment on `completed_identity` says, and
`TranscriptAsSaid` excludes just that. Two sentences in a row say the same, since to take
the text for an identity drops the second. A conjunct of it, `IndexIsNext`, relates the driver's
count to the store: no gap ever opens, and the partial is that of the next sentence.
The text processor leaves texts alone here (`Texts = {}`).

### Capture

Three threads without a lock: the device's callback, the drain thread and the host.
Each atomic load and store, and each sample popped, is a step; `drain` is the program
counter of the drain thread. The callback's failed `try_push` and the store of its
flag are two steps. Samples are numbered as the device delivers them. That dropping
a `cpal::Stream` waits for a callback that runs is assumed of the library. The
session is reduced to what it does to the drain thread (`Session` is the model of it):
it takes or refuses a chunk under its lock, and settles once.

`CapturedInOrder` follows every sample from the callback to the driver. It leaves
the ring of a session that has ended well out of account, for a reason: the drain thread
looks at `stop` after it has found the ring empty, so samples that come between the two,
with the host stopping in the same window, stay in the ring. The comment on
`CaptureSession` says that stopping drains the ring first; this is
`StopDrainsTheRing`, and it fails in `capture_tail`. A fault in that window is not
reported either, for the same reason. `CaptureEnds` says that a fault and a finish end the capture; the part about faults,
`FaultEndsCapture`, is why the flags are looked at again between two attempts to push: the
driver may hang.

### HttpDriver

`place` is where the driver is between the calls of the worker. With voice detection
(`utterances`) a push cuts any number of segments and `drain` transcribes them one after the other;
without, the recording is held and is one segment at the finish. Segments are numbered as they are cut;
`taken` is the one whose request is under way, `nextIndex` the index its text will get. A request is a
record: `run` is its place in `Network::run`, which checks the session under its lock
(`"check"`), takes the lock again to work out the end (`"limit"`) and then selects among the notification,
the end and the work itself (`"select"`). Host and worker change the session under the lock and notify
after it (`signalling`, `Signal`), and the notification is stored if nobody waits: `permit`.
The driver's own partials notify it too. So the hazard is exact: settle or set a nearer deadline between
any two of these steps. `NoLostCancel` says that a waiting driver then knows or will be told; it does not say that
a check sees it, as a check that was passed just before is of no use.

`Uploads` and `Answers` are the transport: it may answer before the upload ends, drop the rest of the
body, refuse or break; `stage` is what the loop of `send_request` last saw. The limit of a stage or of the response may
pass whenever it runs (`StageTimesOut`, `RunTimesOut`), which covers every configuration of limits.
`ServerSends` and `ServerEnds` are the response: chunks that say nothing, a delta, the final text or an error,
and its end at any time. Its length counts, also in chunks that say nothing. A commit of a settled session is without effect or an
error, as `ResultSink` says. Of the chunks' bytes `Sse` is the model.

### Sse

The parser keeps the bytes of an unfinished event and three positions in them, and a chunk may end anywhere:
inside a character, between CR and LF, inside an event. A line is the data it carries. `Turn` is one turn of
`push`'s loop, `Push` and `Finish` are the two calls, with `changed` and the result they return. The reference `WholeBody` knows nothing of
chunks or positions: it normalises line ends, cuts at blank lines, and looks for the first event that is final or
bad. `SseAsWhole` compares the two at the end of every response.

### LocalDriver

The recogniser is external: with each chunk it may hear any of a few texts and an endpoint. A decoding step checks the session first, so the host
can settle it between any two. A partial is shown only when its text differs from the one shown last, so the
text has to be forgotten with its utterance (`Cleared`): otherwise the next utterance that begins alike shows nothing.
The offline driver recognises each segment in `drain`. `LocalTranscript` follows an utterance from the recogniser to the host.

### Resampler

Frames of output are numbers, so that one lost, repeated or left uncut shows. The filter is external: after each block it has made
all frames up to its lag, and any lag up to `MaxLag` (half the window, the frame it stands on, one step of input) is tried, as the
crate that filters does not promise one. `TryPush` filters all blocks that are complete, holding back what is not due (`RoomLeft`); `FinishResampling`
pads the rest and feeds zeros until all that is due is out, at most `FlushBlocks` times, and fails otherwise. `ResampledExactly` says that it never does.
`ResamplerAssumption` names what this needs of rates and window: the delay is at least a frame and the lag at most a block. In the code blocks and window have 256 frames and rates are
from 8000 to 192000, so the delay is at least 5 frames and the lag at most 153. A lag of more than a block could outlast the flush: the block that `finish` pads
may hold all but one frame, and then only the two blocks of rounding are left for it.
The model is of integers: a rate pair stands for its ratio, and `Block` and `Window` are scaled down together.

### Download

A process is one call of `ensure` or `fetch`; a program that is started again is another process. Each call of the file system is a step: look at the
metadata, read, create the part by a name that must be new, write a block, sync, look again before publishing, remove a link (Windows), rename,
look again after it, remove the part. Where the code looks twice with nothing between that could act on the
difference (the kind and then the contents of a file), it is one `Look` and the `Read`; a second removal of a part by its guard does nothing and is left out.
`leftover` are the parts nobody will remove any more: of crashed processes, or whose removal failed. `before` is what was at the final path before the
library wrote to it.

`Crash` ends one process between any two steps. `PowerLoss` ends all of them, spoils what was not synced, and may undo the last
rename, as nothing syncs the directory. `Meddle` is another program at the final path. Both set `disturbed`, which `OkIsVerified`
excludes: what was verified cannot survive a program that overwrites it. `disturbed` is also true from the start on Windows with a link
at the final path: there `publish` finds the link, and removes it in a second step, and between the two another process may have published the
whole file, which is then removed until this process has renamed its own. `FinalIsWhole` has no such premise.

### Engine

Each call of `start` or `transcribe` is a process with a place `pc`; it starts at most
one session, whose thread (`worker`) and input, outcome and deadline are per call
as well. The session is what engine and host see of `Session`. Which limit or
hint a refused call broke is left out; that it may be refused at each of those points, before
and after it has its permit, is not. The engine's backend is one that needs
the network: the slot's mutex is held from the look at the slot to the store
(`slotLock`), and a build that fails or panics leaves the slot empty.

`PermitsAccounted` counts permits against the two who can hold one, the call before its thread
runs and the thread after that. `TranscribesInFull` is the subtle one. When the deadline
ends the pushing, `transcribe` calls `finish`, which closes the input exactly as for a
complete recording. A worker that passed its check before the deadline then
finds an empty queue and a session that is finishing, and its driver finishes in
the ordinary way. Between that and a truncated text reported as good stands
the last line of `run`, a check of the deadline after the driver has finished: `LastCheck`.

### Session

A thread is running, in `waiting` (inside `wait` or `wait_timeout`), or in
`signalling` (it has released the lock after a change and has not yet called
`notify_all`). A critical section is one action; what the code does with the lock
released is a program counter: `wpc` for the worker, `push[p].pc` inside
`push_wait` (`"full"` is between the failed attempt and the second look that waits),
`finish[f].pc` inside `finish`. The driver may at each call return, fail, panic or
hand a final to the sink, whose check is outside the lock (`SinkCheck`) and whose
commit is inside (`SinkCommit`). `WakeUp` is a wait that ends by timeout or
spuriously. Cancellation, a dropped session, a capture that fails and
`fail_input` are `Cancel`.

The clock only moves by `Tick`. A deadline may be met at any moment after it.

### EngineManager

Threads, `waiting` and `signalling` are as in `Session`. A configuration, the
engine prepared from it and the error of its preparation all carry the number of
the request they came with, so that a snapshot or an answer taken for the wrong
request shows. Of the 400 ms debounce and of deadlines only whether they have
passed is kept: `due` and `call[h].late`, which `ComesDue` and `DeadlinePasses` set at
any time. `lpc` is the loader's place: `"sleep"` is the wait without and `"doze"` the wait
with a limit, `"load"` is the preparation outside the lock. A host thread has at
most one handle; `"last"` is between the decrement that found the last handle
and the lock that `Drop` then takes. A manager whose loader thread could not be
spawned is an initial state. `get` is the operator `Get`, in terms of which
`ImplementsHotSwap` is stated; `last_available` and `status` read the same variables.

The hazard is the load that ends late: its generation was taken with the
configuration, the lock was released, and newer requests came since.
`ImplementsHotSwap` says that such a load leaves no trace, and that `get` returns an
engine exactly when the latest request is ready.

## Runs

`tlc -workers 2 -config X.cfg M` in this directory; each ends within about three minutes.

| run | cfg | shows | bounds |
|---|---|---|---|
| ledger | `MCResultLedger.cfg` | order, place, bytes and ids of finals; `ResultStore` implements `FinalLog` | 4 ids (one longer), 4 indices, 3 texts (empty, blank, one character), room for 2 bytes, 3 registered and 2 outstanding ids, 2 pending and 2 unindexed finals, 1 partial, revisions to 2 |
| live_view | `MCLiveView.cfg` | the host's view and its wakeups; the stream ends | 2 ids, 2 indices, queue of 2, revisions to 2 |
| live_view_stale | `MCLiveViewStale.cfg` | the disagreement above | same; fails by intent |
| realtime | `MCRealtime.cfg` | preflight against commit; driver and store agree; finish hears all, loses nothing and ends | 2 items, the second silent, and 1 stray; a delta, a final and one repetition each; with and without server VAD; 1 chunk and the silence, 2 events on the wire, 1 unindexed final |
| realtime_ack | `MCRealtimeAck.cfg` | the disagreement above | same; fails by intent |
| parts | `MCParts.cfg` | capture: samples in order, faults, finish and the drain thread's end; downloads: whole, verified, cleaned up, every call returns; events as the whole response says; exactly the frames due; every utterance once | capture: ring and queue of 2 frames, batches of 2, 4 samples, 3 frames a session; downloads: 2 processes, 2 blocks, 2 names; events: 5 bytes in chunks of 1 or 2, of 7 kinds; resampler: 5 pairs of rates, block and window of 8, 40 frames, every lag; local: 3 texts, 4 chunks, 2 steps |
| capture_tail | `MCCaptureTail.cfg` | the disagreement above | same; fails by intent |
| network | `MCNetwork.cfg` | DashScope: every sentence once, in order; finish ends. HTTP: every segment's text once, in order; no cancellation or deadline missed; requests end | DashScope: 4 sentences, three alike, one blank, two without an identity; a partial and a final each; one oddity; 2 events on the wire, 4 registered ids. HTTP: 1 push, 3 segments, responses of 2 chunks, recordings of 1 sample |
| engine | `MCEngine.cfg` | permits, one network, whole transcriptions, `transcribe` returns | 3 calls, 1 of them of `transcribe`; 2 permits; a recording of 2 chunks, queue of 1 |
| session | `MCSession.cfg` | outcome, promise, input limits, wakeups | 1 producer, 2 finishers (symmetric), empty chunks and chunks of 2 frames, queue of 3 frames and 2 chunks, 4 frames a session, 1 final, 1 tick |
| session_live | `MCSessionLive.cfg` | `finish` and `push_wait` return, the permit comes back | 1 producer, 1 finisher, chunks of 1 frame, queue of 1 frame, 2 frames a session |
| manager | `MCEngineManager.cfg` | publication, answers, wakeups, refinement; waits, loads and the loader end | 2 host threads, 2 requests |

Why the bounds are enough. Two pending finals behind a gap and an unindexed one
give every way a final leaves: at once, by a later commit, by a late index, in
the middle of a run, or at the end. A queue of 2 overflows in the middle of one
commit that releases two segments. Chunks of two frames and room for three
make a producer wait for space that is there but too small. Two finishers give the
shortened wait and the timeout that races with completion, a third would only
wait as well; how several producers compete for the queue is left to the
theorems, which are about any number of threads. Two requests are one being loaded
and one that overtakes it; two threads with a handle each can drop them in either
order, clone, wait and request against each other. One tick is a deadline that has
not passed and then has. Two permits for three calls can leave one call refused; two
builders can meet at the slot, and a third finds what they left. Two items of the realtime server are one cut by VAD and the
one the finish commits, whose transcriptions can cross; the stray is one that never
gets an index. One push of the HTTP driver can cut two segments and the finish a third, so that a request has requests
before and after it, with and without a final of its own; that further pushes behave alike is what the theorems about it show.
A response of two chunks can be just within its limit or exceed it. Two downloads race for one name
with one part left over, each can crash at each step, and two blocks make a torn file; five bytes are an event with CR LF CR LF behind one byte of data, or two events
of LF LF, split everywhere. The five pairs of rates stretch by 2 and 3/2, shrink by 3/2 and 3, or leave the rate alone, and 40 frames are
five blocks. Two decoding steps are one after which the session is settled and one before.

Deadlock checking is off where the system may stop: a settled session whose calls
have all returned has no next step.

### Fairness

`FairLiveSpec`: a thread that released the lock goes on to notify, and the host
that keeps a subscription keeps reading. `HostFairSpec`: the worker's own steps,
the host's calls in progress, notifications and the clock go on; a wait whose
time is up ends. Nothing is assumed of the driver, so what holds under it holds
although a driver hangs: `finish` and `push_wait` return. That the permit comes
back needs the driver's calls to return, which the drivers' own time limits and
cancellation checks are for: `PermitReleased` has this as its premise,
`DriverFairness`; `CallsAndWorkerEnd` is both. In the manager nothing is assumed of a preparation, and `wait`
returns although one hangs; of `CallsAndLoadsEnd` only the ends of loads and of the loader
have its end, `PreparationsEnd`, as their premise.
A host that goes on making requests for ever keeps the debounce from ending;
`MaxGeneration` stops it, so `LoadsEnd` is about loads once the requests stop. `FairRealtimeSpec`: the driver's steps go on, and the server
reads, and sends a final for every item it cuts; that in the end it has cut whatever it
sent a text of is the premise of `FinishEnds`: the driver waits for the announcement of a
final it has got. A driver that fails, by a time limit or otherwise, needs
no fairness. `FairDashScopeSpec` is the same for a server that reads and ends its task.
`FairEngineSpec`: a call that has begun and the clock go on, and so does the building of
a network, which only constructs a client and does not block; nothing is assumed of the session's thread.
`FairHttpSpec`: the driver's steps and notifications go on, and the limit of a response that runs passes; nothing is
assumed of transport and server. `FairDownloadSpec`: a process that runs goes on, its reads of the network being bounded by the
client's time limits. `FairCaptureSpec`: the drain thread, the host's calls in progress, the callback's store and the
clock go on; nothing is assumed of the session's worker, the device or its samples. All are weak fairness: a thread of
the operating system that can go on does. Nobody has to call anything: no
action that starts a call is fair.

## Proofs

`tlapm Session_proofs.tla` proves, for any number of host threads, any limits and
any deadlines, every safety property the session runs check: `TypeCorrect`,
`OutcomeStandsForGood`, `PromiseKept` (refinement of `SessionPromise`),
`FinishersAgree`, `FramesAreAccounted`, `NoWakeupIsLost`.

From `SessionAssumption` only: limits are natural numbers, no chunk is larger than
the queue (`AudioGeometry` refuses others), and producers, finishers and the
worker are different threads.

None of the properties is inductive by itself. `SessionInv` adds to `TypeOK` and
`OutcomeStands`:

- `Closed`: once the session is finishing or settled, it accepts no input; so
  nothing can follow an empty queue;
- `Conserved`: until the outcome, `received = processed + inFlight + queued`;
- `InHand`: a chunk is in flight only where the worker has one in hand;
- `Drained`: at the last steps of the worker's loop the queue is empty, a finish was
  asked for and nothing is in flight. This is why a good result has all
  frames processed;
- `Summed`: `queued` is the sum of the queue. The sum is a recursive function over
  the positions of the queue; lemmas about the sum of a tail and of an
  appended queue are proved by a least counterexample (`WFMin`).

`AllWoken` is the second invariant, on top of the first: a thread in `waiting` has no
reason to go on unless somebody is in `signalling`. Each action that gives a
reason puts its thread in `signalling`, and `Signal` empties `waiting`.

`tlapm EngineManager_proofs.tla` proves every safety property of the manager, for any
number of host threads and requests: `TypeCorrect`, `LoaderServesHolders`,
`AnswersAreForTheirRequests`, `NoWakeupIsLost` and
`PromiseKept` (refinement of `HotSwap`). It assumes that the threads are finitely
many, that the loader is not one of the host's, and that the two error marks are
not requests (`ManagerAssumption`). `ManagerInv` adds to the types: `Counted` (the count is
the number of handles, and only the last one sets `shutdown`), `Ended` (why the
loader can be gone), `Requested` (the pending request is the latest),
`Loaded` (what is being prepared has its own number, and is overtaken when
another request is pending), `Published`, `Busy` (`loading` is true exactly when the
latest request is pending or in preparation) and `Decided` (loading, ready and
failed exclude each other). `Busy` needs the second half of `Loaded`: otherwise a
publication could clear `loading` while a newer request is pending.

`tlapm Engine_proofs.tla` proves the safety properties of the engine, for any finite number
of calls, any limit and any length of recording: `PermitsAreAccounted`,
`NetworkIsShared`, `TranscriptionIsWhole`. `EngineInv` adds to them the types,
`BuildsAlone` (who builds a network holds the lock and has found none), `NoThreadYet` (a
call without a session has no thread, so that a permit is never held twice) and `HeardInFull`, the
argument for whole transcriptions: until the deadline has passed, a closed input means that
everything was pushed (`ClosedInFull`), so a driver that has finished has
heard everything or is late (`FinishedInFull`), and the last check lets only the first
pass (`CheckedInFull`).

`tlapm Parts_proofs.tla` proves the safety properties of downloads for any number of processes, any size and any
number of names (`DownloadAssumption`: both at least one): `OkStaysVerified`, `FinalStaysWhole`, `PartsAreAccounted`.
`DownloadInv` adds to them the types, `PartsOwned` (a part that a process still has is not among those left over),
`PartIsHashed` (what a process has hashed is what is in its part, so what is renamed is the asset, synced),
`FinalIsSynced` (the power cannot spoil what is at the final path) and `NobodyRemoves` (without a disturbance no process
gets to where it would remove what is there).

It also proves `UtterancesAreConfirmed` of the local drivers, for any texts and any number of chunks, decoding steps and segments,
from `LocalAssumption` (the blank text is one of those that may be heard). `LocalInv` has `WaitInOrder` and `FinalsCount` (finals and the segments that wait are those of all
utterances so far, in order), `OneDriver` (what the streaming and the offline driver never do, and what is left at the end) and `ShownLast` (the host sees the text
the driver remembers).

It proves `CaptureIsInOrder` of the capture, for any sizes of ring, chunks and queue and any number of samples. `CaptureInv` adds to `CapturedInOrder`
the types, `HandIsOnItsWay` (the drain thread holds samples only between a pop and a push, so that nothing is in its hand when it looks at `stop` or ends) and `ClosedWhenDrained` (a session that
goes on is closed only by a finish that has seen the drain thread end, so the input has been heard when it ends well). `FaultsStay` is why a fault may be left out of account in
every step: none is forgotten. The rest moves samples along the line from the ring to the driver, for which `FlattenRuns`, `FlattenAppend` and `FlattenTail` say what a
queue of chunks is as one sequence.

And it proves `ResamplingIsExact` of the resampler, for any rates, block and window that `ResamplerAssumption` admits, any lag and any way of splitting the input.
`ResamplerInv` says what the state is and not only what it is not: after `c` blocks what has come out is the frames from the delay to the last one that `c` blocks make,
and nothing was held back (`AllBlocksFiltered`; `NothingHeldBack` is why the limit does not bite before the flush). `FilteredRuns` and `FilteredKeeps` carry this through the fold over any number of blocks.
`EnoughBlocks` is the argument for the flush: with the padded block, those of the delay and two more the filter has made all that is due, whatever its lag, so `finish` stops
at the first count that suffices and never fails (`FlushedInTime`, `FinishKeeps`). It needs facts on division with a variable divisor (`CeilDivIs`, `ModIs`, `Cancels`) that are proved beside it.

Last, it proves `ResponsesAreReadAsWhole` of the parser of events: however a response is split into chunks, what the parser has made of it when it is over is what `WholeBody` says of the whole.
It holds for any bytes, lengths and sizes of chunks, from `SseAssumption` (CR and LF are different bytes, neither is part of a longer character, and the bounds are natural numbers). `SseAsWhole` says
nothing until the response is over, so `SseInv` says what the parser holds before (`Held`): `pending` is the end of the body from a position `s` on, and everything is read but a CR at the end
(`AllButCr`), about which the next byte decides. `HasRead` says what it means that the bytes up to `a` are read: the event at hand begins behind `s` and its line behind `l`, neither `s` nor `a` parts
CR from LF (`Between`), and `partial` is what all events so far say, none of them final or bad (`SaysSoFar`). The argument has three layers:

- What is read is compared with the whole by its text, with line ends normalised. The text of a beginning is a beginning of the whole's text, if it does not part CR from LF (`NormalisedBegins`), and has the
  same events (`SameEvents`). The parser hands an event's bytes over with its blank line, not normalised, the reference without one, normalised: both say the same (`EventAlike`, `BlankLine`).
- Each turn of the loop keeps `HasRead` (`TurnKeeps`): on a byte of a line, on the end of a line, and on the blank line that ends an event that goes on or the response (`ReadsOther`, `ReadsLine`,
  `ReadsEvent`, `ReadsLast`).
- `TurnsRun` and `LoopKeeps` carry this through the fold that is `push`'s loop. `ReadOn` appends a chunk to what was read, `PushHolds` is one call of `push`, and at the end of the body `ReadsAll` and
  `FinishIs` say that nothing remains to be said but a last event without a blank line.

`tlapm Network_proofs.tla` proves the safety properties of the HTTP driver for any limits and any number of pushes and
segments: `SegmentsAreServed` and `RequestsAreTold`, from `HttpAssumption` (the bounds are natural numbers). `HttpInv` adds to `TranscriptAsServed` and
`NoLostCancel` the types, `SegmentsInOrder` (those that wait are the last that were cut; the one taken is before them),
`FinalsCounted` (finals, the one under way and those that wait are all that were cut, while the session is not settled),
`OneRecording` (without voice detection there is one segment, cut at the finish) and `ToldOfTheEnd`
(`NoLostCancel` for the step between the check and the wait).

`tlapm ResultStore_proofs.tla` proves `FinalsAreInPlace` for any ids, texts, indices and limits, from the assumptions that limits and
indices are natural numbers and that the two marks of `completed` are not (`LimitsAssumption`, `InputsAssumption`, `MarksAssumption`). `StoreInv` adds
to `FinalsInPlace` the types, that finitely many finals are pending, and `UnindexedOnce`. `GapFound` and `OrderFound` are what `drain_contiguous` rests on: there
is a first missing index, by the pigeonhole principle, and segments of different indices have an order, by their ranks. `DrainKeeps` is the argument:
what is drained lies between the old and the new first missing index, so behind everything confirmed and before everything that goes on waiting.

The same module proves `BudgetsAreAccounted`. The byte counts are sums over sets (`MapThenSumSet`), and `TotalTakes` is the one fact all the others come from:
an element taken out of a finite set takes its weight along. A sum is shown to exist for each cardinality by a least counterexample
(`SumExists`, `SumsAgree`), and `TotalSplits`, `TextBytesJoin`, `PartialReplaced`, `IdBytesAdd` follow. `BudgetInv` says what is counted without a
subtraction, and each call's step shows that a subtraction takes off only what has been counted.
`FinalLogIsImplemented` proves the refinement of `FinalLog`. `LedgerInv` ties the history variable to the store: a final of the
ledger is in the transcript, pending, or blank and below `nextSegment`; `EnterStep` shows that the new prefix without a gap, and so
the abstract transcript, is the old one with what is drained behind it (`FirstGapIs`, `OrderIs`, `OrderJoins`).

`tlapm LiveView_proofs.tla` proves `NoWakeupIsLost` and `EndIsUpToDate`, for any capacity of the queue. `LiveInv` adds to `NoLostWakeup` only `EndsWithReset`: once
the session is settled, there is one Reset to read, or it has been read and nothing has changed since.

It also proves, for any texts, indices and limits, that the increments are the changes: `HostConverges` (`ViewConverges`) and `HostGoesOn`
(`HostNeverGoesBack`). `ViewConverges` speaks of a host that reads the whole queue, so the queue is folded into the host's view:
`FoldRuns` and the lemmas after it say what a fold over an appended or a shortened queue gives, by induction over the queue's length (`AllSequences`).
`ViewInv` adds to `StoreInv` the types (`ViewTypes`), `SettledIsClear` (a settled store has no partials), `HostBehind` (what the host has
confirmed is a prefix of the transcript), `OldRevisions` (no revision the host or the queue knows is newer than the store's),
`QueuedAreLatest` (coalescing leaves one update per id, of the store's revision), `IncrementsWork` (reading the queue
makes of the host's view the store's) and `NoPartialBesideItsFinal`. The last needs `FinalsInPlace`, which is why the proof stands on `StoreStep`.

`tlapm Realtime_proofs.tla` proves every safety property of the realtime driver that the run `realtime` checks: `PreflightIsKept`, `RecordsAgree`,
`SegmentsAreAsSpoken` and `FinishHasEverything`, for any items, texts, limits, audio and lengths of the wire. To the store's assumptions it adds that the server's
items are different ids (`ServerAssumption`; to announce one again is `ServerRepeats`) and that no event is `Nothing`. It stands on `StoreStep`, which holds for any sequence of
calls (`AnyCall`), and on `SinkKeeps`: whatever a driver calls, a preflight's promise survives until its own store call, as only the one driver calls the store.
`RealtimeInv` has two halves besides the types:

- `RecordInv`, the driver's and the store's record. `ItemsAsCut`: both number items in the order of the server. `CommitsInOrder`: the next announcement the
  driver will hear of an item it does not know is that of the next item, whatever is repeated between (`Announced`, with a lemma for each way in which the wire
  changes). `CallsMatch` and `Agreement`: in the middle of an event the records are one call apart, and the calls left are those that close the gap.
- `WireInv`, the barrier. `Updates`: while the driver waits for the answer to a `session.update`, either the update is the last message on its way or its answer
  is on the wire, and when the barrier is answered nothing that could be taken for an acknowledgement is left behind it. `FinishCommit`: the commit is the last message.
  `FinishAnswered`: so the first acknowledgement after the finish is the answer to that commit. `DoneSettled`: what `finish` returned on stays true.

`FinishHasEverything` then needs both: after the acknowledgement no announcement is on the wire (`WireInv`), so the driver has numbered every item that was cut
(`CommitsInOrder`), all of them are completed (`FinishSettled`), their indices have no gap (`ItemsAsCut`, `Agreement`), and nothing can be pending (`FinalsInPlace`).

`Network_proofs` also has the DashScope driver, for any sentences, with and without identities, any result ids, limits and length of the wire. To the store's assumptions it adds
`TaskAssumption`: the driver's ids are different for different indices. `IndicesAgree` (`IndexIsNext`) holds as it stands; `TranscriptIsAsSaid` (`TranscriptAsSaid`)
has the hypothesis `Texts = {}`, as the run has: a text processor may rewrite what the host is shown, and the property compares it with what the server said.
`DashInv` adds to the invariants of the store and the sink, and to the types:

- `HeardInTurn`, the driver and the wire. There is a `q` such that the driver has counted the finals up to `q` (`Counted`), and those after it up to `said` are on the wire (`Due`), none before those in
  front of it (`InTurn`). At most one final is there again, and then it is what `oddity` says (`AgainOnce`); without an identity the driver counts it, which is the `x` in `Counted`.
  `TakenNext`, `TakenAgain` and `TakenOther` are what it means to take an event from such a wire, `GrownFinals`, `GrownNew` and `GrownAgain` what it means to send one.
- `EndOnWire`: the end of our task is the last event on the wire, so a driver that has heard it has heard everything (`AllHeard`).
- `CallsMatch` and `StoreFollows`: the driver has one call under way at most, under its index, and the store's next index is the driver's, or one ahead between the store's answer and the
  driver's count (`NextIndex`). `CommitTakesNext` is why no gap ever opens: what is committed under the next index is drained at once.
- `ShownSoFar`: nothing is pending, and the host is shown a prefix of the sentences without the blank ones (`SaidUpTo`; `SaidGrows` makes it one).

Every safety property of a passing run is stated by a theorem. Only model-checked are the liveness properties, `SubscriberDisconnects`, `FinishEnds`, `FinishTaskEnds`, `RequestsEnd`, `CaptureEnds`, `CallsEnd`,
`TranscribeReturns`, `CallsAndWorkerEnd` and `CallsAndLoadsEnd`: the prover used here has no support for fairness or ENABLED.
Inductions over data are done with a least counterexample (`LeastNumber`) or over sets of lengths (`AllSequences`, `AllUpTo`), since none of the installed provers can
instantiate the library's induction theorems, which take an operator.

## Plan

1. `ResultStore`, `ResultLedger`, `LiveView`, `Session`, `Session_proofs`: done.
2. `EngineManager`, `HotSwap`, `EngineManager_proofs`: done.
3. `ResultSink`, `Realtime`, `DashScope`, `Capture`, `Engine`, `Engine_proofs`: done.
4. `HttpDriver` with `Network::run`: done.
5. `Download`, `Sse`, `Resampler`, `LocalDriver`: done.
6. `ResultStore_proofs` with budgets and refinement, `LiveView_proofs` with the host's view, `Realtime_proofs`, `Parts_proofs` with capture, resampler and `Sse`, `Network_proofs` with `HttpDriver` and `DashScope`: done.

## Not modelled

- Recognition, voice detection and punctuation models: native code behind thin layers without a state of their own.
  What they answer is chosen freely where it matters (`LocalDriver`, `HttpDriver`, `ResultSink`).
- `config.rs`, `backends/hotwords.rs`: plain values and word lists, validated field by field and character by
  character. No state, no order of events; the limits they admit are the constants of the modules.
- `backends/model_layout.rs` and the prechecks, loading of models, preparation of an engine: lookups of files and parsing of headers, pure functions of
  the disk. That preparation takes time, fails or panics is in `EngineManager` and `Engine`.
- The catalogue of models: constant data and loops over `ensure`.
- Connecting, TLS, proxies and closing of a WebSocket. A driver's waits for it are modelled with the drivers;
  the close after a success is best effort and changes no result.
- Sample arithmetic, WAV and JSON, wording of errors, time stamps.
