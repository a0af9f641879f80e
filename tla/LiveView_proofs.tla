---------------------------- MODULE LiveView_proofs ----------------------------
(***************************************************************************)
(* The live subscription, for any ids, texts, indices, limits and any      *)
(* capacity of the queue: its waits and its end, and that the host, from   *)
(* what was coalesced for it, gets to the session's view and never back.   *)
(***************************************************************************)
EXTENDS LiveView, ResultStore_proofs

\* A settled session has a terminal phase, and what there is to read of it is one
\* Reset, or nothing once that has been read.
EndsWithReset ==
    /\ outcome # "none" => phase \in Terminal
    /\ outcome # "none" /\ Enabled /\ ~needsReset => updates = <<>> /\ host = CurrentView
    /\ subscriber = "done" => outcome # "none" /\ ~needsReset

LiveInv == NoLostWakeup /\ EndsWithReset
-----------------------------------------------------------------------------
\* A call of the store is made before the end and does not settle the session; one
\* that is refused has changed nothing.
LEMMA RefusedUnchanged ==
    ASSUME NEW id \in Ids, NEW t \in Texts, CompleteUnindexed(id, t)
    PROVE  reply'.error = "none" \/ reply'.changed = FALSE
<1>1. CASE Fail("resource")
  BY <1>1 DEF Fail, Return
<1>2. CASE NoOp
  BY <1>2 DEF NoOp, Return
<1>3. CASE Return("none", <<>>, HasPartial(id), TRUE)
  BY <1>3 DEF Return
<1> QED
  BY <1>1, <1>2, <1>3 DEF CompleteUnindexed

\* A call of the store is made before the end, and does not bring it.
LEMMA BeforeTheEnd ==
    ASSUME NEW id \in Ids,
           \/ RegisterId(id) \/ (\E t \in Texts : SetPartial(id, t)) \/ (\E d \in Deltas : AppendDelta(id, d))
           \/ (\E t \in Texts : CompleteUnindexed(id, t))
           \/ \E i \in Indexes : IndexUnindexed(i, id) \/ \E t \in Texts : Commit(i, id, t)
    PROVE  outcome = "none" /\ outcome' = "none"
<1>1. CASE RegisterId(id)
  BY <1>1 DEF RegisterId, Fail
<1>2. CASE (\E t \in Texts : SetPartial(id, t)) \/ (\E d \in Deltas : AppendDelta(id, d))
  BY <1>2 DEF SetPartial, AppendDelta, ReplacePartial, NoOp, Fail
<1>3. CASE \E t \in Texts : CompleteUnindexed(id, t)
  BY <1>3 DEF CompleteUnindexed, NoOp, Fail
<1>4. CASE \E i \in Indexes : IndexUnindexed(i, id) \/ \E t \in Texts : Commit(i, id, t)
  BY <1>4 DEF IndexUnindexed, Commit, PlaceUnindexed, CommitNew, NoOp, Fail
<1> QED
  BY <1>1, <1>2, <1>3, <1>4

\* The worker's calls: the queue changes only with a notification to follow.
LEMMA WorkerStep ==
    ASSUME LiveInv, NEW id \in Ids,
           \/ WorkerRegisterId(id) \/ WorkerPartial(id) \/ WorkerCompleteUnindexed(id)
           \/ \E i \in Indexes : WorkerCommit(i, id)
    PROVE  LiveInv'
<1>1. outcome = "none" /\ outcome' = "none"
  BY BeforeTheEnd DEF WorkerRegisterId, WorkerPartial, WorkerCompleteUnindexed, WorkerCommit
<1>2. UNCHANGED <<phase, hostVars>>
  BY DEF WorkerRegisterId, WorkerPartial, WorkerCompleteUnindexed, WorkerCommit
<1>3. EndsWithReset'
  BY <1>1, <1>2 DEF LiveInv, EndsWithReset, hostVars
<1>4. (UNCHANGED queueVars /\ signalling \subseteq signalling') \/ signalling' # {}
  <2>1. CASE WorkerRegisterId(id)
    BY <2>1 DEF WorkerRegisterId, Calling
  <2>2. CASE WorkerPartial(id)
    BY <2>2 DEF WorkerPartial, Calling
  <2>3. CASE \E i \in Indexes : WorkerCommit(i, id)
    BY <2>3 DEF WorkerCommit, Calling
  <2>4. CASE WorkerCompleteUnindexed(id)
    <3>1. reply'.error = "none" \/ reply'.changed = FALSE
      BY <2>4, RefusedUnchanged DEF WorkerCompleteUnindexed
    <3> QED
      BY <2>4, <3>1 DEF WorkerCompleteUnindexed, Calling
  <2> QED
    BY <2>1, <2>2, <2>3, <2>4
<1>5. NoLostWakeup'
  BY <1>1, <1>2, <1>4 DEF LiveInv, NoLostWakeup, queueVars, hostVars
<1> QED
  BY <1>3, <1>5 DEF LiveInv

\* Changes of the phase before the end.
LEMMA PhaseStep == ASSUME LiveInv, WorkerRunning \/ RequestFinish PROVE LiveInv'
<1>1. outcome' = outcome /\ outcome = "none" /\ UNCHANGED hostVars
  BY DEF WorkerRunning, RequestFinish, LiveInv, EndsWithReset, Terminal, storeVars
<1>2. signalling' # {}
  BY DEF WorkerRunning, RequestFinish, Calling
<1> QED
  BY <1>1, <1>2 DEF LiveInv, NoLostWakeup, EndsWithReset, hostVars

\* The end: the whole view is to be read again.
LEMMA EndStep ==
    ASSUME LiveInv, WorkerComplete \/ \E thread \in {"worker", "host"}, p \in {"Failed", "Cancelled"} : FailWith(thread, p)
    PROVE  LiveInv'
<1>1. /\ outcome = "none" /\ phase' \in Terminal /\ signalling' # {} /\ UNCHANGED hostVars
      /\ ObserveTerminal
  BY DEF WorkerComplete, FailWith, Complete, FailSession, Terminal, Calling
<1>2. Enabled => needsReset'
  BY <1>1 DEF ObserveTerminal, RequireReset
<1>3. subscriber # "done"
  BY <1>1 DEF LiveInv, EndsWithReset
<1> QED
  BY <1>1, <1>2, <1>3 DEF LiveInv, NoLostWakeup, EndsWithReset, hostVars, Enabled

\* A notification delivers nothing itself.
LEMMA SignalStep ==
    ASSUME LiveInv, NEW thread, Signal(thread) PROVE LiveInv'
<1>1. UNCHANGED <<storeVars, phase, queueVars, host>> /\ subscriber' # "waiting" /\ Enabled' = Enabled
      /\ (subscriber' = "done" => subscriber = "done")
  BY DEF Signal, Enabled
<1>2. CurrentView' = CurrentView /\ outcome' = outcome
  BY <1>1 DEF CurrentView, storeVars, texts
<1> QED
  BY <1>1, <1>2 DEF LiveInv, NoLostWakeup, EndsWithReset, queueVars

\* The subscriber takes what is there, or waits when there is nothing.
LEMMA HostStep ==
    ASSUME LiveInv, Subscribe \/ Receive \/ DropSubscription PROVE LiveInv'
<1>1. UNCHANGED <<storeVars, phase, signalling>>
  BY DEF Subscribe, Receive, ReceiveReset, ReceiveUpdate, ReceiveNothing, DropSubscription
<1>2. CurrentView' = CurrentView /\ outcome' = outcome
  BY <1>1 DEF CurrentView, storeVars, texts
<1>3. CASE Subscribe
  BY <1>1, <1>2, <1>3 DEF Subscribe, RequireReset, LiveInv, NoLostWakeup, EndsWithReset
<1>4. CASE ReceiveReset
  BY <1>1, <1>2, <1>4 DEF ReceiveReset, LiveInv, NoLostWakeup, EndsWithReset
<1>5. CASE ReceiveUpdate
  BY <1>1, <1>2, <1>5 DEF ReceiveUpdate, LiveInv, NoLostWakeup, EndsWithReset, Enabled
<1>6. CASE ReceiveNothing
  BY <1>1, <1>2, <1>6 DEF ReceiveNothing, LiveInv, NoLostWakeup, EndsWithReset, Enabled, queueVars
<1>7. CASE DropSubscription
  BY <1>1, <1>2, <1>7 DEF DropSubscription, LiveInv, NoLostWakeup, EndsWithReset, Enabled
<1> QED
  BY <1>3, <1>4, <1>5, <1>6, <1>7 DEF Receive

\* The inductive invariant of the subscription.
THEOREM InvariantHolds == LiveSpec => []LiveInv
<1>1. LiveInit => LiveInv
  BY DEF LiveInit, Init, LiveInv, NoLostWakeup, EndsWithReset, Enabled
<1>2. LiveInv /\ [LiveNext]_vars => LiveInv'
  <2> SUFFICES ASSUME LiveInv, [LiveNext]_vars PROVE LiveInv'
    OBVIOUS
  <2>1. CASE UNCHANGED vars
    <3>1. UNCHANGED <<outcome, transcript, partials, phase, updates, needsReset, subscriber, host, signalling>>
      BY <2>1 DEF vars, storeVars, texts, queueVars, hostVars
    <3> QED
      BY <3>1 DEF LiveInv, NoLostWakeup, EndsWithReset, Enabled, CurrentView
  <2>2. CASE LiveNext
    BY <2>2, WorkerStep, PhaseStep, EndStep, SignalStep, HostStep DEF LiveNext
  <2> QED
    BY <2>1, <2>2
<1> QED
  BY <1>1, <1>2, PTL DEF LiveSpec

\* However large the queue and whatever is coalesced in it, a subscriber that waits
\* while there is something to deliver is about to be notified.
THEOREM NoWakeupIsLost == LiveSpec => []NoLostWakeup
<1>1. LiveInv => NoLostWakeup
  BY DEF LiveInv
<1> QED
  BY <1>1, InvariantHolds, PTL

\* A host that has come to the end of its stream has read the session's final view.
THEOREM EndIsUpToDate == LiveSpec => []DisconnectedHostIsUpToDate
<1>1. LiveInv => DisconnectedHostIsUpToDate
  BY DEF LiveInv, EndsWithReset, DisconnectedHostIsUpToDate, Enabled
<1> QED
  BY <1>1, InvariantHolds, PTL
-----------------------------------------------------------------------------
\* g is what is applied over the subsets of the positions of a queue, the highest
\* position last: the recursion of FoldLeft.
AppliesOver(g, h, q, P) ==
    g = [T \in P |-> IF T = {} THEN h ELSE Apply(g[T \ {Max(T)}], q[Max(T)])]

\* The highest of finitely many numbers.
LEMMA HighestIsIn ==
    ASSUME NEW n \in Nat, NEW T \in SUBSET (1..n), T # {}
    PROVE  Max(T) \in T /\ \A k \in T : k <= Max(T)
<1> DEFINE above == {n - k : k \in T}
<1>0. \A k \in T : k \in Int /\ n - k \in Nat
  OBVIOUS
<1>1. above # {} /\ above \subseteq Nat
  BY <1>0
<1>2. PICK d \in above : \A e \in above : d <= e
  BY <1>1, LeastNumber
<1>3. PICK k \in T : d = n - k
  BY <1>2
<1>4. ASSUME NEW j \in T PROVE k >= j
  <2>1. n - k <= n - j
    BY <1>2, <1>3
  <2> QED
    BY <1>0, <2>1
<1>5. \E x \in T : \A y \in T : x >= y
  BY <1>4
<1> DEFINE Good(x) == \A y \in T : x >= y
<1>6. Max(T) \in T /\ \A y \in T : Max(T) >= y
  BY <1>5 DEF Max
<1> QED
  BY <1>6

\* There is such a function for every queue, by induction on the size of the subsets.
LEMMA ApplyExists ==
    ASSUME NEW n \in Nat, NEW h, NEW q PROVE \E g : AppliesOver(g, h, q, SUBSET (1..n))
<1> DEFINE S == 1..n
           P(k) == {T \in SUBSET S : Cardinality(T) <= k}
           Bad == {k \in Nat : ~\E g : AppliesOver(g, h, q, P(k))}
<1>a. IsFiniteSet(S)
  BY FS_Interval
<1>0. \A T \in SUBSET S : IsFiniteSet(T) /\ Cardinality(T) \in Nat /\ Cardinality(T) <= Cardinality(S)
  BY <1>a, FS_Subset, FS_CardinalityType
<1>1. SUFFICES Bad = {}
  <2>1. P(Cardinality(S)) = SUBSET S /\ Cardinality(S) \in Nat
    BY <1>0
  <2> QED
    BY <1>1, <2>1
<1>2. SUFFICES ASSUME Bad # {} PROVE FALSE
  OBVIOUS
<1>3. PICK m \in Bad : \A j \in Bad : m <= j
  BY <1>2, LeastNumber
<1>4. PICK g : m > 0 => AppliesOver(g, h, q, P(m - 1))
  <2>1. m \in Nat /\ (m > 0 => m - 1 \in Nat /\ ~(m <= m - 1))
    BY <1>3
  <2>2. m > 0 => m - 1 \notin Bad
    BY <1>3, <2>1
  <2> QED
    BY <2>1, <2>2
<1> DEFINE f == [T \in P(m) |-> IF T = {} THEN h ELSE Apply(g[T \ {Max(T)}], q[Max(T)])]
<1>5. ASSUME NEW T \in P(m), T # {} PROVE g[T \ {Max(T)}] = f[T \ {Max(T)}]
  <2> DEFINE U == T \ {Max(T)}
  <2>1. Max(T) \in T
    BY <1>5, HighestIsIn
  <2>2. U \in SUBSET S /\ Cardinality(U) = Cardinality(T) - 1 /\ Cardinality(U) \in Nat /\ Cardinality(T) <= m
    BY <1>0, <2>1, SmallerSet
  <2>3. m > 0 /\ U \in P(m - 1) /\ U \in P(m) /\ m \in Nat
    BY <1>0, <1>3, <2>2
  <2> HIDE DEF U
  <2>4. g[U] = IF U = {} THEN h ELSE Apply(g[U \ {Max(U)}], q[Max(U)])
    BY <1>4, <2>3 DEF AppliesOver
  <2> QED
    BY <2>3, <2>4 DEF U
<1>6. f = [T \in P(m) |-> IF T = {} THEN h ELSE Apply(f[T \ {Max(T)}], q[Max(T)])]
  <2>1. \A T \in P(m) : (IF T = {} THEN h ELSE Apply(g[T \ {Max(T)}], q[Max(T)]))
                         = IF T = {} THEN h ELSE Apply(f[T \ {Max(T)}], q[Max(T)])
    BY <1>5
  <2> QED
    BY <2>1
<1> HIDE DEF f
<1>7. AppliesOver(f, h, q, P(m))
  BY <1>6 DEF AppliesOver
<1> QED
  BY <1>3, <1>7

\* The views a host goes through that starts with h and reads q.
Runs(r, h, q) == r[0] = h /\ \A k \in 1..Len(q) : r[k] = Apply(r[k - 1], q[k])

\* The last of them is what FoldLeft makes of the queue.
LEMMA FoldRuns ==
    ASSUME NEW h, NEW q, Len(q) \in Nat, DOMAIN q = 1..Len(q)
    PROVE  \E r : Runs(r, h, q) /\ FoldLeft(Apply, h, q) = r[Len(q)]
<1> DEFINE n == Len(q)
           g == CHOOSE g : AppliesOver(g, h, q, SUBSET DOMAIN q)
<1>1. AppliesOver(g, h, q, SUBSET (1..n))
  BY ApplyExists
<1>2. FoldLeft(Apply, h, q) = g[1..n]
  <2>1. FoldLeft(Apply, h, q) = g[DOMAIN q]
    BY ONLY DEF FoldLeft, MapThenFoldSet, AppliesOver
  <2> QED
    BY <2>1
<1> HIDE DEF g
<1> DEFINE r == [k \in 0..n |-> g[1..k]]
<1>3. r[0] = h
  <2>1. 1..0 = {} /\ {} \in SUBSET (1..n)
    OBVIOUS
  <2>2. g[{}] = h
    BY <1>1 DEF AppliesOver
  <2> QED
    BY <2>1, <2>2
<1>4. ASSUME NEW k \in 1..n PROVE r[k] = Apply(r[k - 1], q[k])
  <2>0. n \in Nat /\ k \in 1..n
    OBVIOUS
  <2>1. (1..k) \in SUBSET (1..n) /\ k \in 1..k /\ k - 1 \in 0..n /\ k \in 0..n
    BY ONLY <2>0
  <2>2. Max(1..k) \in 1..k /\ \A j \in 1..k : j <= Max(1..k)
    BY <2>1, HighestIsIn
  <2>3. Max(1..k) = k
    BY <2>2
  <2>4. (1..k) \ {k} = 1..(k - 1)
    OBVIOUS
  <2>5. g[1..k] = Apply(g[1..(k - 1)], q[k])
    BY <1>1, <2>1, <2>3, <2>4 DEF AppliesOver
  <2> QED
    BY <2>1, <2>5
<1>5. r[n] = g[1..n]
  OBVIOUS
<1> QED
  BY <1>2, <1>3, <1>4, <1>5 DEF Runs

AnyPartial == [revision : Nat, text : Seq(Chars)]
View == [phase : Phases, transcript : Seq(Segment), partials : [Ids -> AnyPartial]]
Update ==
    [kind : {"phase"}, phase : Phases]
        \cup [kind : {"partial"}, id : Ids, revision : Nat, text : Seq(Chars)]
        \cup [kind : {"segment"}, segment : Segment]

\* What an update does to each part of a view.
LEMMA ApplyIs ==
    ASSUME NEW v \in View, NEW u \in Update
    PROVE  /\ Apply(v, u) \in View
           /\ u.kind \in {"phase", "partial", "segment"}
           /\ Apply(v, u).phase = IF u.kind = "phase" THEN u.phase ELSE v.phase
           /\ Apply(v, u).transcript =
                IF u.kind = "segment" THEN Append(v.transcript, u.segment) ELSE v.transcript
           /\ u.kind = "phase" => Apply(v, u).partials = v.partials
           /\ u.kind = "partial" => u.id \in Ids /\
                Apply(v, u).partials = [v.partials EXCEPT ![u.id] = [revision |-> u.revision, text |-> u.text]]
           /\ u.kind = "segment" => u.segment \in Segment /\ u.segment.id \in Ids /\
                Apply(v, u).partials = [v.partials EXCEPT ![u.segment.id] = NoPartial]
<1>0. NoPartial \in AnyPartial
  <2>1. <<>> \in Seq(Chars)
    OBVIOUS
  <2> QED
    BY <2>1 DEF NoPartial, AnyPartial
<1>1. CASE u \in [kind : {"phase"}, phase : Phases]
  <2>1. u.kind = "phase" /\ u.phase \in Phases /\ Apply(v, u) = [v EXCEPT !.phase = u.phase]
    BY <1>1 DEF Apply
  <2> QED
    BY <2>1 DEF View
<1>2. CASE u \in [kind : {"partial"}, id : Ids, revision : Nat, text : Seq(Chars)]
  <2>1. /\ u.kind = "partial" /\ u.id \in Ids /\ [revision |-> u.revision, text |-> u.text] \in AnyPartial
        /\ Apply(v, u) = [v EXCEPT !.partials[u.id] = [revision |-> u.revision, text |-> u.text]]
    BY <1>2 DEF Apply, AnyPartial
  <2> QED
    BY <2>1 DEF View
<1>3. CASE u \in [kind : {"segment"}, segment : Segment]
  <2>1. /\ u.kind = "segment" /\ u.segment \in Segment /\ u.segment.id \in Ids
        /\ Apply(v, u) = [v EXCEPT !.transcript = Append(@, u.segment),
                        !.partials[u.segment.id] = NoPartial]
    BY <1>3 DEF Apply, Segment
  <2>2. Append(v.transcript, u.segment) \in Seq(Segment)
    BY <2>1 DEF View
  <2>3. [v.partials EXCEPT ![u.segment.id] = NoPartial] \in [Ids -> AnyPartial]
    BY <1>0, <2>1 DEF View
  <2>4. Apply(v, u) = [phase |-> v.phase, transcript |-> Append(v.transcript, u.segment),
                       partials |-> [v.partials EXCEPT ![u.segment.id] = NoPartial]]
    BY <2>1 DEF View
  <2> QED
    BY <2>1, <2>2, <2>3, <2>4 DEF View
<1> QED
  BY <1>1, <1>2, <1>3 DEF Update

\* Updates make views of views.
LEMMA RunTyped ==
    ASSUME NEW h \in View, NEW q \in Seq(Update), NEW r, Runs(r, h, q)
    PROVE  \A k \in 0..Len(q) : r[k] \in View
<1> DEFINE Bad == {k \in 0..Len(q) : r[k] \notin View}
<1>1. SUFFICES ASSUME Bad # {} PROVE FALSE
  OBVIOUS
<1>2. PICK m \in Bad : \A j \in Bad : m <= j
  <2>1. Bad \in SUBSET Nat
    OBVIOUS
  <2> QED
    BY <1>1, <2>1, LeastNumber
<1>3. m # 0 /\ m \in Nat /\ m <= Len(q) /\ Len(q) \in Nat
  BY <1>2 DEF Runs
<1>4. m \in 1..Len(q) /\ m - 1 \in 0..Len(q) /\ ~(m <= m - 1)
  BY <1>3
<1>5. r[m - 1] \in View /\ q[m] \in Update
  BY <1>2, <1>4
<1>6. r[m] \in View
  <2>1. Apply(r[m - 1], q[m]) \in View
    BY ONLY <1>5, ApplyIs
  <2>2. r[m] = Apply(r[m - 1], q[m])
    BY <1>4 DEF Runs
  <2> QED
    BY <2>1, <2>2
<1> QED
  BY <1>2, <1>6

\* Two runs over the same updates go through the same views.
LEMMA RunsAgree ==
    ASSUME NEW h, NEW p, NEW q, NEW r, NEW t, NEW n \in Nat, Len(p) \in Nat, Len(q) \in Nat,
           n <= Len(p), n <= Len(q), Runs(r, h, p), Runs(t, h, q), \A k \in 1..n : p[k] = q[k]
    PROVE  \A k \in 0..n : r[k] = t[k]
<1> DEFINE Bad == {k \in 0..n : r[k] # t[k]}
<1>1. SUFFICES ASSUME Bad # {} PROVE FALSE
  OBVIOUS
<1>2. PICK m \in Bad : \A j \in Bad : m <= j
  <2>1. Bad \in SUBSET Nat
    OBVIOUS
  <2> QED
    BY <1>1, <2>1, LeastNumber
<1>3. m # 0
  BY <1>2 DEF Runs
<1>4. m \in 1..n /\ m \in 1..Len(p) /\ m \in 1..Len(q) /\ m - 1 \in 0..n /\ ~(m <= m - 1)
  BY <1>2, <1>3
<1>5. r[m - 1] = t[m - 1]
  BY <1>2, <1>4
<1>6. r[m] = Apply(r[m - 1], p[m]) /\ t[m] = Apply(t[m - 1], q[m])
  BY <1>4 DEF Runs
<1> QED
  BY <1>2, <1>4, <1>5, <1>6

\* What a host that has h makes of the updates in q.
Read(h, q) == FoldLeft(Apply, h, q)

\* An empty queue changes nothing.
LEMMA ReadNothing == ASSUME NEW h PROVE Read(h, <<>>) = h
<1>1. PICK r : Runs(r, h, <<>>) /\ FoldLeft(Apply, h, <<>>) = r[Len(<<>>)]
  BY FoldRuns
<1> QED
  BY <1>1 DEF Runs, Read

\* The last update is applied last.
LEMMA ReadOneMore ==
    ASSUME NEW S, NEW h, NEW q \in Seq(S), NEW u \in S
    PROVE  Read(h, Append(q, u)) = Apply(Read(h, q), u)
<1> DEFINE p == Append(q, u)
           n == Len(q)
<1>1. /\ p \in Seq(S) /\ n \in Nat /\ Len(p) = n + 1 /\ \A k \in 1..n : p[k] = q[k]
      /\ p[n + 1] = u
  OBVIOUS
<1> HIDE DEF p
<1>2. PICK r : Runs(r, h, q) /\ FoldLeft(Apply, h, q) = r[Len(q)]
  BY FoldRuns
<1>3. PICK t : Runs(t, h, p) /\ FoldLeft(Apply, h, p) = t[Len(p)]
  BY <1>1, FoldRuns
<1>4. \A k \in 0..n : r[k] = t[k]
  <2>1. n \in Nat /\ Len(p) \in Nat /\ n <= Len(q) /\ n <= Len(p) /\ \A k \in 1..n : q[k] = p[k]
    BY <1>1
  <2> QED
    BY <1>2, <1>3, <2>1, RunsAgree
<1>5. n + 1 \in 1..Len(p) /\ (n + 1) - 1 = n /\ n \in 0..n
  BY <1>1
<1>6. t[n + 1] = Apply(t[n], p[n + 1])
  BY <1>3, <1>5 DEF Runs
<1> QED
  BY <1>1, <1>2, <1>3, <1>4, <1>5, <1>6 DEF Read, p

\* What a host reads from a queue makes a view of a view.
LEMMA ReadTyped ==
    ASSUME NEW h \in View, NEW q \in Seq(Update) PROVE Read(h, q) \in View
<1>1. PICK r : Runs(r, h, q) /\ FoldLeft(Apply, h, q) = r[Len(q)]
  BY FoldRuns
<1> QED
  BY <1>1, RunTyped DEF Read

\* A sequence that is not empty is its front with one element more.
LEMMA FrontAndLast ==
    ASSUME NEW S, NEW q \in Seq(S), q # <<>>
    PROVE  \E p \in Seq(S), u \in S : q = Append(p, u) /\ Len(p) = Len(q) - 1 /\ Len(p) \in Nat
<1> DEFINE n == Len(q)
           p == [k \in 1..(n - 1) |-> q[k]]
<1>1. n \in Nat /\ n >= 1 /\ \A k \in 1..n : q[k] \in S
  OBVIOUS
<1>2. p \in Seq(S) /\ Len(p) = n - 1 /\ q[n] \in S
  BY <1>1
<1>3. Append(p, q[n]) \in Seq(S) /\ Len(Append(p, q[n])) = n
  BY <1>1, <1>2
<1>4. ASSUME NEW k \in 1..n PROVE Append(p, q[n])[k] = q[k]
  <2>1. \A j \in 1..(n - 1) : p[j] = q[j]
    OBVIOUS
  <2> HIDE DEF p
  <2>2. k = n \/ k \in 1..(n - 1)
    BY <1>1
  <2> QED
    BY <1>1, <1>2, <2>1, <2>2
<1>5. q = Append(p, q[n])
  <2> HIDE DEF p
  <2> QED
    BY <1>3, <1>4
<1> HIDE DEF p
<1> QED
  BY <1>1, <1>2, <1>5

\* Reading the first update first.
LEMMA ReadHead ==
    ASSUME NEW S, NEW h, NEW q \in Seq(S), q # <<>>
    PROVE  Read(Apply(h, Head(q)), Tail(q)) = Read(h, q)
<1> DEFINE Bad == {n \in Nat : \E p \in Seq(S) : p # <<>> /\ Len(p) = n
                      /\ Read(Apply(h, Head(p)), Tail(p)) # Read(h, p)}
<1>1. SUFFICES ASSUME Bad # {} PROVE FALSE
  OBVIOUS
<1>2. PICK m \in Bad : \A j \in Bad : m <= j
  BY <1>1, LeastNumber
<1>3. PICK p \in Seq(S) : p # <<>> /\ Len(p) = m /\ Read(Apply(h, Head(p)), Tail(p)) # Read(h, p)
  BY <1>2
<1>4. PICK f \in Seq(S), u \in S : p = Append(f, u) /\ Len(f) = Len(p) - 1 /\ Len(f) \in Nat
  BY <1>3, FrontAndLast
<1>5. Read(h, p) = Apply(Read(h, f), u)
  BY <1>4, ReadOneMore
<1>6. CASE f = <<>>
  <2>1. Head(p) = u /\ Tail(p) = <<>>
    BY <1>4, <1>6
  <2> QED
    BY <1>3, <1>5, <1>6, <2>1, ReadNothing
<1>7. CASE f # <<>>
  <2>1. Head(p) = Head(f) /\ Tail(p) = Append(Tail(f), u) /\ Tail(f) \in Seq(S) /\ Head(f) \in S
    BY <1>4, <1>7
  <2>2. Read(Apply(h, Head(f)), Tail(f)) = Read(h, f)
    <3>1. ~(m <= Len(f))
      BY <1>2, <1>3, <1>4
    <3> QED
      BY <1>2, <1>4, <1>7, <3>1
  <2>3. Read(Apply(h, Head(f)), Append(Tail(f), u)) = Apply(Read(Apply(h, Head(f)), Tail(f)), u)
    <3> DEFINE w == Apply(h, Head(f))
               t == Tail(f)
    <3>1. t \in Seq(S)
      BY <2>1
    <3> HIDE DEF w, t
    <3>2. Read(w, Append(t, u)) = Apply(Read(w, t), u)
      BY <3>1, ReadOneMore
    <3> QED
      BY <3>2 DEF w, t
  <2> QED
    BY <1>3, <1>5, <2>1, <2>2, <2>3
<1> QED
  BY <1>6, <1>7

-----------------------------------------------------------------------------
\* Induction over sequences: a set that has the empty one and with each one all that
\* are longer by an element has them all.
LEMMA AllSequences ==
    ASSUME NEW S, NEW G, <<>> \in G, \A p \in Seq(S), u \in S : p \in G => Append(p, u) \in G
    PROVE  Seq(S) \subseteq G
<1> DEFINE Bad == {n \in Nat : \E q \in Seq(S) : Len(q) = n /\ q \notin G}
<1>1. SUFFICES ASSUME Bad # {} PROVE FALSE
  OBVIOUS
<1>2. PICK m \in Bad : \A j \in Bad : m <= j
  BY <1>1, LeastNumber
<1>3. PICK q \in Seq(S) : Len(q) = m /\ q \notin G
  BY <1>2
<1>4. PICK p \in Seq(S), u \in S : q = Append(p, u) /\ Len(p) = Len(q) - 1 /\ Len(p) \in Nat
  BY <1>3, FrontAndLast
<1>5. p \notin G
  BY <1>3, <1>4
<1>6. Len(p) \in Bad /\ ~(m <= Len(p))
  BY <1>3, <1>4, <1>5
<1> QED
  BY <1>2, <1>6

\* What is left of a sequence are elements of it.
LEMMA RetainFrom ==
    ASSUME NEW S, NEW D, NEW q \in Seq(S)
    PROVE  /\ Retain(q, D) \in Seq(S)
           /\ \A k \in 1..Len(Retain(q, D)) : /\ Retain(q, D)[k] \notin D
                                               /\ \E j \in 1..Len(q) : q[j] = Retain(q, D)[k]
<1> DEFINE Good(s) == /\ Retain(s, D) \in Seq(S)
                      /\ \A k \in 1..Len(Retain(s, D)) : /\ Retain(s, D)[k] \notin D
                                               /\ \E j \in 1..Len(s) : s[j] = Retain(s, D)[k]
           G == {s \in Seq(S) : Good(s)}
<1>1. <<>> \in G
  <2> DEFINE r == Retain(<<>>, D)
  <2>1. r = <<>>
    BY RetainNothing
  <2> HIDE DEF r
  <2>2. r \in Seq(S) /\ \A k \in 1..Len(r) : FALSE
    BY <2>1
  <2>3. Good(<<>>)
    BY <2>2 DEF r
  <2> QED
    BY <2>3
<1>2. ASSUME NEW p \in Seq(S), NEW u \in S, p \in G PROVE Append(p, u) \in G
  <2> DEFINE r == Retain(p, D)
             s == Append(p, u)
  <2>1. Retain(s, D) = IF u \in D THEN r ELSE Append(r, u)
    BY RetainOneMore
  <2>2. /\ r \in Seq(S)
        /\ \A k \in 1..Len(r) : r[k] \notin D /\ \E j \in 1..Len(p) : p[j] = r[k]
    BY <1>2
  <2>3. s \in Seq(S) /\ Len(s) = Len(p) + 1 /\ s[Len(p) + 1] = u /\ \A j \in 1..Len(p) : s[j] = p[j]
    OBVIOUS
  <2> HIDE DEF r, s
  <2>4. \A k \in 1..Len(r) : r[k] \notin D /\ \E j \in 1..Len(s) : s[j] = r[k]
    <3> TAKE k \in 1..Len(r)
    <3>1. PICK j \in 1..Len(p) : p[j] = r[k]
      BY <2>2
    <3>2. j \in 1..Len(s) /\ s[j] = r[k]
      BY <2>3, <3>1
    <3> QED
      BY <2>2, <3>2
  <2>5. ASSUME u \in D PROVE Good(s)
    <3>1. Retain(s, D) = r
      BY <2>1, <2>5
    <3> QED
      BY <2>2, <2>4, <3>1
  <2>6. ASSUME u \notin D PROVE Good(s)
    <3> DEFINE t == Append(r, u)
    <3>1. t \in Seq(S) /\ Len(t) = Len(r) + 1 /\ t[Len(r) + 1] = u /\ \A k \in 1..Len(r) : t[k] = r[k]
      BY <2>2
    <3> HIDE DEF t
    <3>2. ASSUME NEW k \in 1..Len(t) PROVE t[k] \notin D /\ \E j \in 1..Len(s) : s[j] = t[k]
      <4>1. CASE k = Len(r) + 1
        <5>1. Len(p) + 1 \in 1..Len(s)
          BY <2>3
        <5> QED
          BY <2>3, <2>6, <3>1, <4>1, <5>1
      <4>2. CASE k \in 1..Len(r)
        BY <2>4, <3>1, <4>2
      <4> QED
        BY <2>2, <3>1, <4>1, <4>2
    <3>3. Retain(s, D) = t
      BY <2>1, <2>6 DEF t
    <3> QED
      BY <3>1, <3>2, <3>3
  <2>7. Good(s) /\ s \in Seq(S)
    BY <2>3, <2>5, <2>6
  <2> QED
    BY <2>7 DEF s
<1> HIDE DEF G
<1>3. Seq(S) \subseteq G
  BY <1>1, <1>2, AllSequences
<1> QED
  BY <1>3 DEF G

\* A queue without dropped elements is kept as it is.
LEMMA RetainAll ==
    ASSUME NEW S, NEW D, NEW q \in Seq(S), \A k \in 1..Len(q) : q[k] \notin D
    PROVE  Retain(q, D) = q
<1> DEFINE G == {s \in Seq(S) : (\A k \in 1..Len(s) : s[k] \notin D) => Retain(s, D) = s}
<1>1. <<>> \in G
  BY RetainNothing
<1>2. ASSUME NEW p \in Seq(S), NEW u \in S, p \in G PROVE Append(p, u) \in G
  <2> DEFINE s == Append(p, u)
  <2>1. s \in Seq(S) /\ Len(s) = Len(p) + 1 /\ s[Len(p) + 1] = u /\ \A j \in 1..Len(p) : s[j] = p[j]
    OBVIOUS
  <2>2. Retain(s, D) = IF u \in D THEN Retain(p, D) ELSE Append(Retain(p, D), u)
    BY RetainOneMore
  <2>3. s = Append(p, u)
    OBVIOUS
  <2> HIDE DEF s
  <2>4. ASSUME \A k \in 1..Len(s) : s[k] \notin D PROVE Retain(s, D) = s
    <3>1. Len(p) + 1 \in 1..Len(s) /\ \A k \in 1..Len(p) : k \in 1..Len(s)
      BY <2>1
    <3>2. u \notin D /\ \A k \in 1..Len(p) : p[k] \notin D
      BY <2>1, <2>4, <3>1
    <3> QED
      BY <1>2, <2>2, <2>3, <3>2
  <2> QED
    BY <2>1, <2>4 DEF s
<1> HIDE DEF G
<1>3. Seq(S) \subseteq G
  BY <1>1, <1>2, AllSequences
<1> QED
  BY <1>3 DEF G

\* Two views that are the same up to the partial of an id.
SameBut(v, w, id) ==
    /\ v.transcript = w.transcript /\ v.phase = w.phase
    /\ \A j \in Ids : j # id => v.partials[j] = w.partials[j]

\* An update leaves two such views alike, and a partial of that id changes nothing else.
LEMMA ApplySame ==
    ASSUME NEW v \in View, NEW w \in View, NEW id, NEW u \in Update, SameBut(v, w, id)
    PROVE  /\ SameBut(Apply(v, u), Apply(w, u), id)
           /\ u \in PartialUpdates(id) => SameBut(v, Apply(w, u), id)
<1>1. v.partials \in [Ids -> AnyPartial] /\ w.partials \in [Ids -> AnyPartial]
  BY DEF View
<1>2. \A x \in View, j \in Ids : Apply(x, u).partials[j] =
         IF u.kind = "partial" /\ u.id = j THEN [revision |-> u.revision, text |-> u.text]
         ELSE IF u.kind = "segment" /\ u.segment.id = j THEN NoPartial ELSE x.partials[j]
  <2> TAKE x \in View, j \in Ids
  <2>1. x.partials \in [Ids -> AnyPartial]
    BY DEF View
  <2>2. /\ u.kind \in {"phase", "partial", "segment"}
        /\ u.kind = "phase" => Apply(x, u).partials = x.partials
        /\ u.kind = "partial" => u.id \in Ids /\
                Apply(x, u).partials = [x.partials EXCEPT ![u.id] = [revision |-> u.revision, text |-> u.text]]
        /\ u.kind = "segment" => u.segment \in Segment /\ u.segment.id \in Ids /\
                Apply(x, u).partials = [x.partials EXCEPT ![u.segment.id] = NoPartial]
    BY ApplyIs
  <2> QED
    BY <2>1, <2>2
<1>3. \A x \in View : /\ Apply(x, u).phase = IF u.kind = "phase" THEN u.phase ELSE x.phase
           /\ Apply(x, u).transcript =
                IF u.kind = "segment" THEN Append(x.transcript, u.segment) ELSE x.transcript
  BY ApplyIs
<1>4. u \in PartialUpdates(id) => u.kind = "partial" /\ u.id = id
  BY DEF PartialUpdates
<1> QED
  BY <1>2, <1>3, <1>4 DEF SameBut

\* Leaving out the queued partials of an id makes no difference but to that partial.
LEMMA Coalesced ==
    ASSUME NEW h \in View, NEW q \in Seq(Update), NEW id
    PROVE  SameBut(Read(h, Without(q, id)), Read(h, q), id)
<1> DEFINE D == PartialUpdates(id)
           G == {s \in Seq(Update) : SameBut(Read(h, Retain(s, D)), Read(h, s), id)}
<1>1. <<>> \in G
  BY RetainNothing DEF SameBut
<1>2. ASSUME NEW p \in Seq(Update), NEW u \in Update, p \in G PROVE Append(p, u) \in G
  <2> DEFINE r == Retain(p, D)
  <2>1. Retain(Append(p, u), D) = IF u \in D THEN r ELSE Append(r, u)
    BY RetainOneMore
  <2>2. r \in Seq(Update)
    BY RetainFrom
  <2> HIDE DEF r
  <2>3. Read(h, Append(p, u)) = Apply(Read(h, p), u) /\ Read(h, Append(r, u)) = Apply(Read(h, r), u)
    BY <2>2, ReadOneMore
  <2>4. Read(h, p) \in View /\ Read(h, r) \in View
    BY <2>2, ReadTyped
  <2>5. SameBut(Read(h, r), Read(h, p), id)
    BY <1>2 DEF r
  <2>6. /\ SameBut(Apply(Read(h, r), u), Apply(Read(h, p), u), id)
        /\ u \in D => SameBut(Read(h, r), Apply(Read(h, p), u), id)
    BY <2>4, <2>5, ApplySame
  <2>7. SameBut(Read(h, Retain(Append(p, u), D)), Read(h, Append(p, u)), id)
    BY <2>1, <2>3, <2>6
  <2> QED
    BY <2>7
<1> HIDE DEF G
<1>3. Seq(Update) \subseteq G
  BY <1>1, <1>2, AllSequences
<1> QED
  BY <1>3 DEF G, Without

\* Nor does leaving out the queued phases, but to the phase.
LEMMA PhasesCoalesced ==
    ASSUME NEW h \in View, NEW q \in Seq(Update)
    PROVE  /\ Read(h, Retain(q, PhaseUpdates)).transcript = Read(h, q).transcript
           /\ Read(h, Retain(q, PhaseUpdates)).partials = Read(h, q).partials
<1> DEFINE D == PhaseUpdates
           Same(v, w) == v.transcript = w.transcript /\ v.partials = w.partials
           G == {s \in Seq(Update) : Same(Read(h, Retain(s, D)), Read(h, s))}
<1>1. <<>> \in G
  BY RetainNothing
<1>2. ASSUME NEW p \in Seq(Update), NEW u \in Update, p \in G PROVE Append(p, u) \in G
  <2> DEFINE r == Retain(p, D)
  <2>1. Retain(Append(p, u), D) = IF u \in D THEN r ELSE Append(r, u)
    BY RetainOneMore
  <2>2. r \in Seq(Update)
    BY RetainFrom
  <2> HIDE DEF r
  <2>3. Read(h, Append(p, u)) = Apply(Read(h, p), u) /\ Read(h, Append(r, u)) = Apply(Read(h, r), u)
    BY <2>2, ReadOneMore
  <2>4. Read(h, p) \in View /\ Read(h, r) \in View
    BY <2>2, ReadTyped
  <2>5. Same(Read(h, r), Read(h, p))
    BY <1>2 DEF r
  <2>6. ASSUME NEW v \in View, NEW w \in View, Same(v, w)
        PROVE  Same(Apply(v, u), Apply(w, u)) /\ (u \in D => Same(v, Apply(w, u)))
    <3>1. u \in D => u.kind = "phase"
      BY DEF PhaseUpdates
    <3>2. \A x \in View :
            /\ u.kind \in {"phase", "partial", "segment"}
            /\ Apply(x, u).transcript =
                 IF u.kind = "segment" THEN Append(x.transcript, u.segment) ELSE x.transcript
            /\ u.kind = "phase" => Apply(x, u).partials = x.partials
            /\ u.kind = "partial" =>
                 Apply(x, u).partials = [x.partials EXCEPT ![u.id] = [revision |-> u.revision, text |-> u.text]]
            /\ u.kind = "segment" =>
                 Apply(x, u).partials = [x.partials EXCEPT ![u.segment.id] = NoPartial]
      BY ApplyIs
    <3>3. Apply(v, u).transcript = Apply(w, u).transcript
      BY <2>6, <3>2
    <3>4. Apply(v, u).partials = Apply(w, u).partials
      BY <2>6, <3>2
    <3>5. u \in D => v.transcript = Apply(w, u).transcript /\ v.partials = Apply(w, u).partials
      BY <2>6, <3>1, <3>2
    <3> QED
      BY <3>3, <3>4, <3>5
  <2>7. Same(Read(h, Retain(Append(p, u), D)), Read(h, Append(p, u)))
    <3> DEFINE rr == Read(h, r)
               rp == Read(h, p)
    <3> HIDE DEF rr, rp
    <3>1. Same(Apply(rr, u), Apply(rp, u)) /\ (u \in D => Same(rr, Apply(rp, u)))
      BY <2>4, <2>5, <2>6 DEF rr, rp
    <3>2. /\ Read(h, Retain(Append(p, u), D)) = IF u \in D THEN rr ELSE Apply(rr, u)
          /\ Read(h, Append(p, u)) = Apply(rp, u)
      BY <2>1, <2>3 DEF rr, rp
    <3> QED
      BY <3>1, <3>2
  <2> QED
    BY <2>7
<1> HIDE DEF G
<1>3. Seq(Update) \subseteq G
  BY <1>1, <1>2, AllSequences
<1> QED
  BY <1>3 DEF G

\* Induction over the numbers up to n.
LEMMA AllUpTo ==
    ASSUME NEW n \in Nat, NEW G, 0 \in G, \A k \in 0..(n - 1) : k \in G => k + 1 \in G
    PROVE  0..n \subseteq G
<1> DEFINE Bad == {k \in 0..n : k \notin G}
<1>1. SUFFICES ASSUME Bad # {} PROVE FALSE
  OBVIOUS
<1>2. PICK m \in Bad : \A j \in Bad : m <= j
  <2>1. Bad \in SUBSET Nat
    OBVIOUS
  <2> QED
    BY <1>1, <2>1, LeastNumber
<1>3. m # 0
  BY <1>2
<1>4. m - 1 \in 0..(n - 1) /\ m - 1 \in 0..n /\ ~(m <= m - 1) /\ (m - 1) + 1 = m
  BY <1>2, <1>3
<1>5. m - 1 \in G
  BY <1>2, <1>4
<1>6. (m - 1) + 1 \in G
  BY <1>4, <1>5
<1> QED
  BY <1>2, <1>4, <1>6

\* The recursion of Pushed.
Pushes(f, q, segs, n) ==
    f = [k \in 0..n |-> IF k = 0 THEN q
                         ELSE Append(Without(f[k - 1], segs[k].id), SegmentUpdate(segs[k]))]

\* There is such a function for every number of segments.
LEMMA PushesExists == ASSUME NEW q, NEW segs, NEW n \in Nat PROVE \E f : Pushes(f, q, segs, n)
<1> DEFINE Bad == {k \in Nat : ~\E f : Pushes(f, q, segs, k)}
<1>1. SUFFICES ASSUME Bad # {} PROVE FALSE
  OBVIOUS
<1>2. PICK m \in Bad : \A j \in Bad : m <= j
  BY <1>1, LeastNumber
<1>3. m # 0
  <2>1. Pushes([k \in 0..0 |-> q], q, segs, 0)
    BY DEF Pushes
  <2> QED
    BY <1>2, <2>1
<1>4. m \in Nat /\ m - 1 \in Nat /\ ~(m <= m - 1)
  BY <1>2, <1>3
<1>5. PICK g : Pushes(g, q, segs, m - 1)
  BY <1>2, <1>4
<1> DEFINE f == [k \in 0..m |-> IF k = 0 THEN q
                         ELSE Append(Without(g[k - 1], segs[k].id), SegmentUpdate(segs[k]))]
<1>6. ASSUME NEW k \in 0..(m - 1) PROVE g[k] = f[k]
  <2>1. k \in 0..m
    BY <1>4
  <2> QED
    BY <1>5, <2>1 DEF Pushes
<1>7. f = [k \in 0..m |-> IF k = 0 THEN q
                         ELSE Append(Without(f[k - 1], segs[k].id), SegmentUpdate(segs[k]))]
  <2>1. \A k \in 0..m : k # 0 => g[k - 1] = f[k - 1]
    <3> TAKE k \in 0..m
    <3> HAVE k # 0
    <3>1. k - 1 \in 0..(m - 1)
      BY <1>4
    <3> HIDE DEF f
    <3> QED
      BY <1>6, <3>1
  <2> QED
    BY <2>1
<1> HIDE DEF f
<1>8. Pushes(f, q, segs, m)
  BY <1>7 DEF Pushes
<1> QED
  BY <1>2, <1>8

\* The queue after each of the segments of a commit.
LEMMA PushedIs ==
    ASSUME NEW q, NEW segs, Len(segs) \in Nat
    PROVE  /\ Pushed(q, segs)[0] = q
           /\ \A n \in 1..Len(segs) : Pushed(q, segs)[n] =
                Append(Without(Pushed(q, segs)[n - 1], segs[n].id), SegmentUpdate(segs[n]))
<1> DEFINE f == CHOOSE f : Pushes(f, q, segs, Len(segs))
<1>1. Pushes(f, q, segs, Len(segs))
  BY PushesExists
<1>2. Pushed(q, segs) = f
  BY DEF Pushed, Pushes
<1> HIDE DEF f
<1>3. f[0] = q /\ \A n \in 1..Len(segs) : f[n] =
                Append(Without(f[n - 1], segs[n].id), SegmentUpdate(segs[n]))
  <2>1. 0 \in 0..Len(segs) /\ \A n \in 1..Len(segs) : n \in 0..Len(segs) /\ n # 0
    OBVIOUS
  <2> QED
    BY <1>1, <2>1 DEF Pushes
<1> QED
  BY <1>2, <1>3

\* A host that reads the queue with the segments of a commit has them at the end of its
\* transcript and none of their partials; the rest is as without them.
Follows(x, a, segs, n) ==
    /\ Len(x) = Len(a) + n
    /\ \A k \in 1..Len(a) : x[k] = a[k]
    /\ \A k \in 1..n : x[Len(a) + k] = segs[k]
ReadsFinals(h, q, p, segs, n) ==
    /\ p \in Seq(Update)
    /\ \A k \in 1..Len(p) : p[k].kind = "partial" => \E j \in 1..Len(q) : q[j] = p[k]
    /\ Read(h, p).phase = Read(h, q).phase
    /\ Follows(Read(h, p).transcript, Read(h, q).transcript, segs, n)
    /\ \A j \in Ids : Read(h, p).partials[j] =
         IF \E k \in 1..n : segs[k].id = j THEN NoPartial ELSE Read(h, q).partials[j]

\* One more segment behind those that are queued.
LEMMA OneMoreFinal ==
    ASSUME NEW h \in View, NEW q \in Seq(Update), NEW p, NEW segs \in Seq(Segment),
           NEW n \in 0..(Len(segs) - 1), ReadsFinals(h, q, p, segs, n)
    PROVE  ReadsFinals(h, q, Append(Without(p, segs[n + 1].id), SegmentUpdate(segs[n + 1])), segs, n + 1)
<1> DEFINE s == segs[n + 1]
           w == Without(p, s.id)
           u == SegmentUpdate(s)
           t == Append(w, u)
<1>1. n + 1 \in 1..Len(segs) /\ s \in Segment /\ s.id \in Ids
  <2>1. n + 1 \in 1..Len(segs)
    OBVIOUS
  <2>2. s \in Segment
    BY <2>1
  <2> QED
    BY <2>1, <2>2 DEF Segment
<1>2. u \in Update /\ u.kind = "segment" /\ u.segment = s
  BY <1>1 DEF SegmentUpdate, Update
<1>3. /\ p \in Seq(Update) /\ w \in Seq(Update)
      /\ \A k \in 1..Len(w) : \E j \in 1..Len(p) : p[j] = w[k]
  BY RetainFrom DEF ReadsFinals, Without
<1>4. SameBut(Read(h, w), Read(h, p), s.id)
  BY <1>3, Coalesced
<1> HIDE DEF w, u, s
<1>5. Read(h, t) = Apply(Read(h, w), u)
  BY <1>2, <1>3, ReadOneMore
<1>6. Read(h, w) \in View /\ Read(h, p) \in View /\ Read(h, q) \in View
  BY <1>3, ReadTyped
<1>7. /\ Read(h, t).phase = Read(h, w).phase
      /\ Read(h, t).transcript = Append(Read(h, w).transcript, s)
      /\ Read(h, t).partials = [Read(h, w).partials EXCEPT ![s.id] = NoPartial]
  <2> DEFINE v == Read(h, w)
  <2> HIDE DEF v
  <2>1. v \in View /\ u \in Update
    BY <1>2, <1>6 DEF v
  <2>2. /\ Apply(v, u).phase = IF u.kind = "phase" THEN u.phase ELSE v.phase
        /\ Apply(v, u).transcript =
                IF u.kind = "segment" THEN Append(v.transcript, u.segment) ELSE v.transcript
        /\ u.kind = "segment" => Apply(v, u).partials = [v.partials EXCEPT ![u.segment.id] = NoPartial]
    BY ONLY <2>1, ApplyIs
  <2> QED
    BY <1>2, <1>5, <2>2 DEF v
<1>8. t \in Seq(Update) /\ Len(t) = Len(w) + 1 /\ t[Len(w) + 1] = u /\ \A k \in 1..Len(w) : t[k] = w[k]
  BY <1>2, <1>3
<1> HIDE DEF t
<1>9. ASSUME NEW k \in 1..Len(t), t[k].kind = "partial" PROVE \E j \in 1..Len(q) : q[j] = t[k]
  <2>1. k \in 1..Len(w) /\ t[k] = w[k]
    BY <1>2, <1>3, <1>8, <1>9
  <2>2. PICK j \in 1..Len(p) : p[j] = w[k]
    BY <1>3, <2>1
  <2>3. \A m \in 1..Len(p) : p[m].kind = "partial" => \E i \in 1..Len(q) : q[i] = p[m]
    BY DEF ReadsFinals
  <2> QED
    BY ONLY <1>9, <2>1, <2>2, <2>3
<1>10. Read(h, t).phase = Read(h, q).phase
  BY <1>4, <1>7 DEF SameBut, ReadsFinals
<1>11. Follows(Read(h, t).transcript, Read(h, q).transcript, segs, n + 1)
  <2> DEFINE x == Read(h, p).transcript
             y == Read(h, t).transcript
             a == Read(h, q).transcript
  <2>1. x \in Seq(Segment) /\ a \in Seq(Segment)
    BY <1>6 DEF View
  <2>2. y = Append(x, s) /\ Follows(x, a, segs, n) /\ n \in Nat
    BY <1>4, <1>7 DEF SameBut, ReadsFinals
  <2>3. s = segs[n + 1]
    BY DEF s
  <2> HIDE DEF x, y, a
  <2>4. /\ Len(a) \in Nat /\ Len(x) = Len(a) + n /\ Len(y) = Len(x) + 1
        /\ y[Len(x) + 1] = s /\ \A k \in 1..Len(x) : y[k] = x[k]
    BY <1>1, <2>1, <2>2 DEF Follows
  <2>5. ASSUME NEW k \in 1..Len(a) PROVE y[k] = a[k]
    BY <2>2, <2>4 DEF Follows
  <2>6. ASSUME NEW k \in 1..(n + 1) PROVE y[Len(a) + k] = segs[k]
    <3>1. CASE k = n + 1
      <4>1. Len(a) + k = Len(x) + 1
        BY <2>2, <2>4, <3>1
      <4> QED
        BY <2>3, <2>4, <3>1, <4>1
    <3>2. CASE k \in 1..n
      <4>1. Len(a) + k \in 1..Len(x)
        BY <2>2, <2>4, <3>2
      <4> QED
        BY <2>2, <2>4, <3>2, <4>1 DEF Follows
    <3>3. k = n + 1 \/ k \in 1..n
      BY ONLY <2>2, k \in 1..(n + 1)
    <3> QED
      BY <3>1, <3>2, <3>3
  <2>7. Len(y) = Len(a) + (n + 1)
    BY <2>2, <2>4
  <2>8. Follows(y, a, segs, n + 1)
    BY <2>5, <2>6, <2>7 DEF Follows
  <2> QED
    BY <2>8 DEF y, a
<1>12. ASSUME NEW j \in Ids
       PROVE  Read(h, t).partials[j] =
                IF \E k \in 1..(n + 1) : segs[k].id = j THEN NoPartial ELSE Read(h, q).partials[j]
  <2>1. Read(h, w).partials \in [Ids -> AnyPartial]
    BY <1>6 DEF View
  <2>2. Read(h, t).partials[j] = IF j = s.id THEN NoPartial ELSE Read(h, w).partials[j]
    BY <1>7, <2>1
  <2>3. j # s.id => Read(h, w).partials[j] = Read(h, p).partials[j]
    BY <1>4 DEF SameBut
  <2>4. Read(h, p).partials[j] =
         IF \E k \in 1..n : segs[k].id = j THEN NoPartial ELSE Read(h, q).partials[j]
    BY DEF ReadsFinals
  <2>5. (\E k \in 1..(n + 1) : segs[k].id = j) <=> (j = s.id \/ \E k \in 1..n : segs[k].id = j)
    <3>1. \A k \in 1..(n + 1) : k = n + 1 \/ k \in 1..n
      OBVIOUS
    <3>2. n + 1 \in 1..(n + 1) /\ \A k \in 1..n : k \in 1..(n + 1)
      OBVIOUS
    <3> QED
      BY <3>1, <3>2 DEF s
  <2> QED
    BY <2>2, <2>3, <2>4, <2>5
<1>13. ReadsFinals(h, q, t, segs, n + 1)
  BY <1>8, <1>9, <1>10, <1>11, <1>12 DEF ReadsFinals
<1> QED
  BY <1>13 DEF t, w, u, s

\* All the segments of a commit.
LEMMA FinalsRead ==
    ASSUME NEW h \in View, NEW q \in Seq(Update), NEW segs \in Seq(Segment)
    PROVE  ReadsFinals(h, q, Pushed(q, segs)[Len(segs)], segs, Len(segs))
<1> DEFINE P == Pushed(q, segs)
           G == {n \in 0..Len(segs) : ReadsFinals(h, q, P[n], segs, n)}
<1>1. P[0] = q /\ \A n \in 1..Len(segs) : P[n] =
                Append(Without(P[n - 1], segs[n].id), SegmentUpdate(segs[n]))
  BY PushedIs
<1> HIDE DEF P
<1>2. 0 \in G
  <2>1. Read(h, q) \in View
    BY ReadTyped
  <2>2. Follows(Read(h, q).transcript, Read(h, q).transcript, segs, 0)
    <3>1. Len(Read(h, q).transcript) \in Nat
      BY <2>1 DEF View
    <3> QED
      BY <3>1 DEF Follows
  <2>3. ReadsFinals(h, q, q, segs, 0)
    BY <2>2 DEF ReadsFinals
  <2> QED
    BY <1>1, <2>3
<1>3. ASSUME NEW n \in 0..(Len(segs) - 1), n \in G PROVE n + 1 \in G
  <2>1. n + 1 \in 1..Len(segs) /\ n + 1 \in 0..Len(segs) /\ (n + 1) - 1 = n
    OBVIOUS
  <2>2. P[n + 1] = Append(Without(P[n], segs[n + 1].id), SegmentUpdate(segs[n + 1]))
    BY <1>1, <2>1
  <2>3. ReadsFinals(h, q, P[n], segs, n)
    BY <1>3
  <2>4. ReadsFinals(h, q, P[n + 1], segs, n + 1)
    BY <2>2, <2>3, OneMoreFinal
  <2> QED
    BY <2>1, <2>4
<1> HIDE DEF G
<1>4. 0..Len(segs) \subseteq G
  <2> DEFINE N == Len(segs)
  <2>1. N \in Nat /\ \A n \in 0..(N - 1) : n \in G => n + 1 \in G
    BY <1>3
  <2> HIDE DEF N
  <2>2. 0..N \subseteq G
    BY <1>2, <2>1, AllUpTo
  <2> QED
    BY <2>2 DEF N
<1>5. Len(segs) \in 0..Len(segs)
  OBVIOUS
<1> QED
  BY <1>4, <1>5 DEF G, P

-----------------------------------------------------------------------------
ViewTypes ==
    /\ phase \in Phases /\ updates \in Seq(Update) /\ needsReset \in BOOLEAN
    /\ host \in View

\* A settled session shows no partials.
SettledIsClear == outcome # "none" => partials = [id \in Ids |-> NoPartial]

\* What the host has seen confirmed is a beginning of the transcript.
Begins(p, q) == Len(p) <= Len(q) /\ \A k \in 1..Len(p) : p[k] = q[k]
HostBehind == Begins(host.transcript, transcript)

\* While an id is open, the host shows its partial or an earlier revision.
OldRevisions ==
    outcome = "none" =>
        \A id \in Ids : completed[id] = Open =>
            \/ host.partials[id] = partials[id]
            \/ host.partials[id].revision < partials[id].revision

\* A queued partial is the latest one of an open id.
QueuedAreLatest ==
    outcome = "none" /\ Enabled /\ ~needsReset =>
        \A k \in 1..Len(updates) : updates[k].kind = "partial" =>
            /\ completed[updates[k].id] = Open /\ updates[k].revision > 0
            /\ partials[updates[k].id] =
                 [revision |-> updates[k].revision, text |-> updates[k].text]

IncrementsWork == outcome = "none" => IncrementsSuffice

ViewInv ==
    /\ ViewTypes /\ SettledIsClear /\ HostBehind /\ OldRevisions /\ QueuedAreLatest
    /\ IncrementsWork /\ NoPartialBesideItsFinal

AllInv == StoreInv /\ BudgetInv /\ LiveInv /\ ViewInv

-----------------------------------------------------------------------------
\* What the store says of an id that has completed, and of a session that has settled.
LEMMA StoreFacts ==
    ASSUME StoreInv, BudgetInv
    PROVE  /\ transcript \in Seq(Segment) /\ partials \in [Ids -> AnyPartial]
           /\ completed \in [Ids -> Nat \cup {Open, Unindexed}]
           /\ \A id \in Ids : partials[id].revision = 0 => partials[id] = NoPartial
           /\ outcome = "none" => \A id \in Ids : completed[id] # Open => partials[id] = NoPartial
           /\ \A s \in TranscriptSet \cup pending : s \in Segment /\ completed[s.id] = s.index
<1>1. /\ transcript \in Seq(Segment) /\ completed \in [Ids -> Nat \cup {Open, Unindexed}]
      /\ pending \subseteq Segment
  BY DEF StoreInv, StoreTypes
<1>2. partials \in [Ids -> Partial]
  BY DEF BudgetInv, BudgetTypes
<1>3. partials \in [Ids -> AnyPartial]
  BY <1>2, LimitsAssumption DEF Partial, AnyPartial
<1>4. ASSUME NEW id \in Ids, partials[id].revision = 0 PROVE partials[id] = NoPartial
  <2>1. partials[id] \in AnyPartial /\ partials[id].text = <<>>
    BY <1>3, <1>4 DEF BudgetInv, NoHiddenText, HasPartial
  <2> QED
    BY <1>4, <2>1 DEF AnyPartial, NoPartial
<1>5. ASSUME outcome = "none", NEW id \in Ids, completed[id] # Open PROVE partials[id] = NoPartial
  <2>1. ~HasPartial(id)
    BY <1>5 DEF BudgetInv, IdsAccounted
  <2>2. partials[id].revision \in Nat
    BY <1>3 DEF AnyPartial
  <2>3. partials[id].revision = 0
    BY <2>1, <2>2 DEF HasPartial
  <2> QED
    BY <1>4, <2>3
<1>6. \A s \in TranscriptSet \cup pending : s \in Segment /\ completed[s.id] = s.index
  BY <1>1 DEF StoreInv, FinalsInPlace, FinalsHome, TranscriptSet
<1> QED
  BY <1>1, <1>3, <1>4, <1>5, <1>6

\* CaughtUp in terms of Read, now and after a step.
LEMMA CaughtUpIs == CaughtUp = Read(host, updates) /\ CaughtUp' = Read(host', updates')
<1>1. CaughtUp = Read(host, updates)
  BY DEF CaughtUp, Read
<1>2. CaughtUp' = Read(host', updates')
  BY DEF CaughtUp, Read, FoldLeft, MapThenFoldSet, Apply, Max, NoPartial
<1> QED
  BY <1>1, <1>2

\* The same state, as far as the view goes.
LEMMA ViewUntouched ==
    ASSUME ViewInv, Enabled' => Enabled,
           UNCHANGED <<transcript, pending, completed, partials, outcome, phase, updates,
                       needsReset, host>>
    PROVE  ViewInv'
<1>1. ViewTypes' /\ SettledIsClear' /\ HostBehind' /\ OldRevisions' /\ QueuedAreLatest'
  BY DEF ViewInv, ViewTypes, SettledIsClear, HostBehind, Begins, OldRevisions, QueuedAreLatest
<1>2. CaughtUp' = CaughtUp
  BY CaughtUpIs
<1>3. TranscriptSet' = TranscriptSet
  BY DEF TranscriptSet
<1>4. Stale(CaughtUp)' = Stale(CaughtUp)
  BY <1>2 DEF Stale
<1>5. IncrementsWork'
  BY <1>2, <1>3, <1>4 DEF ViewInv, IncrementsWork, IncrementsSuffice
<1>6. NoPartialBesideItsFinal'
  BY DEF ViewInv, NoPartialBesideItsFinal
<1> QED
  BY <1>1, <1>5, <1>6 DEF ViewInv

\* A change of the store or the phase does not reach the host yet; the queue counts only
\* where it is not to be replaced by a Reset.
LEMMA HostStays ==
    ASSUME AllInv, outcome = "none", UNCHANGED <<subscriber, host>>,
           phase' \in Phases, Begins(host.transcript, transcript'),
           SettledIsClear', OldRevisions',
           updates' \in Seq(Update), needsReset' \in BOOLEAN,
           Enabled /\ ~needsReset' => QueuedAreLatest' /\ IncrementsSuffice'
    PROVE  ViewInv'
<1>1. Enabled' = Enabled
  BY DEF Enabled
<1>2. ViewTypes' /\ HostBehind' /\ NoPartialBesideItsFinal'
  BY DEF AllInv, ViewInv, ViewTypes, HostBehind, Begins, NoPartialBesideItsFinal
<1>3. QueuedAreLatest' /\ IncrementsWork'
  BY <1>1 DEF QueuedAreLatest, IncrementsWork, IncrementsSuffice
<1> QED
  BY <1>2, <1>3 DEF ViewInv

\* A beginning stays one when more is put behind.
LEMMA BeginsFurther ==
    ASSUME NEW S, NEW p, NEW q \in Seq(S), NEW c \in Seq(S), Len(p) \in Nat, Begins(p, q)
    PROVE  Begins(p, q \o c)
<1>1. Len(q \o c) = Len(q) + Len(c) /\ \A k \in 1..Len(q) : (q \o c)[k] = q[k]
  OBVIOUS
<1>2. Len(q) \in Nat /\ Len(c) \in Nat
  OBVIOUS
<1> QED
  BY <1>1, <1>2 DEF Begins

\* The phase changes while the session runs.
LEMMA PhaseView ==
    ASSUME AllInv, outcome = "none", UNCHANGED storeVars, phase' \in Phases, ObservePhase,
           UNCHANGED hostVars
    PROVE  ViewInv'
<1> DEFINE r == Retain(updates, PhaseUpdates)
           u == PhaseUpdate(phase')
           q == Append(r, u)
<1>1. /\ updates \in Seq(Update) /\ needsReset \in BOOLEAN /\ host \in View
      /\ UNCHANGED <<transcript, pending, completed, partials, outcome, subscriber, host>>
  BY DEF AllInv, ViewInv, ViewTypes, storeVars, texts, hostVars
<1>2. u \in Update /\ u.kind = "phase" /\ u.phase = phase'
  BY DEF PhaseUpdate, Update
<1>3. /\ r \in Seq(Update)
      /\ \A k \in 1..Len(r) : \E j \in 1..Len(updates) : updates[j] = r[k]
  BY <1>1, RetainFrom
<1>4. Read(host, r).transcript = CaughtUp.transcript /\ Read(host, r).partials = CaughtUp.partials
  BY <1>1, PhasesCoalesced, CaughtUpIs
<1>5. Begins(host.transcript, transcript') /\ SettledIsClear' /\ OldRevisions'
  BY <1>1 DEF AllInv, ViewInv, HostBehind, SettledIsClear, OldRevisions
<1> HIDE DEF r, u
<1>6. Read(host, q) = Apply(Read(host, r), u) /\ Read(host, r) \in View
  BY <1>1, <1>2, <1>3, ReadOneMore, ReadTyped
<1>7. /\ Read(host, q).transcript = CaughtUp.transcript /\ Read(host, q).partials = CaughtUp.partials
      /\ Read(host, q).phase = phase'
  <2> DEFINE v == Read(host, r)
  <2> HIDE DEF v
  <2>1. /\ Apply(v, u).phase = IF u.kind = "phase" THEN u.phase ELSE v.phase
        /\ Apply(v, u).transcript =
                IF u.kind = "segment" THEN Append(v.transcript, u.segment) ELSE v.transcript
        /\ u.kind = "phase" => Apply(v, u).partials = v.partials
    BY <1>2, <1>6, ApplyIs DEF v
  <2> QED
    BY <1>2, <1>4, <1>6, <2>1 DEF v
<1>8. /\ q \in Seq(Update)
      /\ \A k \in 1..Len(q) : q[k].kind = "partial" => \E j \in 1..Len(updates) : updates[j] = q[k]
  <2>1. /\ q \in Seq(Update) /\ Len(q) = Len(r) + 1 /\ q[Len(r) + 1] = u
        /\ Len(r) \in Nat /\ \A k \in 1..Len(r) : q[k] = r[k]
    BY <1>2, <1>3
  <2>2. \A k \in 1..Len(q) : k = Len(r) + 1 \/ k \in 1..Len(r)
    BY <2>1
  <2> QED
    BY <1>2, <1>3, <2>1, <2>2
<1> HIDE DEF q
<1>9. CASE ~Observing /\ UNCHANGED queueVars
  BY <1>1, <1>5, <1>9, HostStays DEF Observing, queueVars, AllInv, ViewInv, ViewTypes
<1>10. CASE Observing /\ RequireReset
  <2>1. updates' \in Seq(Update) /\ needsReset' = TRUE
    BY <1>10 DEF RequireReset
  <2> QED
    BY <1>1, <1>5, <2>1, HostStays
<1>11. CASE Observing /\ updates' = q /\ UNCHANGED needsReset
  <2>1. Enabled /\ ~needsReset /\ Enabled' = Enabled
    BY <1>1, <1>11 DEF Observing, Enabled
  <2>2. QueuedAreLatest'
    BY <1>1, <1>8, <1>11, <2>1 DEF AllInv, ViewInv, QueuedAreLatest
  <2>3. CaughtUp' = Read(host, q)
    BY <1>1, <1>11, CaughtUpIs
  <2>4. TranscriptSet' = TranscriptSet /\ Stale(CaughtUp)' = Stale(CaughtUp)
    BY <1>1, <1>7, <2>3 DEF TranscriptSet, Stale
  <2>5. IncrementsSuffice'
    BY <1>1, <1>7, <2>1, <2>3, <2>4 DEF AllInv, ViewInv, IncrementsWork, IncrementsSuffice
  <2> QED
    BY <1>1, <1>5, <1>8, <1>11, <2>2, <2>5, HostStays
<1> QED
  BY <1>9, <1>10, <1>11 DEF ObservePhase, Push, q, r, u

\* The session ends.
LEMMA EndView ==
    ASSUME AllInv, Settle("ok") \/ Settle("error"), outcome = "none", phase' \in Phases,
           ObserveTerminal, UNCHANGED hostVars
    PROVE  ViewInv'
<1>1. UNCHANGED <<subscriber, host>> /\ outcome' # "none"
  BY DEF Settle, hostVars
<1>2. partials' = [id \in Ids |-> NoPartial] /\ transcript' = transcript \o InOrder(WithText(pending))
  BY DEF Settle
<1>3. InOrder(WithText(pending)) \in Seq(Segment)
  <2> DEFINE w == WithText(pending)
  <2>1. w \in SUBSET pending /\ pending \in SUBSET Segment /\ IsFiniteSet(pending)
    BY DEF AllInv, StoreInv, StoreTypes, WithText
  <2>2. IsFiniteSet(w) /\ (\A s \in w : s.index \in Nat) /\ \A r, s \in w : r.index = s.index => r = s
    BY <2>1, FS_Subset DEF AllInv, StoreInv, FinalsInPlace, FinalsHome, Segment
  <2> HIDE DEF w
  <2>3. Cardinality(w) \in Nat /\ InOrder(w) \in [1..Cardinality(w) -> w]
    BY <2>2, OrderFound
  <2>4. InOrder(w) \in Seq(w)
    BY <2>3
  <2> QED
    BY <2>1, <2>4 DEF w
<1>4. Begins(host.transcript, transcript')
  <2>1. transcript \in Seq(Segment) /\ Len(host.transcript) \in Nat
    BY DEF AllInv, StoreInv, StoreTypes, ViewInv, ViewTypes, View
  <2> QED
    BY <1>2, <1>3, <2>1, BeginsFurther DEF AllInv, ViewInv, HostBehind
<1>5. SettledIsClear' /\ OldRevisions'
  BY <1>1, <1>2 DEF SettledIsClear, OldRevisions
<1>6. updates' \in Seq(Update) /\ needsReset' \in BOOLEAN /\ (Enabled => needsReset')
  <2>1. CASE Enabled
    <3>1. updates' = <<>> /\ needsReset' = TRUE
      BY <2>1 DEF ObserveTerminal, RequireReset
    <3> QED
      BY <3>1
  <2>2. CASE ~Enabled
    BY <2>2 DEF ObserveTerminal, queueVars, AllInv, ViewInv, ViewTypes
  <2> QED
    BY <2>1, <2>2
<1> QED
  BY <1>1, <1>4, <1>5, <1>6, HostStays

\* What the subscriber does without a change to what it has.
LEMMA SubscriberView ==
    ASSUME AllInv, Subscribe \/ DropSubscription \/ ReceiveNothing \/ \E thread : Signal(thread)
    PROVE  ViewInv'
<1>1. UNCHANGED <<transcript, pending, completed, partials, outcome, phase, host>>
  BY DEF Subscribe, DropSubscription, ReceiveNothing, Signal, storeVars, texts
<1>2. CASE ReceiveNothing \/ \E thread : Signal(thread)
  <2>1. UNCHANGED <<updates, needsReset>> /\ (Enabled' => Enabled)
    BY <1>2 DEF ReceiveNothing, Signal, queueVars, Enabled
  <2> QED
    BY <1>1, <2>1, ViewUntouched DEF AllInv
<1>3. CASE Subscribe \/ DropSubscription
  <2>1. updates' = <<>> /\ needsReset' \in BOOLEAN /\ ~(Enabled' /\ ~needsReset')
    BY <1>3 DEF Subscribe, DropSubscription, RequireReset, Enabled
  <2>2. ViewTypes' /\ SettledIsClear' /\ HostBehind' /\ OldRevisions' /\ QueuedAreLatest'
    BY <1>1, <2>1 DEF AllInv, ViewInv, ViewTypes, SettledIsClear, HostBehind, Begins, OldRevisions, QueuedAreLatest
  <2>3. IncrementsWork' /\ NoPartialBesideItsFinal'
    BY <1>1, <2>1 DEF AllInv, ViewInv, IncrementsWork, IncrementsSuffice, NoPartialBesideItsFinal
  <2> QED
    BY <2>2, <2>3 DEF ViewInv
<1> QED
  BY <1>2, <1>3

-----------------------------------------------------------------------------
\* A call that changes nothing.
LEMMA CallIsNothing ==
    ASSUME AllInv, NoOp \/ Fail("protocol") \/ Fail("resource"), UNCHANGED <<phase, queueVars, hostVars>>
    PROVE  ViewInv'
<1>1. /\ UNCHANGED <<transcript, pending, completed, partials, outcome, phase, updates, needsReset, host>>
      /\ Enabled' = Enabled
  BY DEF NoOp, Fail, texts, queueVars, hostVars, Enabled
<1> QED
  BY <1>1, ViewUntouched DEF AllInv

\* A partial is replaced.
LEMMA PartialView ==
    ASSUME AllInv, outcome = "none", NEW id \in Ids, completed[id] = Open, NEW text \in Seq(Chars),
           partials' = [partials EXCEPT ![id] = [revision |-> NextRevision(id), text |-> text]],
           UNCHANGED <<transcript, pending, completed, outcome, phase, hostVars>>,
           ObservePartial(id)
    PROVE  ViewInv'
<1> DEFINE p == [revision |-> NextRevision(id), text |-> text]
           r == Without(updates, id)
           u == PartialUpdate(id, p)
           q == Append(r, u)
<1>1. /\ updates \in Seq(Update) /\ needsReset \in BOOLEAN /\ host \in View /\ phase \in Phases
      /\ UNCHANGED <<subscriber, host>>
  BY DEF AllInv, ViewInv, ViewTypes, hostVars
<1>2. partials \in [Ids -> AnyPartial] /\ host.partials \in [Ids -> AnyPartial]
  BY <1>1, StoreFacts DEF AllInv, View
<1>3. /\ p \in AnyPartial /\ p.revision = partials[id].revision + 1 /\ p.revision > 0
      /\ partials' = [partials EXCEPT ![id] = p] /\ partials[id].revision \in Nat
      /\ p = [revision |-> p.revision, text |-> p.text]
  BY <1>2 DEF AnyPartial, NextRevision
<1> HIDE DEF p
<1>4. /\ u \in Update /\ u.kind = "partial" /\ u.id = id
      /\ [revision |-> u.revision, text |-> u.text] = p /\ u.revision > 0
  BY <1>3 DEF PartialUpdate, Update, AnyPartial
<1>5. /\ r \in Seq(Update)
      /\ \A k \in 1..Len(r) : r[k] \notin PartialUpdates(id) /\ \E j \in 1..Len(updates) : updates[j] = r[k]
  BY <1>1, RetainFrom DEF Without
<1>6. \A k \in 1..Len(r) : r[k].kind = "partial" => r[k].id \in Ids /\ r[k].id # id
  <2> TAKE k \in 1..Len(r)
  <2> HAVE r[k].kind = "partial"
  <2>1. r[k] \in Update /\ r[k] \notin PartialUpdates(id)
    BY <1>5
  <2>2. r[k] \in [kind : {"partial"}, id : Ids, revision : Nat, text : Seq(Chars)]
    BY <2>1 DEF Update
  <2> QED
    BY <2>1, <2>2 DEF PartialUpdates
<1>7. SameBut(Read(host, r), CaughtUp, id)
  BY <1>1, Coalesced, CaughtUpIs
<1> HIDE DEF r, u
<1>8. Read(host, q) = Apply(Read(host, r), u) /\ Read(host, r) \in View
  BY <1>1, <1>4, <1>5, ReadOneMore, ReadTyped
<1>9. /\ Read(host, q).transcript = CaughtUp.transcript /\ Read(host, q).phase = CaughtUp.phase
      /\ \A j \in Ids : Read(host, q).partials[j] = IF j = id THEN p ELSE CaughtUp.partials[j]
  <2> DEFINE v == Read(host, r)
  <2> HIDE DEF v
  <2>1. /\ Apply(v, u).phase = IF u.kind = "phase" THEN u.phase ELSE v.phase
        /\ Apply(v, u).transcript =
                IF u.kind = "segment" THEN Append(v.transcript, u.segment) ELSE v.transcript
        /\ u.kind = "partial" => u.id \in Ids /\
                Apply(v, u).partials = [v.partials EXCEPT ![u.id] = [revision |-> u.revision, text |-> u.text]]
    BY <1>4, <1>8, ApplyIs DEF v
  <2>2. v.partials \in [Ids -> AnyPartial]
    BY <1>8 DEF v, View
  <2>3. Apply(v, u).partials = [v.partials EXCEPT ![id] = p]
    BY <1>4, <2>1
  <2> QED
    BY <1>4, <1>7, <1>8, <2>1, <2>2, <2>3 DEF v, SameBut
<1>10. /\ q \in Seq(Update) /\ Len(q) = Len(r) + 1 /\ q[Len(r) + 1] = u
       /\ Len(r) \in Nat /\ \A k \in 1..Len(r) : q[k] = r[k]
  BY <1>4, <1>5
<1> HIDE DEF q
<1>11. Begins(host.transcript, transcript') /\ SettledIsClear'
  BY DEF AllInv, ViewInv, HostBehind, SettledIsClear
<1>12. OldRevisions'
  <2> SUFFICES ASSUME NEW j \in Ids, completed[j] = Open
               PROVE  \/ host.partials[j] = partials'[j]
                      \/ host.partials[j].revision < partials'[j].revision
    BY <1>1 DEF OldRevisions
  <2>1. host.partials[j] = partials[j] \/ host.partials[j].revision < partials[j].revision
    BY DEF AllInv, ViewInv, OldRevisions
  <2>2. CASE j = id
    <3>1. host.partials[j].revision \in Nat /\ partials'[j] = p
      BY <1>2, <1>3, <2>2 DEF AnyPartial
    <3>2. host.partials[j].revision < p.revision
      BY <1>3, <2>1, <2>2, <3>1
    <3> QED
      BY <3>1, <3>2
  <2>3. CASE j # id
    BY <1>2, <1>3, <2>1, <2>3
  <2> QED
    BY <2>2, <2>3
<1>13. CASE ~Observing /\ UNCHANGED queueVars
  BY <1>1, <1>11, <1>12, <1>13, HostStays DEF Observing, queueVars
<1>14. CASE Observing /\ RequireReset
  <2>1. updates' \in Seq(Update) /\ needsReset' = TRUE
    BY <1>14 DEF RequireReset
  <2> QED
    BY <1>1, <1>11, <1>12, <2>1, HostStays
<1>15. CASE Observing /\ updates' = q /\ UNCHANGED needsReset
  <2>1. Enabled /\ ~needsReset /\ Enabled' = Enabled
    BY <1>1, <1>15 DEF Observing, Enabled
  <2>2. QueuedAreLatest'
    <3> SUFFICES ASSUME NEW k \in 1..Len(q), q[k].kind = "partial"
                 PROVE  /\ completed[q[k].id] = Open /\ q[k].revision > 0
                        /\ partials'[q[k].id] = [revision |-> q[k].revision, text |-> q[k].text]
      BY <1>15 DEF QueuedAreLatest
    <3>1. CASE k = Len(r) + 1
      BY <1>2, <1>3, <1>4, <1>10, <3>1
    <3>2. CASE k \in 1..Len(r)
      <4>1. q[k] = r[k] /\ q[k].id \in Ids /\ q[k].id # id
        BY <1>6, <1>10, <3>2
      <4>2. PICK j \in 1..Len(updates) : updates[j] = q[k]
        BY <1>5, <3>2, <4>1
      <4>3. /\ completed[q[k].id] = Open /\ q[k].revision > 0
            /\ partials[q[k].id] = [revision |-> q[k].revision, text |-> q[k].text]
        BY <2>1, <4>2 DEF AllInv, ViewInv, QueuedAreLatest
      <4> QED
        BY <1>2, <1>3, <4>1, <4>3
    <3> QED
      BY <1>10, <3>1, <3>2
  <2>3. CaughtUp' = Read(host, q)
    BY <1>1, <1>15, CaughtUpIs
  <2>4. TranscriptSet' = TranscriptSet
    BY DEF TranscriptSet
  <2>5. Stale(CaughtUp)' \subseteq Stale(CaughtUp)
    <3> SUFFICES ASSUME NEW j \in Ids, Read(host, q).partials[j] # partials'[j]
                 PROVE  CaughtUp.partials[j] # partials[j]
      BY <2>3 DEF Stale
    <3>1. j # id
      BY <1>2, <1>3, <1>9
    <3> QED
      BY <1>2, <1>3, <1>9, <3>1
  <2>6. IncrementsSuffice
    BY DEF AllInv, ViewInv, IncrementsWork
  <2>7. IncrementsSuffice'
    BY <1>9, <2>1, <2>3, <2>4, <2>5, <2>6 DEF IncrementsSuffice
  <2> QED
    BY <1>1, <1>10, <1>11, <1>12, <1>15, <2>2, <2>7, HostStays
<1>16. partials'[id] = p
  BY <1>2, <1>3
<1> QED
  BY <1>13, <1>14, <1>15, <1>16 DEF ObservePartial, Push, q, r, u

-----------------------------------------------------------------------------
\* What a commit brings into the transcript: the segments of its reply.
LEMMA FinalsEnter ==
    ASSUME StoreInv, outcome = "none", outcome' = outcome,
           NEW s \in Segment, completed[s.id] \notin Nat, ~IndexReused(s.index),
           NEW bytes, NEW removed, Drain(Put(pending, s), bytes, removed)
    PROVE  /\ reply'.segments \in Seq(Segment) /\ transcript' = transcript \o reply'.segments
           /\ reply'.removed = removed /\ reply'.error = "none"
           /\ \A k \in 1..Len(reply'.segments) : reply'.segments[k] \in pending \cup {s}
           /\ TranscriptSet' \cup pending' \subseteq TranscriptSet \cup pending \cup {s}
           /\ \/ reply'.segments = <<>>
              \/ \E k \in 1..Len(reply'.segments) : reply'.segments[k] = s
              \/ s \notin TranscriptSet' \cup pending'
<1> DEFINE segs == Put(pending, s)
           gap == FirstGap(segs, nextSegment)
           drained == Below(segs, gap)
           w == WithText(drained)
           n == Cardinality(w)
<1>1. /\ pending \subseteq Segment /\ IsFiniteSet(pending) /\ nextSegment \in Nat
      /\ \A r \in Segment : r.index \in Nat /\ r.id \in Ids
  BY DEF StoreInv, StoreTypes, Segment
<1>2. segs = pending \cup {s} /\ segs \subseteq Segment /\ IsFiniteSet(segs)
  <2>1. segs = pending \cup {s}
    BY DEF Put, IndexReused
  <2> QED
    BY <1>1, <2>1, FS_AddElement
<1>3. \A r \in segs : r.index \in Nat /\ r.index >= nextSegment /\ (r.index = nextSegment => r = s)
  BY <1>1, <1>2 DEF StoreInv, FinalsInPlace, FinalsHome, IndexReused
<1>4. \A r, t \in segs : r.index = t.index => r = t
  BY <1>2 DEF StoreInv, FinalsInPlace, FinalsHome, IndexReused
<1>5. /\ gap \in Nat /\ gap >= nextSegment
      /\ \A k \in nextSegment..(gap - 1) : \E r \in segs : r.index = k
  BY <1>1, <1>2, GapFound
<1>6. /\ pending' = segs \ drained /\ transcript' = transcript \o InOrder(w)
      /\ reply'.segments = InOrder(w) /\ reply'.removed = removed /\ reply'.error = "none"
  BY DEF Drain, Return
<1>7. drained = {r \in segs : r.index < gap} /\ w = {r \in drained : ~Blank(r.text)}
  BY DEF Below, WithText
<1> HIDE DEF segs, gap, drained, w
<1>8. /\ w \in SUBSET Segment /\ IsFiniteSet(w) /\ w \in SUBSET segs
      /\ \A r \in w : r.index >= nextSegment /\ ~Blank(r.text)
      /\ \A r, t \in w : r.index = t.index => r = t
  <2>1. w \in SUBSET segs
    BY <1>7
  <2> QED
    BY <1>2, <1>3, <1>4, <1>7, <2>1, FS_Subset
<1>9. TranscriptSet' = TranscriptSet \cup w
  BY <1>6, <1>8, TranscriptExtended
<1>10. /\ n \in Nat /\ InOrder(w) \in [1..n -> w]
       /\ \A r \in w : \E k \in 1..n : InOrder(w)[k] = r
  BY <1>1, <1>8, OrderFound
<1> HIDE DEF n
<1> DEFINE c == reply'.segments
<1>11. c \in [1..n -> w] /\ \A r \in w : \E k \in 1..n : c[k] = r
  BY <1>6, <1>10
<1>12. transcript' = transcript \o c
  BY <1>6
<1> HIDE DEF c
<1>13. c \in Seq(w) /\ Len(c) = n
  BY <1>10, <1>11
<1>14. c \in Seq(Segment) /\ \A k \in 1..Len(c) : c[k] \in pending \cup {s}
  BY <1>2, <1>8, <1>11, <1>13
<1>15. TranscriptSet' \cup pending' \subseteq TranscriptSet \cup pending \cup {s}
  BY <1>2, <1>6, <1>8, <1>9
<1>16. ASSUME c # <<>>, s \in TranscriptSet' \cup pending'
       PROVE  \E k \in 1..Len(c) : c[k] = s
  <2>1. PICK r \in w : TRUE
    <3>1. Len(c) > 0
      BY <1>16, <1>13
    <3>2. c[1] \in w
      BY <1>10, <1>11, <1>13, <3>1
    <3> QED
      BY <3>2
  <2>2. s.index < gap
    <3>1. r \in segs /\ r.index < gap /\ r.index >= nextSegment /\ r.index \in Nat
      BY <1>3, <1>7, <2>1
    <3>2. nextSegment \in nextSegment..(gap - 1)
      BY <1>1, <1>5, <3>1
    <3>3. PICK t \in segs : t.index = nextSegment
      BY <1>5, <3>2
    <3>4. t = s
      BY <1>3, <3>3
    <3> QED
      BY <1>1, <1>5, <3>1, <3>3, <3>4
  <2>3. s \in drained /\ s \notin pending'
    BY <1>2, <1>6, <1>7, <2>2
  <2>4. s \notin TranscriptSet
    BY <1>1 DEF StoreInv, FinalsInPlace, FinalsHome
  <2>5. s \in w
    BY <1>9, <1>16, <2>3, <2>4
  <2> QED
    BY <1>11, <1>13, <2>5
<1> QED
  BY <1>6, <1>12, <1>14, <1>15, <1>16 DEF c

\* A final is committed, or one that had no index is given it.
LEMMA FinalView ==
    ASSUME AllInv, outcome = "none", outcome' = outcome,
           NEW s \in Segment, completed[s.id] \notin Nat, ~IndexReused(s.index),
           completed' = [completed EXCEPT ![s.id] = s.index],
           partials' = [partials EXCEPT ![s.id] = NoPartial],
           NEW bytes, Drain(Put(pending, s), bytes, HasPartial(s.id)),
           UNCHANGED <<phase, hostVars>>, ObserveFinals(s.id, reply'.segments, reply'.removed)
    PROVE  ViewInv'
<1> DEFINE id == s.id
           segs == reply'.segments
           q == Without(updates, id)
           p == Pushed(q, segs)[Len(segs)]
           removed == HasPartial(id)
<1>1. /\ updates \in Seq(Update) /\ needsReset \in BOOLEAN /\ host \in View /\ phase \in Phases
      /\ UNCHANGED <<subscriber, host>> /\ id \in Ids /\ s.index \in Nat
  BY DEF AllInv, ViewInv, ViewTypes, hostVars, Segment
<1>2. /\ transcript \in Seq(Segment) /\ partials \in [Ids -> AnyPartial]
      /\ completed \in [Ids -> Nat \cup {Open, Unindexed}]
      /\ \A j \in Ids : partials[j].revision = 0 => partials[j] = NoPartial
      /\ \A j \in Ids : completed[j] # Open => partials[j] = NoPartial
      /\ \A r \in TranscriptSet \cup pending : r \in Segment /\ completed[r.id] = r.index
  BY StoreFacts DEF AllInv
<1>3. /\ segs \in Seq(Segment) /\ transcript' = transcript \o segs /\ reply'.removed = removed
      /\ \A k \in 1..Len(segs) : segs[k] \in pending \cup {s}
      /\ TranscriptSet' \cup pending' \subseteq TranscriptSet \cup pending \cup {s}
      /\ \/ segs = <<>>
         \/ \E k \in 1..Len(segs) : segs[k] = s
         \/ s \notin TranscriptSet' \cup pending'
  BY FinalsEnter DEF AllInv
<1> HIDE DEF segs
<1>4. /\ q \in Seq(Update)
      /\ \A k \in 1..Len(q) : q[k] \notin PartialUpdates(id) /\ \E j \in 1..Len(updates) : updates[j] = q[k]
  BY <1>1, RetainFrom DEF Without
<1>5. SameBut(Read(host, q), CaughtUp, id)
  BY <1>1, Coalesced, CaughtUpIs
<1> HIDE DEF q
<1>6. ReadsFinals(host, q, p, segs, Len(segs))
  BY <1>1, <1>3, <1>4, FinalsRead
<1> HIDE DEF p
<1>7. Begins(host.transcript, transcript')
  <2>1. Len(host.transcript) \in Nat
    BY <1>1 DEF View
  <2> QED
    BY <1>2, <1>3, <2>1, BeginsFurther DEF AllInv, ViewInv, HostBehind
<1>8. completed'[id] = s.index /\ partials'[id] = NoPartial
      /\ \A j \in Ids : j # id => completed'[j] = completed[j] /\ partials'[j] = partials[j]
  BY <1>1, <1>2
<1>9. completed'[id] # Open
  BY <1>1, <1>8, MarksAssumption
<1>10. SettledIsClear' /\ OldRevisions'
  BY <1>1, <1>8, <1>9 DEF AllInv, ViewInv, SettledIsClear, OldRevisions
<1>11. CASE ~Observing /\ UNCHANGED queueVars
  BY <1>1, <1>7, <1>10, <1>11, HostStays DEF Observing, queueVars
<1>12. CASE Observing /\ RequireReset
  <2>1. updates' \in Seq(Update) /\ needsReset' = TRUE
    BY <1>12 DEF RequireReset
  <2> QED
    BY <1>1, <1>7, <1>10, <2>1, HostStays
<1>13. CASE Observing /\ ~(removed /\ segs = <<>>) /\ updates' = p /\ UNCHANGED needsReset
  <2>1. Enabled /\ ~needsReset /\ Enabled' = Enabled
    BY <1>1, <1>13 DEF Observing, Enabled
  <2>2. \A k \in 1..Len(updates) : updates[k].kind = "partial" =>
            /\ updates[k].id \in Ids
            /\ completed[updates[k].id] = Open /\ updates[k].revision > 0
            /\ partials[updates[k].id] =
                 [revision |-> updates[k].revision, text |-> updates[k].text]
    <3>1. \A k \in 1..Len(updates) : updates[k] \in Update
      BY <1>1
    <3>2. \A u \in Update : u.kind = "partial" => u.id \in Ids
      BY DEF Update
    <3> QED
      BY <2>1, <3>1, <3>2 DEF AllInv, ViewInv, QueuedAreLatest
  <2>3. QueuedAreLatest'
    <3> SUFFICES ASSUME NEW k \in 1..Len(p), p[k].kind = "partial"
                 PROVE  /\ completed'[p[k].id] = Open /\ p[k].revision > 0
                        /\ partials'[p[k].id] = [revision |-> p[k].revision, text |-> p[k].text]
      BY <1>13 DEF QueuedAreLatest
    <3>1. PICK i \in 1..Len(q) : q[i] = p[k]
      BY <1>6 DEF ReadsFinals
    <3>2. p[k] \in Update /\ p[k] \notin PartialUpdates(id) /\ \E j \in 1..Len(updates) : updates[j] = p[k]
      BY <1>4, <3>1
    <3>3. p[k].id \in Ids /\ p[k].id # id
      <4>1. p[k] \in [kind : {"partial"}, id : Ids, revision : Nat, text : Seq(Chars)]
        BY <3>2 DEF Update
      <4> QED
        BY <3>2, <4>1 DEF PartialUpdates
    <3> QED
      BY <1>8, <2>2, <3>2, <3>3
  <2>4. CaughtUp' = Read(host, p)
    BY <1>1, <1>13, CaughtUpIs
  <2>5. IncrementsSuffice
    BY DEF AllInv, ViewInv, IncrementsWork
  <2>6. CaughtUp'.phase = phase'
    BY <1>5, <1>6, <2>1, <2>4, <2>5 DEF SameBut, ReadsFinals, IncrementsSuffice
  <2>7. CaughtUp'.transcript = transcript'
    <3> DEFINE x == CaughtUp'.transcript
               a == transcript
    <3>1. Read(host, p) \in View
      BY <1>1, <1>6, ReadTyped DEF ReadsFinals
    <3>2. x \in Seq(Segment)
      BY <2>4, <3>1 DEF View
    <3>3. Follows(x, a, segs, Len(segs))
      BY <1>5, <1>6, <2>1, <2>4, <2>5 DEF SameBut, ReadsFinals, IncrementsSuffice
    <3>4. a \in Seq(Segment) /\ transcript' = a \o segs
      BY <1>2, <1>3
    <3> HIDE DEF x, a
    <3>5. x = a \o segs
      <4>1. Len(x) = Len(a) + Len(segs) /\ Len(a) \in Nat /\ Len(segs) \in Nat
        BY <1>3, <3>3, <3>4 DEF Follows
      <4> DEFINE y == a \o segs
      <4>2. /\ y \in Seq(Segment) /\ Len(y) = Len(a) + Len(segs)
            /\ \A k \in 1..Len(a) : y[k] = a[k]
            /\ \A k \in 1..Len(segs) : y[Len(a) + k] = segs[k]
        BY <1>3, <3>4
      <4> HIDE DEF y
      <4>3. \A k \in 1..Len(x) : x[k] = y[k]
        <5> TAKE k \in 1..Len(x)
        <5>1. CASE k \in 1..Len(a)
          BY <3>3, <4>2, <5>1 DEF Follows
        <5>2. CASE k - Len(a) \in 1..Len(segs)
          <6> DEFINE i == k - Len(a)
          <6>1. Len(a) + i = k
            BY <4>1
          <6>2. i \in 1..Len(segs)
            BY <5>2
          <6> HIDE DEF i
          <6>3. x[Len(a) + i] = segs[i] /\ y[Len(a) + i] = segs[i]
            BY <3>3, <4>2, <6>2 DEF Follows
          <6> QED
            BY <6>1, <6>3
        <5> QED
          BY <4>1, <5>1, <5>2
      <4>4. x = y
        BY <3>2, <4>1, <4>2, <4>3
      <4> QED
        BY <4>4 DEF y
    <3> QED
      BY <3>4, <3>5 DEF x
  <2>8. ASSUME NEW j \in Ids, CaughtUp'.partials[j] # partials'[j]
        PROVE  completed'[j] \in Nat /\ ~\E r \in TranscriptSet' \cup pending' : r.id = j
    <3>1. CaughtUp'.partials[j] =
             IF \E k \in 1..Len(segs) : segs[k].id = j THEN NoPartial ELSE Read(host, q).partials[j]
      BY <1>6, <2>4 DEF ReadsFinals
    <3>2. ~\E k \in 1..Len(segs) : segs[k].id = j
      <4> SUFFICES ASSUME NEW k \in 1..Len(segs), segs[k].id = j PROVE FALSE
        OBVIOUS
      <4>1. CaughtUp'.partials[j] = NoPartial /\ j # id
        BY <1>8, <2>8, <3>1
      <4>2. segs[k] \in pending
        BY <1>3, <4>1
      <4>3. segs[k] \in Segment /\ completed[j] = segs[k].index
        BY <1>2, <4>2
      <4>4. completed[j] # Open
        BY <4>3, MarksAssumption DEF Segment
      <4> QED
        BY <1>2, <1>8, <2>8, <4>1, <4>4
    <3>3. CaughtUp'.partials[j] = Read(host, q).partials[j]
      BY <3>1, <3>2
    <3>4. CASE j # id
      <4>1. CaughtUp.partials[j] # partials[j]
        BY <1>5, <1>8, <2>8, <3>3, <3>4 DEF SameBut
      <4>2. completed[j] \in Nat /\ ~\E r \in TranscriptSet \cup pending : r.id = j
        BY <2>1, <2>5, <4>1 DEF IncrementsSuffice, Stale
      <4> QED
        BY <1>3, <1>8, <3>4, <4>2
    <3>5. CASE j = id /\ ~removed
      <4>1. partials[id] = NoPartial
        <5>1. partials[id].revision \in Nat
          BY <1>1, <1>2 DEF AnyPartial
        <5>2. partials[id].revision = 0
          BY <3>5, <5>1 DEF HasPartial
        <5> QED
          BY <1>1, <1>2, <5>2
      <4>2. \A k \in 1..Len(updates) : updates[k] \notin PartialUpdates(id)
        <5> SUFFICES ASSUME NEW k \in 1..Len(updates), updates[k] \in PartialUpdates(id) PROVE FALSE
          OBVIOUS
        <5>1. updates[k].kind = "partial" /\ updates[k].id = id
          BY DEF PartialUpdates
        <5>2. updates[k].revision > 0 /\ partials[id] = [revision |-> updates[k].revision, text |-> updates[k].text]
          BY <2>2, <5>1
        <5>3. partials[id].revision > 0
          BY <5>2
        <5> QED
          BY <4>1, <5>3 DEF NoPartial
      <4>3. q = updates
        BY <1>1, <4>2, RetainAll DEF q, Without
      <4>4. CaughtUp.partials[id] # partials[id]
        BY <1>8, <2>8, <3>3, <3>5, <4>1, <4>3, CaughtUpIs
      <4>5. completed[id] \in Nat
        BY <1>1, <2>1, <2>5, <4>4 DEF IncrementsSuffice, Stale
      <4> QED
        BY <4>5
    <3>6. CASE j = id /\ removed
      <4>1. s \notin TranscriptSet' \cup pending'
        BY <1>3, <1>13, <3>2, <3>6
      <4>2. ASSUME NEW r \in TranscriptSet' \cup pending', r.id = j PROVE FALSE
        <5>1. r \in TranscriptSet \cup pending
          BY <1>3, <4>1, <4>2
        <5>2. r.index \in Nat /\ completed[id] = r.index
          BY <1>2, <3>6, <4>2, <5>1 DEF Segment
        <5> QED
          BY <5>2
      <4> QED
        BY <1>1, <1>8, <3>6, <4>2
    <3> QED
      BY <3>4, <3>5, <3>6
  <2>9. IncrementsSuffice'
    <3>1. Stale(CaughtUp)' = {j \in Ids : CaughtUp'.partials[j] # partials'[j]}
      BY DEF Stale
    <3>2. \A j \in Stale(CaughtUp)' :
            completed'[j] \in Nat /\ ~\E r \in TranscriptSet' \cup pending' : r.id = j
      BY ONLY <2>8, <3>1
    <3> QED
      BY ONLY <2>6, <2>7, <3>2 DEF IncrementsSuffice
  <2>10. p \in Seq(Update)
    BY <1>6 DEF ReadsFinals
  <2> QED
    BY <1>1, <1>7, <1>10, <1>13, <2>3, <2>9, <2>10, HostStays
<1>14. \/ ~Observing /\ UNCHANGED queueVars
       \/ Observing /\ RequireReset
       \/ Observing /\ ~(removed /\ segs = <<>>) /\ updates' = p /\ UNCHANGED needsReset
  BY <1>3 DEF ObserveFinals, p, q, segs
<1> QED
  BY <1>11, <1>12, <1>13, <1>14

\* A final without an index: only its partial goes.
LEMMA FloatView ==
    ASSUME AllInv, outcome = "none", outcome' = outcome, NEW id \in Ids, completed[id] = Open,
           completed' = [completed EXCEPT ![id] = Unindexed],
           partials' = [partials EXCEPT ![id] = NoPartial],
           UNCHANGED <<transcript, pending, phase, hostVars>>,
           IF HasPartial(id) THEN ObserveRemoval ELSE UNCHANGED queueVars
    PROVE  ViewInv'
<1>1. /\ updates \in Seq(Update) /\ needsReset \in BOOLEAN /\ host \in View /\ phase \in Phases
      /\ UNCHANGED <<subscriber, host>> /\ Enabled' = Enabled
  BY DEF AllInv, ViewInv, ViewTypes, hostVars, Enabled
<1>2. /\ partials \in [Ids -> AnyPartial] /\ completed \in [Ids -> Nat \cup {Open, Unindexed}]
      /\ \A j \in Ids : partials[j].revision = 0 => partials[j] = NoPartial
  BY StoreFacts DEF AllInv
<1>3. /\ completed'[id] = Unindexed /\ partials'[id] = NoPartial
      /\ \A j \in Ids : j # id => completed'[j] = completed[j] /\ partials'[j] = partials[j]
  BY <1>2
<1>4. Unindexed # Open /\ Unindexed \notin Nat /\ Open \notin Nat
  BY MarksAssumption
<1>5. Begins(host.transcript, transcript') /\ SettledIsClear' /\ OldRevisions'
  BY <1>1, <1>3, <1>4 DEF AllInv, ViewInv, HostBehind, SettledIsClear, OldRevisions
<1>6. CASE HasPartial(id) \/ ~Observing
  <2>1. /\ updates' \in Seq(Update) /\ needsReset' \in BOOLEAN
        /\ ~(Enabled /\ ~needsReset')
    <3>1. CASE HasPartial(id) /\ Observing
      BY <3>1 DEF ObserveRemoval, RequireReset
    <3>2. CASE ~Observing
      BY <1>1, <3>2 DEF ObserveRemoval, queueVars, Observing
    <3> QED
      BY <1>6, <3>1, <3>2
  <2> QED
    BY <1>1, <1>5, <2>1, HostStays
<1>7. CASE ~HasPartial(id) /\ Observing
  <2>1. UNCHANGED <<updates, needsReset>> /\ Enabled /\ ~needsReset
    BY <1>7 DEF queueVars, Observing
  <2>2. partials[id] = NoPartial
    <3>1. partials[id].revision \in Nat
      BY <1>2 DEF AnyPartial
    <3>2. partials[id].revision = 0
      BY <1>7, <3>1 DEF HasPartial
    <3> QED
      BY <1>2, <3>2
  <2>3. partials' = partials
    BY <1>2, <2>2
  <2>4. \A k \in 1..Len(updates) : updates[k].kind = "partial" =>
            /\ updates[k].id \in Ids
            /\ completed[updates[k].id] = Open /\ updates[k].revision > 0
            /\ partials[updates[k].id] =
                 [revision |-> updates[k].revision, text |-> updates[k].text]
    <3>1. \A k \in 1..Len(updates) : updates[k] \in Update
      BY <1>1
    <3>2. \A u \in Update : u.kind = "partial" => u.id \in Ids
      BY DEF Update
    <3> QED
      BY <1>7, <3>1, <3>2 DEF Observing, AllInv, ViewInv, QueuedAreLatest
  <2>5. QueuedAreLatest'
    <3> SUFFICES ASSUME NEW k \in 1..Len(updates), updates[k].kind = "partial"
                 PROVE  completed'[updates[k].id] = Open
      BY <2>1, <2>3, <2>4 DEF QueuedAreLatest
    <3>1. updates[k].id # id
      <4> SUFFICES ASSUME updates[k].id = id PROVE FALSE
        OBVIOUS
      <4>1. updates[k].revision > 0 /\ partials[id] = [revision |-> updates[k].revision, text |-> updates[k].text]
        BY <2>4
      <4>2. partials[id].revision > 0
        BY <4>1
      <4> QED
        BY <1>7, <4>2 DEF HasPartial
    <3> QED
      BY <1>3, <2>4, <3>1
  <2>6. CaughtUp' = CaughtUp /\ TranscriptSet' = TranscriptSet
    BY <1>1, <2>1, CaughtUpIs DEF TranscriptSet
  <2>7. Stale(CaughtUp)' = Stale(CaughtUp)
    BY <2>3, <2>6 DEF Stale
  <2>8. IncrementsSuffice
    BY DEF AllInv, ViewInv, IncrementsWork
  <2>9. \A j \in Stale(CaughtUp) : completed'[j] = completed[j]
    <3> TAKE j \in Stale(CaughtUp)
    <3>1. j \in Ids /\ completed[j] \in Nat
      BY <2>1, <2>8 DEF IncrementsSuffice, Stale
    <3> QED
      BY <1>3, <1>4, <3>1
  <2>10. IncrementsSuffice'
    BY <2>1, <2>6, <2>7, <2>8, <2>9 DEF IncrementsSuffice
  <2> QED
    BY <1>1, <1>5, <2>1, <2>5, <2>10, HostStays
<1> QED
  BY <1>6, <1>7

-----------------------------------------------------------------------------
\* What the host has confirmed it keeps, whatever it reads.
LEMMA ReadOnlyAdds ==
    ASSUME NEW h \in View, NEW q \in Seq(Update)
    PROVE  Begins(h.transcript, Read(h, q).transcript)
<1> DEFINE G == {s \in Seq(Update) : Begins(h.transcript, Read(h, s).transcript)}
<1>1. <<>> \in G
  <2>1. Read(h, <<>>) = h /\ h.transcript \in Seq(Segment)
    BY ReadNothing DEF View
  <2>2. Begins(h.transcript, Read(h, <<>>).transcript)
    BY <2>1 DEF Begins
  <2> QED
    BY <2>2
<1>2. ASSUME NEW p \in Seq(Update), NEW u \in Update, p \in G PROVE Append(p, u) \in G
  <2> DEFINE v == Read(h, p)
             a == h.transcript
             b == v.transcript
             c == Read(h, Append(p, u)).transcript
  <2>1. v \in View /\ Read(h, Append(p, u)) = Apply(v, u)
    BY ReadTyped, ReadOneMore
  <2>2. Begins(a, b)
    BY <1>2
  <2> HIDE DEF v
  <2>3. c = IF u.kind = "segment" THEN Append(b, u.segment) ELSE b
    BY <2>1, ApplyIs
  <2>4. u.kind = "segment" => u.segment \in Segment
    BY <2>1, ApplyIs
  <2>5. a \in Seq(Segment) /\ b \in Seq(Segment)
    BY <2>1 DEF View
  <2> HIDE DEF a, b, c
  <2>6. Begins(a, c)
    <3>1. CASE u.kind = "segment"
      <4>1. c = Append(b, u.segment) /\ u.segment \in Segment
        BY <2>3, <2>4, <3>1
      <4>2. Len(c) = Len(b) + 1 /\ (\A k \in 1..Len(b) : c[k] = b[k]) /\ Len(a) \in Nat /\ Len(b) \in Nat
        BY <2>5, <4>1
      <4> QED
        BY <2>2, <4>2 DEF Begins
    <3>2. CASE u.kind # "segment"
      BY <2>2, <2>3, <3>2
    <3> QED
      BY <3>1, <3>2
  <2> QED
    BY <2>6 DEF a, c
<1> HIDE DEF G
<1>3. q \in G
  BY <1>1, <1>2, AllSequences
<1> QED
  BY <1>3 DEF G

\* What a host may not do in a step: take back what it has confirmed, or show a partial
\* other than the one it has or a later one.
GoesOn ==
    /\ Begins(host.transcript, host'.transcript)
    /\ \A id \in Ids : host'.partials[id] # NoPartial =>
         \/ host'.partials[id] = host.partials[id]
         \/ host'.partials[id].revision > host.partials[id].revision

\* The host reads the whole view.
LEMMA ResetView == ASSUME AllInv, ReceiveReset PROVE ViewInv' /\ GoesOn
<1>1. /\ host' = CurrentView /\ updates' = <<>> /\ needsReset' = FALSE
      /\ UNCHANGED <<transcript, pending, completed, partials, outcome, phase, subscriber>>
  BY DEF ReceiveReset, storeVars, texts
<1>2. /\ transcript \in Seq(Segment) /\ partials \in [Ids -> AnyPartial]
      /\ outcome = "none" => \A id \in Ids : completed[id] # Open => partials[id] = NoPartial
      /\ \A s \in TranscriptSet \cup pending : s \in Segment /\ completed[s.id] = s.index
  BY StoreFacts DEF AllInv
<1>3. /\ host'.phase = phase /\ host'.transcript = transcript /\ host'.partials = partials
      /\ host' \in View
  BY <1>1, <1>2 DEF CurrentView, AllInv, ViewInv, ViewTypes, View
<1>4. ViewTypes' /\ SettledIsClear' /\ HostBehind'
  <2>1. <<>> \in Seq(Update) /\ Begins(transcript, transcript)
    BY <1>2 DEF Begins
  <2>2. Begins(host'.transcript, transcript')
    BY <1>1, <1>3, <2>1
  <2>3. ViewTypes'
    BY <1>1, <1>3, <2>1 DEF AllInv, ViewInv, ViewTypes
  <2> QED
    BY <1>1, <2>2, <2>3 DEF AllInv, ViewInv, SettledIsClear, HostBehind
<1>5. OldRevisions' /\ QueuedAreLatest'
  BY <1>1, <1>3 DEF OldRevisions, QueuedAreLatest
<1>6. CaughtUp' = host'
  BY <1>1, CaughtUpIs, ReadNothing
<1>7. IncrementsWork'
  <2>1. Stale(CaughtUp)' = {}
    BY <1>1, <1>3, <1>6 DEF Stale
  <2> QED
    BY <1>1, <1>3, <1>6, <2>1 DEF IncrementsWork, IncrementsSuffice
<1>8. NoPartialBesideItsFinal'
  <2> SUFFICES ASSUME NEW k \in DOMAIN transcript PROVE partials[transcript[k].id] = NoPartial
    BY <1>3 DEF NoPartialBesideItsFinal
  <2>1. transcript[k] \in Segment /\ completed[transcript[k].id] = transcript[k].index
    BY <1>2 DEF TranscriptSet
  <2>2. transcript[k].id \in Ids /\ completed[transcript[k].id] # Open
    BY <2>1, MarksAssumption DEF Segment
  <2> QED
    BY <1>2, <2>2 DEF AllInv, ViewInv, SettledIsClear
<1>9. GoesOn
  <2>1. \A id \in Ids : partials[id] # NoPartial => outcome = "none" /\ completed[id] = Open
    BY <1>2 DEF AllInv, ViewInv, SettledIsClear
  <2>2. \A id \in Ids : host.partials[id].revision \in Nat /\ partials[id].revision \in Nat
    BY <1>2 DEF AllInv, ViewInv, ViewTypes, View, AnyPartial
  <2>3. \A id \in Ids : partials[id] # NoPartial =>
            partials[id] = host.partials[id] \/ host.partials[id].revision < partials[id].revision
    BY <2>1 DEF AllInv, ViewInv, OldRevisions
  <2>4. \A id \in Ids : partials[id] # NoPartial =>
            partials[id] = host.partials[id] \/ partials[id].revision > host.partials[id].revision
    BY <2>2, <2>3
  <2> QED
    BY <1>3, <2>4 DEF GoesOn, AllInv, ViewInv, HostBehind
<1> QED
  BY <1>4, <1>5, <1>7, <1>8, <1>9 DEF ViewInv

\* The host reads one update.
LEMMA UpdateView == ASSUME AllInv, ReceiveUpdate PROVE ViewInv' /\ GoesOn
<1> DEFINE u == Head(updates)
           q == Tail(updates)
<1>1. /\ host' = Apply(host, u) /\ updates' = q /\ ~needsReset /\ updates # <<>>
      /\ Enabled /\ Enabled' = Enabled
      /\ UNCHANGED <<transcript, pending, completed, partials, outcome, phase, needsReset, subscriber>>
  BY DEF ReceiveUpdate, storeVars, texts, Enabled
<1>2. outcome = "none"
  BY <1>1 DEF AllInv, LiveInv, EndsWithReset
<1>3. /\ transcript \in Seq(Segment) /\ partials \in [Ids -> AnyPartial]
      /\ \A id \in Ids : partials[id].revision = 0 => partials[id] = NoPartial
      /\ \A s \in TranscriptSet \cup pending : s \in Segment /\ completed[s.id] = s.index
  BY StoreFacts DEF AllInv
<1>4. updates \in Seq(Update) /\ host \in View
  BY DEF AllInv, ViewInv, ViewTypes
<1>5. /\ u = updates[1] /\ u \in Update /\ 1 \in 1..Len(updates)
      /\ q \in Seq(Update) /\ \A k \in 1..Len(q) : k + 1 \in 1..Len(updates) /\ q[k] = updates[k + 1]
  BY <1>1, <1>4
<1>6. Read(host', q) = Read(host, updates)
  BY <1>1, <1>4, ReadHead
<1> HIDE DEF u, q
<1>7. /\ host' \in View
      /\ u.kind \in {"phase", "partial", "segment"}
      /\ host'.transcript = IF u.kind = "segment" THEN Append(host.transcript, u.segment) ELSE host.transcript
      /\ u.kind = "phase" => host'.partials = host.partials
      /\ u.kind = "partial" => u.id \in Ids /\
           host'.partials = [host.partials EXCEPT ![u.id] = [revision |-> u.revision, text |-> u.text]]
      /\ u.kind = "segment" => u.segment \in Segment /\ u.segment.id \in Ids /\
           host'.partials = [host.partials EXCEPT ![u.segment.id] = NoPartial]
  BY <1>1, <1>4, <1>5, ApplyIs
<1>8. /\ host.transcript \in Seq(Segment) /\ host'.transcript \in Seq(Segment)
      /\ host.partials \in [Ids -> AnyPartial]
  BY <1>4, <1>7 DEF View
<1>9. u.kind = "partial" => /\ completed[u.id] = Open
                            /\ partials[u.id] = [revision |-> u.revision, text |-> u.text]
  BY <1>1, <1>2, <1>5 DEF AllInv, ViewInv, QueuedAreLatest
<1>10. \A id \in Ids :
         host'.partials[id] = IF u.kind = "partial" /\ u.id = id THEN partials[id]
                              ELSE IF u.kind = "segment" /\ u.segment.id = id THEN NoPartial
                              ELSE host.partials[id]
  BY <1>7, <1>8, <1>9
<1>11. CaughtUp' = CaughtUp
  BY <1>1, <1>6, CaughtUpIs
<1>12. IncrementsSuffice
  BY <1>2 DEF AllInv, ViewInv, IncrementsWork
<1>13. IncrementsSuffice'
  <2>1. Stale(CaughtUp)' = Stale(CaughtUp) /\ TranscriptSet' = TranscriptSet
    BY <1>1, <1>11 DEF Stale, TranscriptSet
  <2> QED
    BY <1>1, <1>11, <1>12, <2>1 DEF IncrementsSuffice
<1>14. Begins(host'.transcript, transcript)
  <2>1. CaughtUp.transcript = transcript
    BY <1>1, <1>12 DEF IncrementsSuffice
  <2> QED
    BY <1>5, <1>6, <1>7, <2>1, ReadOnlyAdds, CaughtUpIs
<1>15. ViewTypes' /\ SettledIsClear' /\ HostBehind'
  BY <1>1, <1>5, <1>7, <1>14 DEF AllInv, ViewInv, ViewTypes, SettledIsClear, HostBehind
<1>16. OldRevisions'
  <2> SUFFICES ASSUME NEW id \in Ids, completed[id] = Open
               PROVE  \/ host'.partials[id] = partials[id]
                      \/ host'.partials[id].revision < partials[id].revision
    BY <1>1 DEF OldRevisions
  <2>1. host.partials[id] = partials[id] \/ host.partials[id].revision < partials[id].revision
    BY <1>2 DEF AllInv, ViewInv, OldRevisions
  <2>2. partials[id].revision \in Nat
    BY <1>3 DEF AnyPartial
  <2>3. NoPartial = partials[id] \/ NoPartial.revision < partials[id].revision
    BY <1>3, <2>2 DEF NoPartial
  <2> QED
    BY <1>10, <2>1, <2>3
<1>17. QueuedAreLatest'
  BY <1>1, <1>2, <1>5 DEF AllInv, ViewInv, QueuedAreLatest
<1>18. NoPartialBesideItsFinal'
  <2> SUFFICES ASSUME NEW k \in 1..Len(host'.transcript)
               PROVE  host'.partials[host'.transcript[k].id] = NoPartial
    BY <1>8 DEF NoPartialBesideItsFinal
  <2> DEFINE s == host'.transcript[k]
  <2>1. k \in DOMAIN transcript /\ s = transcript[k]
    <3>1. Len(transcript) \in Nat /\ Len(host'.transcript) \in Nat
      BY <1>3, <1>8
    <3> QED
      BY <1>3, <1>14, <3>1 DEF Begins
  <2>2. s \in Segment /\ completed[s.id] = s.index
    BY <1>3, <2>1 DEF TranscriptSet
  <2>3. s.id \in Ids /\ completed[s.id] # Open
    BY <2>2, MarksAssumption DEF Segment
  <2>4. \/ u.kind = "segment" /\ s = u.segment
        \/ k \in 1..Len(host.transcript) /\ s = host.transcript[k]
    BY <1>7, <1>8
  <2>5. k \in 1..Len(host.transcript) /\ s = host.transcript[k] => host.partials[s.id] = NoPartial
    BY <1>8 DEF AllInv, ViewInv, NoPartialBesideItsFinal
  <2> HIDE DEF s
  <2>6. host'.partials[s.id] = NoPartial
    BY <1>9, <1>10, <2>3, <2>4, <2>5
  <2> QED
    BY <2>6 DEF s
<1>19. GoesOn
  <2>1. Begins(host.transcript, host'.transcript)
    <3>1. CASE u.kind = "segment"
      <4> DEFINE a == host.transcript
                 b == host'.transcript
      <4>1. b = Append(a, u.segment) /\ u.segment \in Segment /\ a \in Seq(Segment)
        BY <1>7, <1>8, <3>1
      <4> HIDE DEF a, b
      <4>2. Begins(a, b)
        BY <4>1 DEF Begins
      <4> QED
        BY <4>2 DEF a, b
    <3>2. CASE u.kind # "segment"
      BY <1>7, <1>8, <3>2 DEF Begins
    <3> QED
      BY <3>1, <3>2
  <2>2. ASSUME NEW id \in Ids, host'.partials[id] # NoPartial
        PROVE  \/ host'.partials[id] = host.partials[id]
               \/ host'.partials[id].revision > host.partials[id].revision
    <3>1. CASE u.kind = "partial" /\ u.id = id
      <4>1. host'.partials[id] = partials[id] /\ completed[id] = Open
        BY <1>9, <1>10, <3>1
      <4>2. host.partials[id] = partials[id] \/ host.partials[id].revision < partials[id].revision
        BY <1>2, <4>1 DEF AllInv, ViewInv, OldRevisions
      <4>3. host.partials[id].revision \in Nat /\ partials[id].revision \in Nat
        BY <1>3, <1>8 DEF AnyPartial
      <4> QED
        BY <4>1, <4>2, <4>3
    <3>2. CASE ~(u.kind = "partial" /\ u.id = id)
      BY <1>10, <2>2, <3>2
    <3> QED
      BY <3>1, <3>2
  <2> QED
    BY <2>1, <2>2 DEF GoesOn
<1>20. IncrementsWork'
  BY <1>13 DEF IncrementsWork
<1> QED
  BY <1>15, <1>16, <1>17, <1>18, <1>19, <1>20 DEF ViewInv

\* A driver's partial, whether anything is replaced or not.
LEMMA WorkerPartialView ==
    ASSUME AllInv, NEW id \in Ids, WorkerPartial(id) PROVE ViewInv'
<1>1. outcome = "none" /\ partials \in [Ids -> AnyPartial]
  BY StoreFacts DEF AllInv, WorkerPartial, SetPartial, AppendDelta
<1>2. UNCHANGED <<phase, hostVars>>
  BY DEF WorkerPartial
<1>3. CASE NoOp \/ Fail("resource")
  <2>1. reply'.changed = FALSE
    BY <1>3 DEF NoOp, Fail, Return
  <2>2. UNCHANGED queueVars
    BY <2>1 DEF WorkerPartial
  <2> QED
    BY <1>2, <1>3, <2>2, CallIsNothing
<1>4. ASSUME NEW text \in Seq(Chars), completed[id] = Open, ReplacePartial(id, text) PROVE ViewInv'
  <2>1. CASE Fail("resource")
    BY <1>3, <2>1
  <2>2. CASE ~Fail("resource")
    <3>1. /\ partials' = [partials EXCEPT ![id] = [revision |-> NextRevision(id), text |-> text]]
          /\ UNCHANGED <<transcript, pending, completed, outcome>>
          /\ Return("none", <<>>, FALSE, TRUE)
      BY <1>4, <2>2 DEF ReplacePartial
    <3>2. reply'.changed = TRUE
      BY <3>1 DEF Return
    <3>3. ObservePartial(id)
      BY <3>2 DEF WorkerPartial
    <3> QED
      BY <1>1, <1>2, <1>4, <3>1, <3>3, PartialView
  <2> QED
    BY <2>1, <2>2
<1>5. ASSUME NEW t \in Texts, SetPartial(id, t) PROVE ViewInv'
  <2>1. t \in Seq(Chars)
    BY InputsAssumption
  <2> QED
    BY <1>3, <1>4, <1>5, <2>1 DEF SetPartial
<1>6. ASSUME NEW d \in Deltas, AppendDelta(id, d) PROVE ViewInv'
  <2>1. partials[id].text \in Seq(Chars) /\ d \in Seq(Chars)
    BY <1>1, InputsAssumption DEF AnyPartial
  <2>2. partials[id].text \o d \in Seq(Chars)
    BY <2>1
  <2> QED
    BY <1>3, <1>4, <1>6, <2>2 DEF AppendDelta
<1> QED
  BY <1>5, <1>6 DEF WorkerPartial

\* A repeated final: nothing enters the queue, and what it has of the id goes.
LEMMA NothingFinal ==
    ASSUME AllInv, outcome = "none", NEW id \in Ids, completed[id] # Open, NoOp,
           UNCHANGED <<phase, hostVars>>, ObserveFinals(id, <<>>, FALSE)
    PROVE  ViewInv'
<1>1. /\ updates \in Seq(Update) /\ needsReset \in BOOLEAN /\ host \in View
      /\ UNCHANGED <<transcript, pending, completed, partials, outcome, phase, host>>
      /\ Enabled' = Enabled
  BY DEF AllInv, ViewInv, ViewTypes, NoOp, texts, hostVars, Enabled
<1>2. Pushed(Without(updates, id), <<>>)[0] = Without(updates, id) /\ Len(<<>>) = 0
  <2>1. Len(<<>>) = 0 /\ DOMAIN <<>> = {}
    OBVIOUS
  <2> QED
    BY <2>1, PushedIs
<1>3. Observing => Without(updates, id) = updates
  <2> SUFFICES ASSUME Observing PROVE Without(updates, id) = updates
    OBVIOUS
  <2>1. ASSUME NEW k \in 1..Len(updates), updates[k] \in PartialUpdates(id) PROVE FALSE
    <3>1. updates[k].kind = "partial" /\ updates[k].id = id
      BY <2>1 DEF PartialUpdates
    <3>2. completed[id] = Open
      BY <3>1 DEF Observing, AllInv, ViewInv, QueuedAreLatest
    <3> QED
      BY <3>2
  <2> QED
    BY <1>1, <2>1, RetainAll DEF Without
<1>4. UNCHANGED <<updates, needsReset>>
  BY <1>2, <1>3 DEF ObserveFinals, queueVars
<1> QED
  BY <1>1, <1>4, ViewUntouched DEF AllInv

\* A driver's final, of a new id or of one that had no index.
LEMMA WorkerCommitView ==
    ASSUME AllInv, NEW id \in Ids, NEW i \in Indexes, WorkerCommit(i, id) PROVE ViewInv'
<1>1. outcome = "none" /\ i \in Nat
  BY InputsAssumption DEF WorkerCommit, IndexUnindexed, Commit
<1>2. UNCHANGED <<phase, hostVars>>
  BY DEF WorkerCommit
<1>3. CASE Fail("protocol") \/ Fail("resource")
  <2>1. reply'.error # "none"
    BY <1>3 DEF Fail, Return
  <2>2. UNCHANGED queueVars
    BY <2>1 DEF WorkerCommit
  <2> QED
    BY <1>2, <1>3, <2>2, CallIsNothing
<1>4. ASSUME NoOp, completed[id] = i PROVE ViewInv'
  <2>1. reply'.error = "none" /\ reply'.segments = <<>> /\ reply'.removed = FALSE
    BY <1>4 DEF NoOp, Return
  <2>2. ObserveFinals(id, <<>>, FALSE)
    BY <2>1 DEF WorkerCommit
  <2> QED
    BY <1>1, <1>2, <1>4, <2>2, MarksAssumption, NothingFinal
<1>5. ASSUME NEW text \in Seq(Chars), completed[id] \in {Open, Unindexed}, ~IndexReused(i),
             completed' = [completed EXCEPT ![id] = i],
             partials' = [partials EXCEPT ![id] = NoPartial], NEW bytes,
             Drain(Put(pending, [id |-> id, index |-> i, text |-> text]), bytes, HasPartial(id)),
             outcome' = outcome
      PROVE  ViewInv'
  <2> DEFINE s == [id |-> id, index |-> i, text |-> text]
  <2>1. s \in Segment /\ s.id = id /\ s.index = i
    BY <1>1, <1>5 DEF Segment
  <2>2. completed[id] \notin Nat
    BY <1>5, MarksAssumption
  <2>3. Drain(Put(pending, s), bytes, HasPartial(id))
    BY <1>5
  <2> HIDE DEF s
  <2>4. reply'.error = "none"
    BY <2>3 DEF Drain, Return
  <2>5. ObserveFinals(id, reply'.segments, reply'.removed)
    BY <2>4 DEF WorkerCommit
  <2> QED
    BY <1>1, <1>2, <1>5, <2>1, <2>2, <2>3, <2>5, FinalView
<1>6. ASSUME completed[id] = Unindexed, PlaceUnindexed(i, id) PROVE ViewInv'
  <2>1. CASE Fail("protocol") \/ Fail("resource")
    BY <1>3, <2>1
  <2>2. ASSUME ~IndexReused(i), NEW u \in unindexed, u.id = id,
               completed' = [completed EXCEPT ![id] = i],
               partials' = [partials EXCEPT ![id] = NoPartial],
               Drain(Put(pending, [id |-> id, index |-> i, text |-> u.text]), retained, HasPartial(id)),
               UNCHANGED <<ids, outcome>>
        PROVE  ViewInv'
    <3>1. u.text \in Seq(Chars)
      BY DEF AllInv, StoreInv, StoreTypes
    <3> QED
      BY <1>5, <1>6, <2>2, <3>1
  <2> QED
    BY <1>6, <2>1, <2>2 DEF PlaceUnindexed
<1>7. ASSUME NEW t \in Texts, completed[id] = Open, CommitNew(i, id, t) PROVE ViewInv'
  <2>1. CASE Fail("protocol") \/ Fail("resource")
    BY <1>3, <2>1
  <2>2. CASE ~(Fail("protocol") \/ Fail("resource"))
    <3>1. /\ ~IndexReused(i) /\ completed' = [completed EXCEPT ![id] = i]
          /\ partials' = [partials EXCEPT ![id] = NoPartial] /\ outcome' = outcome
          /\ Drain(Put(pending, [id |-> id, index |-> i, text |-> t]), RetainedWith(id, Len(t)), HasPartial(id))
      BY <1>7, <2>2 DEF CommitNew
    <3>2. t \in Seq(Chars)
      BY InputsAssumption
    <3> QED
      BY <1>5, <1>7, <3>1, <3>2
  <2> QED
    BY <2>1, <2>2
<1>8. CASE IndexUnindexed(i, id)
  BY <1>3, <1>4, <1>6, <1>8 DEF IndexUnindexed
<1>9. ASSUME NEW t \in Texts, Commit(i, id, t) PROVE ViewInv'
  BY <1>3, <1>4, <1>6, <1>7, <1>9 DEF Commit
<1> QED
  BY <1>8, <1>9 DEF WorkerCommit

\* A driver's final without an index.
LEMMA WorkerFloatView ==
    ASSUME AllInv, NEW id \in Ids, WorkerCompleteUnindexed(id) PROVE ViewInv'
<1>1. PICK t \in Texts : CompleteUnindexed(id, t)
  BY DEF WorkerCompleteUnindexed
<1>2. outcome = "none" /\ UNCHANGED <<phase, hostVars>>
  BY <1>1 DEF WorkerCompleteUnindexed, CompleteUnindexed
<1>3. CASE NoOp \/ Fail("resource")
  <2>1. reply'.changed = FALSE
    BY <1>3 DEF NoOp, Fail, Return
  <2>2. UNCHANGED queueVars
    BY <2>1 DEF WorkerCompleteUnindexed
  <2> QED
    BY <1>2, <1>3, <2>2, CallIsNothing
<1>4. CASE ~(NoOp \/ Fail("resource"))
  <2>1. /\ completed[id] = Open /\ completed' = [completed EXCEPT ![id] = Unindexed]
        /\ partials' = [partials EXCEPT ![id] = NoPartial]
        /\ UNCHANGED <<transcript, pending, outcome>>
        /\ Return("none", <<>>, HasPartial(id), TRUE)
    BY <1>1, <1>4 DEF CompleteUnindexed
  <2>2. reply'.removed = HasPartial(id) /\ reply'.changed = TRUE
    BY <2>1 DEF Return
  <2>3. IF HasPartial(id) THEN ObserveRemoval ELSE UNCHANGED queueVars
    BY <2>2 DEF WorkerCompleteUnindexed
  <2> QED
    BY <1>2, <2>1, <2>3, FloatView
<1> QED
  BY <1>3, <1>4

\* A new id changes nothing that a host sees.
LEMMA WorkerIdView ==
    ASSUME AllInv, NEW id \in Ids, WorkerRegisterId(id) PROVE ViewInv'
<1>1. UNCHANGED <<transcript, pending, completed, partials, outcome, phase, updates, needsReset, host>>
      /\ Enabled' = Enabled
  BY DEF WorkerRegisterId, RegisterId, Fail, texts, queueVars, hostVars, Enabled
<1> QED
  BY <1>1, ViewUntouched DEF AllInv

\* Whatever happens, the view's invariant is kept and the host goes on.
LEMMA ViewStep == ASSUME AllInv, [LiveNext]_vars PROVE ViewInv' /\ (host' = host \/ GoesOn)
<1>1. CASE UNCHANGED vars
  <2>1. UNCHANGED <<transcript, pending, completed, partials, outcome, phase, updates, needsReset, host>>
        /\ Enabled' = Enabled
    BY <1>1 DEF vars, storeVars, texts, queueVars, hostVars, Enabled
  <2> QED
    BY <2>1, ViewUntouched DEF AllInv
<1>2. ASSUME NEW id \in Ids,
             \/ WorkerRegisterId(id) \/ WorkerPartial(id) \/ WorkerCompleteUnindexed(id)
             \/ \E i \in Indexes : WorkerCommit(i, id)
      PROVE  ViewInv' /\ host' = host
  <2>1. host' = host
    BY <1>2 DEF WorkerRegisterId, WorkerPartial, WorkerCompleteUnindexed, WorkerCommit, hostVars
  <2> QED
    BY <1>2, <2>1, WorkerIdView, WorkerPartialView, WorkerFloatView, WorkerCommitView
<1>3. CASE WorkerRunning \/ RequestFinish
  <2>1. /\ outcome = "none" /\ UNCHANGED storeVars /\ UNCHANGED hostVars /\ phase' \in Phases
        /\ ObservePhase
    BY <1>3 DEF WorkerRunning, RequestFinish, AllInv, LiveInv, EndsWithReset, Terminal, Phases
  <2> QED
    BY <2>1, PhaseView DEF hostVars
<1>4. CASE WorkerComplete \/ \E thread \in {"worker", "host"}, p \in {"Failed", "Cancelled"} : FailWith(thread, p)
  <2>1. /\ outcome = "none" /\ UNCHANGED hostVars /\ phase' \in Phases /\ ObserveTerminal
        /\ Settle("ok") \/ Settle("error")
    BY <1>4 DEF WorkerComplete, FailWith, Complete, FailSession, Phases, Terminal
  <2> QED
    BY <2>1, EndView DEF hostVars
<1>5. CASE Subscribe \/ DropSubscription \/ ReceiveNothing \/ \E thread : Signal(thread)
  <2>1. host' = host
    BY <1>5 DEF Subscribe, DropSubscription, ReceiveNothing, Signal
  <2> QED
    BY <1>5, <2>1, SubscriberView
<1>6. CASE ReceiveReset \/ ReceiveUpdate
  BY <1>6, ResetView, UpdateView
<1> QED
  BY <1>1, <1>2, <1>3, <1>4, <1>5, <1>6 DEF LiveNext, Receive

\* A step of the session is a step of its store.
LEMMA StoreMoves == [LiveNext]_vars => [Next]_storeVars
<1> SUFFICES ASSUME [LiveNext]_vars PROVE [Next]_storeVars
  OBVIOUS
<1>1. CASE UNCHANGED vars
  BY <1>1 DEF vars
<1>2. ASSUME NEW id \in Ids,
             \/ WorkerRegisterId(id) \/ WorkerPartial(id) \/ WorkerCompleteUnindexed(id)
             \/ \E i \in Indexes : WorkerCommit(i, id)
      PROVE  Next
  BY <1>2 DEF WorkerRegisterId, WorkerPartial, WorkerCompleteUnindexed, WorkerCommit, Next
<1>3. CASE WorkerRunning \/ RequestFinish \/ Subscribe \/ DropSubscription \/ Receive
           \/ \E thread : Signal(thread)
  BY <1>3 DEF WorkerRunning, RequestFinish, Subscribe, DropSubscription, Receive, ReceiveReset,
              ReceiveUpdate, ReceiveNothing, Signal
<1>4. CASE WorkerComplete \/ \E thread \in {"worker", "host"}, p \in {"Failed", "Cancelled"} : FailWith(thread, p)
  BY <1>4 DEF WorkerComplete, FailWith, Next
<1> QED
  BY <1>1, <1>2, <1>3, <1>4 DEF LiveNext

\* A session starts with nothing to show and nobody to show it to.
LEMMA InitView == LiveInit => ViewInv
<1> SUFFICES ASSUME LiveInit PROVE ViewInv
  OBVIOUS
<1>1. /\ transcript = <<>> /\ partials = [id \in Ids |-> NoPartial] /\ outcome = "none"
      /\ phase = "Starting" /\ updates = <<>> /\ needsReset = FALSE /\ subscriber = "absent"
      /\ host = [phase |-> "Starting", transcript |-> <<>>, partials |-> partials]
  BY DEF LiveInit, Init
<1>2. ~Enabled
  BY <1>1 DEF Enabled
<1>3. NoPartial \in AnyPartial
  <2>1. <<>> \in Seq(Chars)
    OBVIOUS
  <2> QED
    BY <2>1 DEF NoPartial, AnyPartial
<1>4. host \in View
  <2>1. <<>> \in Seq(Segment) /\ partials \in [Ids -> AnyPartial]
    BY <1>1, <1>3
  <2> QED
    BY <1>1, <2>1 DEF View, Phases
<1>5. <<>> \in Seq(Update) /\ phase \in Phases
  BY <1>1 DEF Phases
<1>6. HostBehind /\ NoPartialBesideItsFinal
  <2>1. host.transcript = <<>> /\ Len(<<>>) = 0
    BY <1>1
  <2> QED
    BY <1>1, <2>1 DEF HostBehind, Begins, NoPartialBesideItsFinal
<1> QED
  BY <1>1, <1>2, <1>4, <1>5, <1>6
     DEF ViewInv, ViewTypes, SettledIsClear, OldRevisions, QueuedAreLatest, IncrementsWork, IncrementsSuffice

\* The inductive invariant of the store, the queue and the host together.
THEOREM ViewInvariantHolds == LiveSpec => []AllInv
<1>1. LiveInit => StoreInv /\ BudgetInv /\ ViewInv
  BY InitStore, InitBudget, InitView DEF LiveInit
<1>2. StoreInv /\ BudgetInv /\ LiveInv /\ ViewInv /\ [LiveNext]_vars => StoreInv' /\ BudgetInv' /\ ViewInv'
  BY StoreMoves, StoreStep, BudgetStep, CallsAreAny, ViewStep DEF AllInv
<1>3. AllInv <=> StoreInv /\ BudgetInv /\ LiveInv /\ ViewInv
  BY DEF AllInv
<1> QED
  BY <1>1, <1>2, <1>3, InvariantHolds, PTL DEF LiveSpec

\* For any queue, any ids and texts: what is queued, however coalesced, brings the host to
\* the session's transcript, phase and live partials; it never shows a partial beside the
\* final of its id; and after the end it has the final view.
THEOREM HostConverges == LiveSpec => []ViewConverges
<1>1. AllInv => ViewConverges
  <2> SUFFICES ASSUME AllInv PROVE ViewConverges
    OBVIOUS
  <2>1. NoPartialBesideItsFinal /\ (outcome = "none" => IncrementsSuffice)
    BY DEF AllInv, ViewInv, IncrementsWork
  <2>2. DisconnectedHostIsUpToDate
    BY DEF AllInv, LiveInv, EndsWithReset, DisconnectedHostIsUpToDate, Enabled
  <2>3. CASE outcome # "none"
    <3> SUFFICES ASSUME Enabled, ~needsReset PROVE IncrementsSuffice
      BY <2>1, <2>2 DEF IncrementsSuffice, ViewConverges
    <3>1. updates = <<>> /\ host = CurrentView
      BY <2>3 DEF AllInv, LiveInv, EndsWithReset
    <3>2. CaughtUp = CurrentView
      BY <3>1, CaughtUpIs, ReadNothing
    <3>3. /\ CaughtUp.transcript = transcript /\ CaughtUp.phase = phase
          /\ CaughtUp.partials = partials
      BY <3>2 DEF CurrentView
    <3> QED
      BY <3>3 DEF IncrementsSuffice, Stale
  <2> QED
    BY <2>1, <2>2, <2>3 DEF ViewConverges
<1> QED
  BY <1>1, ViewInvariantHolds, PTL

\* Across increments and Resets: what a host has seen confirmed stays, in its place, and a
\* partial it shows is only ever replaced by a later revision.
THEOREM HostGoesOn == LiveSpec => HostNeverGoesBack
<1> DEFINE Further ==
      /\ Len(host'.transcript) >= Len(host.transcript)
      /\ SubSeq(host'.transcript, 1, Len(host.transcript)) = host.transcript
      /\ \A id \in Ids : host'.partials[id] # NoPartial =>
            \/ host'.partials[id] = host.partials[id]
            \/ host'.partials[id].revision > host.partials[id].revision
<1>1. ASSUME AllInv, AllInv', [LiveNext]_vars PROVE [Further]_vars
  <2>1. host' = host \/ GoesOn
    BY <1>1, ViewStep
  <2>2. host.transcript \in Seq(Segment) /\ host'.transcript \in Seq(Segment)
    BY <1>1 DEF AllInv, ViewInv, ViewTypes, View
  <2>3. Begins(host.transcript, host'.transcript)
    BY <2>1, <2>2 DEF GoesOn, Begins
  <2>4. SubSeq(host'.transcript, 1, Len(host.transcript)) = host.transcript
    <3> DEFINE a == host.transcript
               b == host'.transcript
    <3>1. a \in Seq(Segment) /\ b \in Seq(Segment) /\ Begins(a, b)
      BY <2>2, <2>3
    <3> HIDE DEF a, b
    <3>2. Len(a) \in Nat /\ Len(b) \in Nat /\ Len(a) <= Len(b) /\ \A k \in 1..Len(a) : a[k] = b[k]
      BY <3>1 DEF Begins
    <3> DEFINE c == SubSeq(b, 1, Len(a))
    <3>3. c \in Seq(Segment) /\ Len(c) = Len(a) /\ \A k \in 1..Len(a) : c[k] = b[k]
      BY <3>1, <3>2
    <3> HIDE DEF c
    <3>4. c = a
      BY <3>1, <3>2, <3>3
    <3> QED
      BY <3>4 DEF a, b, c
  <2>5. Len(host'.transcript) >= Len(host.transcript)
    BY <2>2, <2>3 DEF Begins
  <2>6. \A id \in Ids : host'.partials[id] # NoPartial =>
            \/ host'.partials[id] = host.partials[id]
            \/ host'.partials[id].revision > host.partials[id].revision
    BY <2>1 DEF GoesOn
  <2> QED
    BY <2>4, <2>5, <2>6
<1>2. AllInv /\ AllInv' /\ [LiveNext]_vars => [Further]_vars
  BY <1>1
<1>3. [][Further]_vars => HostNeverGoesBack
  BY DEF HostNeverGoesBack
<1> HIDE DEF Further
<1> QED
  BY <1>2, <1>3, ViewInvariantHolds, PTL DEF LiveSpec
===============================================================================
