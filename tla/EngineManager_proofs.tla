------------------------ MODULE EngineManager_proofs ------------------------
(***************************************************************************)
(* Proofs about EngineManager, for any number of host threads and any      *)
(* number of requests.                                                     *)
(***************************************************************************)
EXTENDS EngineManager, FiniteSetTheorems, TLAPS

\* The handles are counted; the last one, and only that, shuts the loader down.
Counted ==
    /\ managers = Cardinality(Holders)
    /\ \A h \in Hosts : call[h].pc = "last" => managers = 0
    /\ shutdown => managers = 0

\* The loader has ended only if it could not start or was shut down.
Ended ==
    /\ workerError # NoError => lpc = "gone"
    /\ lpc = "gone" /\ workerError = NoError => shutdown

\* The pending request is the latest one.
Requested == (due => ~NoRequest) /\ (~NoRequest => request = generation)

\* What is being loaded was requested as what it will be published as, and not
\* later than the pending request.
Preparing == lpc \in {"load", "publish"}
Loaded ==
    Preparing => /\ load.config = load.generation
                 /\ 1 <= load.generation /\ load.generation <= generation
                 /\ ~NoRequest => ~Current

\* What is available or has failed is of the request it is tagged with.
Published ==
    /\ available.engine = available.generation /\ available.generation <= generation
    /\ error \in {NoError, workerError, generation}

\* loading tells whether the latest request is pending or in preparation.
Pending == ~NoRequest \/ (Preparing /\ Current)
Busy == workerError = NoError => (loading <=> Pending)

\* The three states of the latest request exclude each other.
Decided ==
    /\ workerError # NoError => ~loading /\ error = workerError /\ available = NoSnapshot
    /\ loading => error = NoError /\ available.generation # generation
    /\ ~loading /\ error = NoError => available.generation = generation

\* Nobody waits for a request that has not been made.
Asked == \A h \in Hosts : call[h].generation <= generation

ManagerInv ==
    /\ TypeOK /\ Counted /\ Ended /\ Requested /\ Loaded
    /\ Published /\ Busy /\ Decided /\ Asked

-----------------------------------------------------------------------------
LEMMA InitTyped == Init => TypeOK
<1> SUFFICES ASSUME Init PROVE TypeOK
  OBVIOUS
<1>1. call \in [Hosts -> Call]
  BY DEF Init, Call, Error
<1>2. available \in Snapshot /\ load \in LoadType /\ error \in Error
  BY DEF Init, Snapshot, NoSnapshot, LoadType, Error
<1>3. lpc \in LoaderPc
  BY DEF Init, LoaderPc
<1>4. loading \in BOOLEAN /\ due \in BOOLEAN /\ shutdown \in BOOLEAN
  BY DEF Init
<1> QED BY <1>1, <1>2, <1>3, <1>4 DEF Init, TypeOK

\* A thread with a handle finds the count above zero.
LEMMA HolderCounts ==
  ASSUME TypeOK, Counted, NEW h \in Hosts, call[h].pc \in {"idle", "wait"}
  PROVE  managers > 0
<1>1. Holders \in SUBSET Hosts /\ h \in Holders
  BY DEF Holders
<1>2. IsFiniteSet(Holders) /\ Cardinality(Holders) \in Nat
  BY <1>1, ManagerAssumption, FS_Subset, FS_CardinalityType
<1>3. Cardinality(Holders) # 0
  BY <1>1, <1>2, FS_EmptySet
<1> QED BY <1>2, <1>3 DEF Counted

LEMMA NextTyped == TypeOK /\ Counted /\ [Next]_vars => TypeOK'
<1> SUFFICES ASSUME TypeOK, Counted, [Next]_vars PROVE TypeOK'
  OBVIOUS
<1>1. CASE LoaderStops \/ LoaderSleeps \/ LoaderWakes
  <2>1. lpc' \in LoaderPc /\ waiting' \subseteq Threads
    BY <1>1 DEF LoaderStops, LoaderSleeps, LoaderWakes, LoaderAt, TypeOK, LoaderPc, Threads
  <2> QED BY <1>1, <2>1 DEF LoaderStops, LoaderSleeps, LoaderWakes, HostUnchanged, state,
             requestVars, TypeOK
<1>2. CASE TakeRequest
  <2>1. load' \in LoadType
    BY <1>2 DEF TakeRequest, TypeOK, LoadType
  <2>2. lpc' \in LoaderPc /\ request' \in Nat /\ due' \in BOOLEAN
    BY <1>2 DEF TakeRequest, LoaderAt, LoaderPc
  <2> QED BY <1>2, <2>1, <2>2 DEF TakeRequest, HostUnchanged, state, TypeOK
<1>3. CASE LoadReturns
  <2>1. load' \in LoadType
    BY <1>3 DEF LoadReturns, TypeOK, LoadType
  <2>2. lpc' \in LoaderPc
    BY <1>3 DEF LoadReturns, LoaderAt, LoaderPc
  <2> QED BY <1>3, <2>1, <2>2 DEF LoadReturns, HostUnchanged, state, requestVars, TypeOK
<1>4. CASE Publish
  <2>1. load.config \in Nat /\ load.generation \in Nat
    BY DEF TypeOK, LoadType
  <2>2. available' \in Snapshot
    BY <1>4, <2>1 DEF Publish, Publication, TypeOK, Snapshot
  <2>3. error' \in Error
    BY <1>4, <2>1 DEF Publish, Publication, TypeOK, Error
  <2>4. loading' \in BOOLEAN
    BY <1>4 DEF Publish, Publication, TypeOK
  <2>5. lpc' \in LoaderPc /\ signalling' \subseteq Threads
    BY <1>4 DEF Publish, LoaderAt, LoaderPc, Notify, Threads, TypeOK
  <2> QED BY <1>4, <2>2, <2>3, <2>4, <2>5 DEF Publish, HostUnchanged, requestVars, TypeOK
<1>5. CASE ComesDue
  BY <1>5 DEF ComesDue, state, loader, TypeOK
<1>6. ASSUME NEW h \in Hosts, NEW to \in Hosts, Clone(h, to) PROVE TypeOK'
  <2>1. call' \in [Hosts -> Call]
    BY <1>6 DEF Clone, Goes, TypeOK, Call
  <2>2. managers' \in Nat
    BY <1>6 DEF Clone, TypeOK
  <2> QED BY <1>6, <2>1, <2>2 DEF Clone, state, requestVars, loader, TypeOK
<1>7. ASSUME NEW h \in Hosts, Drop(h) PROVE TypeOK'
  <2>1. call' \in [Hosts -> Call]
    BY <1>7 DEF Drop, Goes, TypeOK, Call
  <2>2. managers' \in Nat
    BY <1>7, HolderCounts DEF Drop, Idle, TypeOK
  <2> QED BY <1>7, <2>1, <2>2 DEF Drop, state, requestVars, loader, TypeOK
<1>8. ASSUME NEW h \in Hosts, ShutDown(h) PROVE TypeOK'
  <2>1. call' \in [Hosts -> Call]
    BY <1>8 DEF ShutDown, Goes, TypeOK, Call
  <2> QED BY <1>8, <2>1 DEF ShutDown, requestVars, loader, TypeOK
<1>9. ASSUME NEW h \in Hosts, RequestReload(h) PROVE TypeOK'
  <2>1. generation' \in Nat /\ request' \in Nat
    BY <1>9 DEF RequestReload, TypeOK
  <2>2. error' \in Error /\ loading' \in BOOLEAN /\ due' \in BOOLEAN
    BY <1>9 DEF RequestReload, TypeOK, Error
  <2>3. signalling' \subseteq Threads
    BY <1>9 DEF RequestReload, Notify, Threads, TypeOK
  <2> QED BY <1>9, <2>1, <2>2, <2>3 DEF RequestReload, loader, TypeOK
<1>10. ASSUME NEW h \in Hosts, StartWait(h) PROVE TypeOK'
  <2>1. call' \in [Hosts -> Call]
    BY <1>10 DEF StartWait, TypeOK, Call, Error
  <2> QED BY <1>10, <2>1 DEF StartWait, state, requestVars, loader, TypeOK
<1>11. ASSUME NEW h \in Hosts, WaitEnds(h) PROVE TypeOK'
  <2>1. 0 \in Error /\ error \in Error /\ available.engine \in Error
    BY DEF TypeOK, Error, Snapshot
  <2>2. PICK answer \in {"ok", "error", "cancelled", "timeout"}, from \in Error :
             Answer(h, answer, from)
    BY <1>11, <2>1 DEF WaitEnds
  <2>3. call[h] \in Call
    BY DEF TypeOK
  <2>4. [call[h] EXCEPT !.pc = "idle", !.answer = answer, !.from = from] \in Call
    BY <2>3 DEF Call
  <2>5. call' = [call EXCEPT ![h] = [call[h] EXCEPT !.pc = "idle", !.answer = answer, !.from = from]]
    BY <2>2, <2>3 DEF Answer, TypeOK, Call
  <2>6. call' \in [Hosts -> Call]
    BY <2>4, <2>5 DEF TypeOK
  <2> QED BY <1>11, <2>6 DEF WaitEnds, state, requestVars, loader, TypeOK
<1>12. ASSUME NEW h \in Hosts, WaitSleeps(h) PROVE TypeOK'
  BY <1>12 DEF WaitSleeps, state, requestVars, loader, TypeOK, Threads
<1>13. ASSUME NEW h \in Hosts, DeadlinePasses(h) PROVE TypeOK'
  <2>1. call' \in [Hosts -> Call]
    BY <1>13 DEF DeadlinePasses, TypeOK, Call
  <2> QED BY <1>13, <2>1 DEF DeadlinePasses, state, requestVars, loader, TypeOK
<1>14. ASSUME NEW t \in Threads, Signal(t) \/ WakeUp(t) PROVE TypeOK'
  BY <1>14 DEF Signal, WakeUp, state, requestVars, loader, TypeOK
<1>15. CASE UNCHANGED vars
  BY <1>15 DEF vars, state, requestVars, loader, TypeOK
<1> QED BY <1>1, <1>2, <1>3, <1>4, <1>5, <1>6, <1>7, <1>8, <1>9, <1>10, <1>11, <1>12, <1>13,
  <1>14, <1>15 DEF Next, LoaderStep

-----------------------------------------------------------------------------
LEMMA InitInv == Init => ManagerInv
<1> SUFFICES ASSUME Init PROVE ManagerInv
  OBVIOUS
<1>1. TypeOK
  BY InitTyped
<1>2. Counted
  <2>1. PICK creator \in Hosts : Holders = {creator}
    BY DEF Init, Holders
  <2>2. \A h \in Hosts : call[h].pc # "last"
    BY DEF Init
  <2> QED BY <2>1, <2>2, FS_Singleton DEF Init, Counted
<1>3. Ended /\ Requested /\ Asked
  BY DEF Init, Ended, Requested, NoRequest, Asked
<1>4. ~Preparing /\ NoRequest /\ ~loading
  BY DEF Init, Preparing, NoRequest
<1>5. Loaded /\ Busy
  BY <1>4 DEF Loaded, Busy, Pending
<1>6. Published /\ Decided
  BY DEF Init, Published, Decided, NoSnapshot
<1> QED BY <1>1, <1>2, <1>3, <1>5, <1>6 DEF ManagerInv

\* The count changes with the handles only.
LEMMA SameHolders ==
  ASSUME Counted, UNCHANGED <<managers, shutdown>>,
         \A h \in Hosts : call'[h].pc = call[h].pc
                          \/ {call[h].pc, call'[h].pc} \subseteq {"idle", "wait"}
  PROVE  Counted'
<1>1. Holders' = Holders
  BY DEF Holders
<1>2. \A h \in Hosts : call'[h].pc = "last" => call[h].pc = "last"
  OBVIOUS
<1> QED BY <1>1, <1>2 DEF Counted

LEMMA NextCounted == TypeOK /\ Counted /\ [Next]_vars => Counted'
<1> SUFFICES ASSUME TypeOK, Counted, [Next]_vars PROVE Counted'
  OBVIOUS
<1>0. /\ IsFiniteSet(Holders)
      /\ Cardinality(Holders) \in Nat
  <2>1. Holders \in SUBSET Hosts
    BY DEF Holders
  <2> QED BY <2>1, ManagerAssumption, FS_Subset, FS_CardinalityType
<1>1. CASE LoaderStep \/ LoadReturns \/ ComesDue
  <2>1. UNCHANGED <<managers, shutdown, call>>
    BY <1>1 DEF LoaderStep, LoaderStops, LoaderSleeps, LoaderWakes, TakeRequest, Publish,
       LoadReturns, ComesDue, HostUnchanged, state
  <2> QED BY <2>1, SameHolders
<1>2. ASSUME NEW h \in Hosts, NEW to \in Hosts, Clone(h, to) PROVE Counted'
  <2>1. /\ to \notin Holders /\ managers' = managers + 1 /\ managers > 0
        /\ UNCHANGED shutdown /\ Holders' = Holders \cup {to}
    BY <1>2, HolderCounts DEF Clone, Idle, Goes, Holders, TypeOK, Call, state
  <2>2. Cardinality(Holders') = Cardinality(Holders) + 1
    BY <1>0, <2>1, FS_AddElement
  <2>3. \A g \in Hosts : call'[g].pc = "last" => call[g].pc = "last"
    BY <1>2 DEF Clone, Goes, TypeOK, Call
  <2> QED BY <2>1, <2>2, <2>3 DEF Counted
<1>3. ASSUME NEW h \in Hosts, Drop(h) PROVE Counted'
  <2>1. /\ h \in Holders /\ managers' = managers - 1 /\ managers > 0
        /\ UNCHANGED shutdown /\ Holders' = Holders \ {h}
    BY <1>3, HolderCounts DEF Drop, Idle, Goes, Holders, TypeOK, Call, state
  <2>2. Cardinality(Holders') = Cardinality(Holders) - 1
    BY <1>0, <2>1, FS_RemoveElement
  <2>3. \A g \in Hosts : call'[g].pc = "last" => call[g].pc = "last" \/ managers = 1
    BY <1>3 DEF Drop, Goes, TypeOK, Call
  <2> QED BY <1>0, <2>1, <2>2, <2>3 DEF Counted
<1>4. ASSUME NEW h \in Hosts, ShutDown(h) PROVE Counted'
  <2>1. /\ managers = 0 /\ managers' = managers
    BY <1>4 DEF ShutDown, Counted
  <2>2. Holders' = Holders
    BY <1>4 DEF ShutDown, Goes, Holders, TypeOK, Call
  <2> QED BY <2>1, <2>2 DEF Counted
<1>5. ASSUME NEW h \in Hosts, RequestReload(h) \/ WaitSleeps(h) PROVE Counted'
  <2>1. UNCHANGED <<managers, shutdown, call>>
    BY <1>5 DEF RequestReload, WaitSleeps, state
  <2> QED BY <2>1, SameHolders
<1>6. ASSUME NEW h \in Hosts, StartWait(h) \/ WaitEnds(h) \/ DeadlinePasses(h) PROVE Counted'
  <2>1. UNCHANGED <<managers, shutdown>>
    BY <1>6 DEF StartWait, WaitEnds, DeadlinePasses, state
  <2>2. \A g \in Hosts : g # h => call'[g] = call[g]
    BY <1>6 DEF StartWait, WaitEnds, Answer, DeadlinePasses, TypeOK
  <2>3. call'[h].pc = call[h].pc \/ {call[h].pc, call'[h].pc} \subseteq {"idle", "wait"}
    BY <1>6 DEF StartWait, WaitEnds, Answer, DeadlinePasses, Idle, TypeOK, Call
  <2> QED BY <2>1, <2>2, <2>3, SameHolders
<1>7. ASSUME NEW t \in Threads, Signal(t) \/ WakeUp(t) PROVE Counted'
  BY <1>7, SameHolders DEF Signal, WakeUp, state
<1>8. CASE UNCHANGED vars
  BY <1>8, SameHolders DEF vars, state
<1> QED BY <1>1, <1>2, <1>3, <1>4, <1>5, <1>6, <1>7, <1>8 DEF Next

\* The rest of the invariant is about the loader and the requests.
LoaderInv == Ended /\ Requested /\ Loaded /\ Published /\ Busy /\ Decided

LEMMA SameLoads ==
  ASSUME LoaderInv, UNCHANGED <<generation, loading, available, error, workerError,
                                requestVars, loader>>,
         (shutdown' = shutdown) \/ shutdown'
  PROVE  LoaderInv'
BY DEF LoaderInv, Ended, Requested, Loaded, Published, Busy, Decided, Pending, Preparing,
   Current, NoRequest, requestVars, loader

LEMMA NextLoads == ManagerInv /\ [Next]_vars => LoaderInv'
<1> SUFFICES ASSUME ManagerInv, [Next]_vars PROVE LoaderInv'
  OBVIOUS
<1>0. TypeOK /\ LoaderInv
  BY DEF ManagerInv, LoaderInv
<1>1. CASE LoaderStops
  <2>1. ~Preparing /\ ~Preparing' /\ shutdown'
    BY <1>1 DEF LoaderStops, LoaderAt, Preparing, state
  <2> QED BY <1>0, <1>1, <2>1 DEF LoaderStops, state, requestVars, LoaderInv, LoaderAt, Ended, Requested,
             Loaded, Published, Busy, Decided, Pending, NoRequest
<1>2. CASE LoaderSleeps \/ LoaderWakes
  <2>1. /\ ~Preparing /\ ~Preparing' /\ lpc # "gone" /\ lpc' # "gone"
        /\ UNCHANGED <<state, requestVars, load>>
    BY <1>2 DEF LoaderSleeps, LoaderWakes, LoaderAt, Preparing
  <2> QED BY <1>0, <2>1 DEF state, requestVars, LoaderInv, Ended, Requested, Loaded, Published,
             Busy, Decided, Pending, NoRequest
<1>3. CASE TakeRequest
  <2>1. /\ ~NoRequest /\ NoRequest' /\ ~due' /\ request = generation
        /\ lpc = "look" /\ lpc' = "load" /\ UNCHANGED state
        /\ load' = [generation |-> generation, config |-> request, ok |-> FALSE]
    BY <1>0, <1>3 DEF TakeRequest, LoaderAt, LoaderInv, Requested, NoRequest
  <2>2. Preparing' /\ Current' /\ Pending /\ Pending'
    BY <2>1 DEF Preparing, Current, Pending, state
  <2>3. Ended' /\ Requested'
    BY <1>0, <2>1 DEF LoaderInv, Ended, Requested, state
  <2>4. generation \in Nat /\ generation # 0
    BY <1>0, <2>1 DEF TypeOK, NoRequest
  <2>5. Loaded'
    BY <2>1, <2>4 DEF Loaded, state
  <2>6. Published' /\ Decided'
    BY <1>0, <2>1 DEF LoaderInv, Published, Decided, state
  <2>7. Busy'
    BY <1>0, <2>1, <2>2 DEF LoaderInv, Busy, state
  <2> QED BY <2>3, <2>5, <2>6, <2>7 DEF LoaderInv
<1>4. CASE LoadReturns
  <2>1. /\ lpc = "load" /\ lpc' = "publish" /\ UNCHANGED <<state, requestVars>>
        /\ load'.generation = load.generation /\ load'.config = load.config
    BY <1>0, <1>4 DEF LoadReturns, LoaderAt, TypeOK, LoadType
  <2>2. /\ Preparing /\ Preparing' /\ (Current' <=> Current)
        /\ (NoRequest' <=> NoRequest) /\ (Pending' <=> Pending)
    BY <2>1 DEF Preparing, Current, Pending, NoRequest, state, requestVars
  <2>3. Ended' /\ Requested'
    BY <1>0, <2>1 DEF LoaderInv, Ended, Requested, NoRequest, state, requestVars
  <2>4. Loaded'
    BY <1>0, <2>1, <2>2 DEF LoaderInv, Loaded, state
  <2>5. Published' /\ Decided'
    BY <1>0, <2>1 DEF LoaderInv, Published, Decided, state
  <2>6. Busy'
    BY <1>0, <2>1, <2>2 DEF LoaderInv, Busy, state
  <2> QED BY <2>3, <2>4, <2>5, <2>6 DEF LoaderInv
<1>5. CASE Publish
  <2>1. /\ Preparing /\ ~Preparing' /\ lpc # "gone" /\ lpc' # "gone"
        /\ UNCHANGED <<generation, workerError, shutdown, requestVars, load>>
    BY <1>5 DEF Publish, LoaderAt, Preparing
  <2>2. /\ workerError = NoError /\ workerError' = NoError
        /\ load.config = load.generation
        /\ load.generation \in Nat /\ 1 <= load.generation /\ load.generation <= generation
        /\ ~NoRequest => ~Current
    BY <1>0, <2>1 DEF LoaderInv, Ended, Loaded, TypeOK, LoadType
  <2>3. Ended' /\ Requested' /\ Loaded'
    BY <1>0, <2>1, <2>2 DEF LoaderInv, Ended, Requested, Loaded, NoRequest, requestVars
  <2>4. CASE ~Current
    <3>1. UNCHANGED <<loading, available, error>>
      BY <1>5, <2>4 DEF Publish, Publication
    <3>2. Pending' <=> Pending
      BY <2>1, <2>4 DEF Pending, NoRequest, requestVars
    <3> QED BY <1>0, <2>1, <2>3, <3>1, <3>2 DEF LoaderInv, Published, Decided, Busy
  <2>5. CASE Current
    <3>1. ~loading' /\ load.generation = generation
      BY <1>5, <2>5 DEF Publish, Publication, Current
    <3>2. ~Pending'
      BY <2>1, <2>2, <2>5 DEF Pending, NoRequest, requestVars
    <3>3. Busy'
      BY <3>1, <3>2 DEF Busy
    <3>4. CASE load.ok
      <4>1. /\ available' = [generation |-> load.generation, engine |-> load.config]
            /\ error' = NoError
        BY <1>5, <2>5, <3>4 DEF Publish, Publication
      <4> QED BY <2>1, <2>2, <2>3, <3>1, <3>3, <4>1 DEF LoaderInv, Published, Decided
    <3>5. CASE ~load.ok
      <4>1. error' = load.config /\ UNCHANGED available
        BY <1>5, <2>5, <3>5 DEF Publish, Publication
      <4>2. error' # NoError /\ error' = generation
        BY <2>2, <3>1, <4>1, ManagerAssumption
      <4> QED BY <1>0, <2>1, <2>2, <2>3, <3>1, <3>3, <4>1, <4>2 DEF LoaderInv, Published, Decided
    <3> QED BY <3>4, <3>5
  <2> QED BY <2>4, <2>5
<1>6. CASE ComesDue
  <2>1. ~NoRequest /\ UNCHANGED <<state, loader, request>>
    BY <1>6 DEF ComesDue
  <2> QED BY <1>0, <2>1 DEF state, loader, LoaderInv, Ended, Requested, Loaded, Published, Busy,
             Decided, Pending, Preparing, Current, NoRequest
<1>7. ASSUME NEW h \in Hosts, RequestReload(h) PROVE LoaderInv'
  <2>1. /\ generation \in Nat /\ generation' = generation + 1
        /\ request' = generation' /\ ~due' /\ error' = workerError
        /\ loading' = (workerError = NoError)
        /\ UNCHANGED <<available, workerError, shutdown, loader>>
    BY <1>0, <1>7 DEF RequestReload, TypeOK
  <2>2. ~NoRequest' /\ Pending'
    BY <2>1 DEF NoRequest, Pending
  <2>3. Ended' /\ Requested'
    BY <1>0, <2>1 DEF LoaderInv, Ended, Requested, loader
  <2>4. Loaded'
    <3>1. load.generation \in Nat
      BY <1>0 DEF TypeOK, LoadType
    <3> QED BY <1>0, <2>1, <3>1 DEF LoaderInv, Loaded, Preparing, Current, loader
  <2>5. available.generation \in Nat /\ available.generation <= generation
    BY <1>0 DEF LoaderInv, Published, TypeOK, Snapshot
  <2>6. Published'
    BY <1>0, <2>1, <2>5 DEF LoaderInv, Published
  <2>7. Busy'
    BY <2>1, <2>2 DEF Busy
  <2>8. Decided'
    <3>1. CASE workerError = NoError
      <4>1. loading' /\ error' = NoError /\ workerError' = NoError
        BY <2>1, <3>1
      <4>2. available'.generation # generation'
        BY <2>1, <2>5
      <4> QED BY <4>1, <4>2 DEF Decided
    <3>2. CASE workerError # NoError
      BY <1>0, <2>1, <3>2 DEF LoaderInv, Decided
    <3> QED BY <3>1, <3>2
  <2> QED BY <2>3, <2>4, <2>6, <2>7, <2>8 DEF LoaderInv
<1>8. ASSUME NEW h \in Hosts,
             \/ \E to \in Hosts : Clone(h, to)
             \/ Drop(h) \/ StartWait(h) \/ WaitEnds(h) \/ WaitSleeps(h) \/ DeadlinePasses(h)
      PROVE  LoaderInv'
  <2>1. UNCHANGED <<state, requestVars, loader>>
    BY <1>8 DEF Clone, Drop, StartWait, WaitEnds, WaitSleeps, DeadlinePasses
  <2> QED BY <1>0, <2>1, SameLoads DEF state
<1>9. ASSUME NEW h \in Hosts, ShutDown(h) PROVE LoaderInv'
  BY <1>0, <1>9, SameLoads DEF ShutDown
<1>10. ASSUME NEW t \in Threads, Signal(t) \/ WakeUp(t) PROVE LoaderInv'
  BY <1>0, <1>10, SameLoads DEF Signal, WakeUp, state
<1>11. CASE UNCHANGED vars
  BY <1>0, <1>11, SameLoads DEF vars, state
<1> QED BY <1>1, <1>2, <1>3, <1>4, <1>5, <1>6, <1>7, <1>8, <1>9, <1>10, <1>11 DEF Next, LoaderStep

LEMMA NextAsked == TypeOK /\ Asked /\ [Next]_vars => Asked'
<1> SUFFICES ASSUME TypeOK, Asked, [Next]_vars, NEW h \in Hosts
             PROVE  call'[h].generation <= generation'
  BY DEF Asked
<1>0. generation \in Nat /\ call[h].generation \in Nat /\ call[h].generation <= generation
  BY DEF TypeOK, Call, Asked
<1>1. generation' \in Nat /\ generation <= generation'
  BY <1>0 DEF Next, vars, state, LoaderStep, LoaderStops, LoaderSleeps, LoaderWakes, TakeRequest,
     Publish, LoadReturns, ComesDue, Clone, Drop, ShutDown, RequestReload, StartWait, WaitEnds,
     WaitSleeps, DeadlinePasses, Signal, WakeUp
<1>2. ASSUME NEW g \in Hosts, StartWait(g) PROVE call'[h].generation <= generation'
  <2>1. generation' = generation
    BY <1>2 DEF StartWait, state
  <2>2. call'[h].generation = call[h].generation \/ call'[h].generation \in 0..generation
    BY <1>2 DEF StartWait, TypeOK
  <2> QED BY <1>0, <2>1, <2>2
<1>3. ASSUME NEW g \in Hosts,
             \/ \E to \in Hosts : Clone(g, to)
             \/ Drop(g) \/ ShutDown(g) \/ WaitEnds(g) \/ DeadlinePasses(g)
      PROVE  call'[h].generation = call[h].generation
  <2>1. ASSUME NEW u \in Hosts, NEW pc, Goes(u, pc)
        PROVE  call'[h].generation = call[h].generation
    BY <2>1 DEF Goes, TypeOK, Call
  <2>2. ASSUME NEW answer, NEW from, Answer(g, answer, from)
        PROVE  call'[h].generation = call[h].generation
    BY <2>2 DEF Answer, TypeOK, Call
  <2>3. CASE DeadlinePasses(g)
    BY <2>3 DEF DeadlinePasses, TypeOK, Call
  <2> QED BY <1>3, <2>1, <2>2, <2>3 DEF Clone, Drop, ShutDown, WaitEnds
<1>4. ASSUME NEW g \in Hosts, RequestReload(g) \/ WaitSleeps(g) PROVE UNCHANGED call
  BY <1>4 DEF RequestReload, WaitSleeps
<1>5. LoaderStep \/ LoadReturns \/ ComesDue \/ UNCHANGED vars => UNCHANGED call
  BY DEF LoaderStep, LoaderStops, LoaderSleeps, LoaderWakes, TakeRequest,
     Publish, LoadReturns, ComesDue, HostUnchanged, vars
<1>6. ASSUME NEW t \in Threads, Signal(t) \/ WakeUp(t) PROVE UNCHANGED call
  BY <1>6 DEF Signal, WakeUp
<1>7. CASE call'[h].generation = call[h].generation
  BY <1>0, <1>1, <1>7
<1> QED BY <1>2, <1>3, <1>4, <1>5, <1>6, <1>7 DEF Next

LEMMA InvariantHolds == Spec => []ManagerInv
<1>1. ManagerInv /\ [Next]_vars => ManagerInv'
  BY NextTyped, NextCounted, NextLoads, NextAsked DEF ManagerInv, LoaderInv
<1> QED BY InitInv, <1>1, PTL DEF Spec

\* The types of the manager's state hold in every reachable state, the count of
\* handles (a usize that is only ever subtracted from) among them.
THEOREM TypeCorrect == Spec => []TypeOK
<1>1. ManagerInv => TypeOK
  BY DEF ManagerInv
<1> QED BY <1>1, InvariantHolds, PTL

\* As long as there is a handle the loader serves, and the status tells the truth
\* about what it is doing (utils/manager.rs, Drop and the loader thread).
THEOREM LoaderServesHolders == Spec => []LoaderServes
<1>1. ManagerInv => LoaderServes
  <2> SUFFICES ASSUME ManagerInv, Holders # {}, workerError = NoError
               PROVE  ~shutdown /\ lpc # "gone" /\ (loading <=> Pending)
    BY DEF LoaderServes, Pending, Preparing
  <2>1. managers > 0
    BY HolderCounts DEF ManagerInv, Holders
  <2> QED BY <2>1 DEF ManagerInv, Counted, Ended, Busy
<1> QED BY <1>1, InvariantHolds, PTL

-----------------------------------------------------------------------------
\* A call's last answer belongs to what it asked for.
Answered(c) ==
    /\ c.answer = "ok" => c.from = c.generation
    /\ c.answer = "error" => c.from \in {c.generation, workerError}
    /\ c.answer = "cancelled" => c.generation < generation

LEMMA AnswersByCall ==
    AnswerIsForItsRequest <=>
        /\ available.engine = available.generation
        /\ error \in {NoError, workerError, generation}
        /\ \A h \in Hosts : Answered(call[h])
<1>1. ASSUME NEW h \in Hosts
      PROVE  Answered(call[h]) <=>
             CASE call[h].answer = "ok" -> call[h].from = call[h].generation
               [] call[h].answer = "error" -> call[h].from \in {call[h].generation, workerError}
               [] call[h].answer = "cancelled" -> call[h].generation < generation
               [] OTHER -> TRUE
  BY DEF Answered
<1> QED BY <1>1 DEF AnswerIsForItsRequest

AllAnswered == \A h \in Hosts : Answered(call[h])

LEMMA SameAnswers ==
  ASSUME TypeOK, AllAnswered, workerError' = workerError, generation' \in Nat,
         generation <= generation',
         \A h \in Hosts : /\ call'[h].generation = call[h].generation
                          /\ call'[h].answer = call[h].answer
                          /\ call'[h].from = call[h].from
  PROVE  AllAnswered'
<1> SUFFICES ASSUME NEW h \in Hosts PROVE Answered(call[h])'
  BY DEF AllAnswered
<1>1. generation \in Nat /\ call[h].generation \in Nat
  BY DEF TypeOK, Call
<1> QED BY <1>1 DEF AllAnswered, Answered

LEMMA NextAnswers == ManagerInv /\ AllAnswered /\ [Next]_vars => AllAnswered'
<1> SUFFICES ASSUME ManagerInv, AllAnswered, [Next]_vars PROVE AllAnswered'
  OBVIOUS
<1>0. TypeOK /\ generation \in Nat
  BY DEF ManagerInv, TypeOK
<1>1. ASSUME UNCHANGED <<generation, workerError, call>> PROVE AllAnswered'
  BY <1>1 DEF AllAnswered, Answered
<1>2. LoaderStep \/ LoadReturns \/ ComesDue \/ UNCHANGED vars
      => UNCHANGED <<generation, workerError, call>>
  BY DEF LoaderStep, LoaderStops, LoaderSleeps, LoaderWakes, TakeRequest, Publish, LoadReturns,
     ComesDue, HostUnchanged, vars, state
<1>3. ASSUME NEW t \in Threads, Signal(t) \/ WakeUp(t)
      PROVE  UNCHANGED <<generation, workerError, call>>
  BY <1>3 DEF Signal, WakeUp, state
<1>4. ASSUME NEW h \in Hosts,
             (\E to \in Hosts : Clone(h, to)) \/ Drop(h) \/ ShutDown(h) \/ DeadlinePasses(h)
      PROVE  AllAnswered'
  <2>1. UNCHANGED <<generation, workerError>>
    BY <1>4 DEF Clone, Drop, ShutDown, DeadlinePasses, state
  <2>2. ASSUME NEW u \in Hosts, NEW pc, Goes(u, pc), NEW g \in Hosts
        PROVE  /\ call'[g].generation = call[g].generation
               /\ call'[g].answer = call[g].answer /\ call'[g].from = call[g].from
    BY <1>0, <2>2 DEF Goes, TypeOK, Call
  <2>3. ASSUME DeadlinePasses(h), NEW g \in Hosts
        PROVE  /\ call'[g].generation = call[g].generation
               /\ call'[g].answer = call[g].answer /\ call'[g].from = call[g].from
    BY <1>0, <2>3 DEF DeadlinePasses, TypeOK, Call
  <2>4. \A g \in Hosts : /\ call'[g].generation = call[g].generation
                         /\ call'[g].answer = call[g].answer /\ call'[g].from = call[g].from
    BY <1>4, <2>2, <2>3 DEF Clone, Drop, ShutDown
  <2>5. generation' \in Nat /\ generation <= generation'
    BY <1>0, <2>1
  <2> QED BY <1>0, <2>1, <2>4, <2>5, SameAnswers
<1>5. ASSUME NEW h \in Hosts, RequestReload(h) PROVE AllAnswered'
  <2>1. /\ generation' \in Nat /\ generation <= generation' /\ UNCHANGED <<workerError, call>>
    BY <1>0, <1>5 DEF RequestReload
  <2> QED BY <1>0, <2>1, SameAnswers
<1>6. ASSUME NEW h \in Hosts, StartWait(h) PROVE AllAnswered'
  <2>1. UNCHANGED <<generation, workerError>> /\ call'[h].answer = "none"
    BY <1>0, <1>6 DEF StartWait, state, TypeOK
  <2>2. \A g \in Hosts : g # h => call'[g] = call[g]
    BY <1>0, <1>6 DEF StartWait, TypeOK
  <2> QED BY <2>1, <2>2 DEF AllAnswered, Answered
\* The answer is taken from the state the critical section sees.
<1>7. ASSUME NEW h \in Hosts, WaitEnds(h) PROVE AllAnswered'
  <2>1. UNCHANGED <<generation, workerError>>
    BY <1>7 DEF WaitEnds, state
  <2>2. \A g \in Hosts : g # h => call'[g] = call[g]
    BY <1>0, <1>7 DEF WaitEnds, Answer, TypeOK
  <2>3. ASSUME NEW answer, NEW from, Answer(h, answer, from)
        PROVE  /\ call'[h].generation = call[h].generation
               /\ call'[h].answer = answer /\ call'[h].from = from
    BY <1>0, <2>3 DEF Answer, TypeOK, Call
  <2>4. /\ call[h].generation \in Nat /\ call[h].generation <= generation
        /\ available.engine = available.generation
        /\ error \in {NoError, workerError, generation}
    BY <1>0 DEF ManagerInv, Asked, Published, TypeOK, Call
  <2>5. Answered(call[h])'
    <3>1. CASE Superseded(h) /\ Answer(h, "cancelled", 0)
      BY <1>0, <2>1, <2>3, <2>4, <3>1 DEF Answered, Superseded
    <3>2. CASE ~Superseded(h) /\ error # NoError /\ Answer(h, "error", error)
      BY <2>1, <2>3, <2>4, <3>2 DEF Answered, Superseded
    <3>3. CASE Available(h) /\ Answer(h, "ok", available.engine)
      BY <2>1, <2>3, <2>4, <3>3 DEF Answered, Available
    <3>4. CASE Answer(h, "timeout", 0)
      BY <2>3, <3>4 DEF Answered
    <3> QED BY <1>7, <3>1, <3>2, <3>3, <3>4 DEF WaitEnds
  <2> QED BY <2>1, <2>2, <2>5 DEF AllAnswered, Answered
<1>8. ASSUME NEW h \in Hosts, WaitSleeps(h) PROVE UNCHANGED <<generation, workerError, call>>
  BY <1>8 DEF WaitSleeps, state
<1> QED BY <1>1, <1>2, <1>3, <1>4, <1>5, <1>6, <1>7, <1>8 DEF Next

\* Every engine, error and cancellation the host gets is of the request it asked
\* about (utils/manager.rs, wait and the loader's publication).
THEOREM AnswersAreForTheirRequests == Spec => []AnswerIsForItsRequest
<1>1. Init => AllAnswered
  BY DEF Init, AllAnswered, Answered
<1>2. Spec => []AllAnswered
  BY <1>1, NextAnswers, InvariantHolds, PTL DEF Spec
<1>3. ManagerInv /\ AllAnswered => AnswerIsForItsRequest
  BY AnswersByCall DEF ManagerInv, Published, AllAnswered
<1> QED BY <1>2, <1>3, InvariantHolds, PTL

-----------------------------------------------------------------------------
\* Nobody sleeps through a change: who changes something is in signalling until
\* it has woken everybody.
LEMMA Notified ==
  ASSUME signalling' # {}, Loader \in waiting' => ~shutdown' PROVE AllWoken'
BY DEF AllWoken, LoaderIsWoken, WaiterIsWoken

\* A step that changes nothing a sleeper waits for.
LEMMA SameWaits ==
  ASSUME AllWoken, waiting' \subseteq waiting,
         UNCHANGED <<generation, available, error, shutdown, request, signalling>>,
         Loader \in waiting' => UNCHANGED lpc,
         \A h \in waiting' \cap Hosts : call'[h].generation = call[h].generation
  PROVE  AllWoken'
<1>1. LoaderIsWoken'
  BY DEF AllWoken, LoaderIsWoken, NoRequest
<1>2. WaiterIsWoken'
  BY DEF AllWoken, WaiterIsWoken, Superseded, Available
<1> QED BY <1>1, <1>2 DEF AllWoken

LEMMA NextWoken == ManagerInv /\ AllWoken /\ [Next]_vars => AllWoken'
<1> SUFFICES ASSUME ManagerInv, AllWoken, [Next]_vars PROVE AllWoken'
  OBVIOUS
<1>0. TypeOK
  BY DEF ManagerInv
<1>1. CASE LoaderStops \/ LoaderWakes \/ LoadReturns
  <2>1. /\ Loader \notin waiting
        /\ UNCHANGED <<state, requestVars, call, waiting, signalling>>
    BY <1>1 DEF LoaderStops, LoaderWakes, LoadReturns, LoaderAt, Running, HostUnchanged
  <2> QED BY <2>1, SameWaits DEF state, requestVars
\* The loader goes to sleep: it has looked under the same lock.
<1>2. CASE LoaderSleeps
  <2>1. /\ ~shutdown /\ (lpc' = "sleep" => NoRequest)
        /\ waiting' = waiting \cup {Loader}
        /\ UNCHANGED <<state, requestVars, call, signalling>>
    BY <1>2 DEF LoaderSleeps, LoaderAt, HostUnchanged
  <2>2. LoaderIsWoken'
    BY <2>1 DEF LoaderIsWoken, NoRequest, state, requestVars
  <2>3. waiting' \cap Hosts = waiting \cap Hosts
    BY <2>1, ManagerAssumption
  <2>4. WaiterIsWoken'
    BY <2>1, <2>3 DEF AllWoken, WaiterIsWoken, Superseded, Available, state
  <2> QED BY <2>2, <2>4 DEF AllWoken
<1>3. CASE TakeRequest
  <2>1. /\ Loader \notin waiting
        /\ UNCHANGED <<state, call, waiting, signalling>>
    BY <1>3 DEF TakeRequest, LoaderAt, Running, HostUnchanged
  <2> QED BY <2>1 DEF AllWoken, LoaderIsWoken, WaiterIsWoken, Superseded, Available, state
<1>4. CASE Publish
  BY <1>4, Notified DEF Publish, Notify, LoaderAt, Running
<1>5. CASE ComesDue \/ UNCHANGED vars
  <2>1. UNCHANGED <<state, request, lpc, call, waiting, signalling>>
    BY <1>5 DEF ComesDue, vars, loader, requestVars
  <2> QED BY <2>1, SameWaits DEF state
<1>6. ASSUME NEW h \in Hosts,
             (\E to \in Hosts : Clone(h, to)) \/ Drop(h) \/ DeadlinePasses(h)
      PROVE  AllWoken'
  <2>1. UNCHANGED <<state, requestVars, lpc, waiting, signalling>>
    BY <1>6 DEF Clone, Drop, DeadlinePasses, loader
  <2>2. ASSUME NEW u \in Hosts, NEW pc, Goes(u, pc), NEW g \in Hosts
        PROVE  call'[g].generation = call[g].generation
    BY <1>0, <2>2 DEF Goes, TypeOK, Call
  <2>3. ASSUME DeadlinePasses(h), NEW g \in Hosts
        PROVE  call'[g].generation = call[g].generation
    BY <1>0, <2>3 DEF DeadlinePasses, TypeOK, Call
  <2>4. \A g \in Hosts : call'[g].generation = call[g].generation
    BY <1>6, <2>2, <2>3 DEF Clone, Drop
  <2> QED BY <2>1, <2>4, SameWaits DEF state, requestVars
\* The last handle wakes everybody inside the critical section.
<1>7. ASSUME NEW h \in Hosts, ShutDown(h) PROVE AllWoken'
  BY <1>7 DEF ShutDown, AllWoken, LoaderIsWoken, WaiterIsWoken
<1>8. ASSUME NEW h \in Hosts, RequestReload(h) PROVE AllWoken'
  <2>1. signalling' # {} /\ UNCHANGED <<waiting, shutdown>>
    BY <1>8 DEF RequestReload, Notify
  <2> QED BY <2>1, Notified DEF AllWoken, LoaderIsWoken
\* Who starts or ends a wait is awake.
<1>9. ASSUME NEW h \in Hosts, StartWait(h) \/ WaitEnds(h) PROVE AllWoken'
  <2>1. h \notin waiting /\ UNCHANGED <<state, requestVars, lpc, waiting, signalling>>
    BY <1>9 DEF StartWait, WaitEnds, Idle, Running, loader
  <2>2. \A g \in Hosts : g # h => call'[g] = call[g]
    BY <1>0, <1>9 DEF StartWait, WaitEnds, Answer, TypeOK
  <2> QED BY <2>1, <2>2, SameWaits DEF state, requestVars
\* Who goes on to wait has looked: there is no answer yet.
<1>10. ASSUME NEW h \in Hosts, WaitSleeps(h) PROVE AllWoken'
  <2>1. /\ ~Superseded(h) /\ error = NoError /\ ~Available(h)
        /\ waiting' = waiting \cup {h} /\ h # Loader
        /\ UNCHANGED <<state, requestVars, lpc, call, signalling>>
    BY <1>10, ManagerAssumption DEF WaitSleeps, loader
  <2>2. LoaderIsWoken'
    BY <2>1 DEF AllWoken, LoaderIsWoken, NoRequest, state, requestVars
  <2>3. WaiterIsWoken'
    BY <2>1 DEF AllWoken, WaiterIsWoken, Superseded, Available, state
  <2> QED BY <2>2, <2>3 DEF AllWoken
<1>11. ASSUME NEW t \in Threads, Signal(t) PROVE AllWoken'
  BY <1>11 DEF Signal, AllWoken, LoaderIsWoken, WaiterIsWoken
<1>12. ASSUME NEW t \in Threads, WakeUp(t) PROVE AllWoken'
  <2>1. waiting' \subseteq waiting /\ UNCHANGED <<state, requestVars, lpc, call, signalling>>
    BY <1>12 DEF WakeUp, loader
  <2> QED BY <2>1, SameWaits DEF state, requestVars
<1> QED BY <1>1, <1>2, <1>3, <1>4, <1>5, <1>6, <1>7, <1>8, <1>9, <1>10, <1>11, <1>12
  DEF Next, LoaderStep

\* The loader does not sleep through a request or the last handle's end, nor a
\* caller of wait through its answer.
THEOREM NoWakeupIsLost == Spec => []AllWoken
<1>1. Init => AllWoken
  BY DEF Init, AllWoken, LoaderIsWoken, WaiterIsWoken
<1> QED BY <1>1, NextWoken, InvariantHolds, PTL DEF Spec

-----------------------------------------------------------------------------
\* The refinement.  SwapStatus is the abstract status of the latest request.
SwapStatus == IF error # NoError THEN "failed" ELSE IF Get # NoSnapshot THEN "ready"
              ELSE IF loading THEN "loading" ELSE "idle"
SwapStep == [Swap!Ask \/ Swap!Swap \/ Swap!Fail]_(Swap!swapVars)

\* While a request is loading there is nothing to get for it.
LEMMA LoadingStatus ==
  ASSUME ManagerInv PROVE (loading <=> SwapStatus = "loading")
<1>1. CASE loading
  <2>1. error = NoError /\ available.generation # generation
    BY <1>1 DEF ManagerInv, Decided
  <2> QED BY <1>1, <2>1 DEF SwapStatus, Get
<1>2. CASE ~loading
  BY <1>2 DEF SwapStatus
<1> QED BY <1>1, <1>2

LEMMA SwapStutters ==
  ASSUME UNCHANGED <<generation, loading, available, error, workerError>>
  PROVE  SwapStep
BY DEF SwapStep, Swap!swapVars, Get

LEMMA NextSwaps == ManagerInv /\ ManagerInv' /\ [Next]_vars => SwapStep
<1> SUFFICES ASSUME ManagerInv, ManagerInv', [Next]_vars PROVE SwapStep
  OBVIOUS
<1>1. CASE Publish
  <2>0. /\ lpc = "publish" /\ UNCHANGED <<generation, workerError>> /\ Publication
    BY <1>1 DEF Publish, LoaderAt
  <2>1. CASE ~Current
    BY <2>0, <2>1, SwapStutters DEF Publication
  <2>2. CASE Current
    <3>1. /\ workerError = NoError /\ loading /\ ~loading'
          /\ load.generation = generation /\ load.config = generation
          /\ generation \in Nat /\ generation # 0
      <4>1. workerError = NoError /\ Pending
        BY <2>0, <2>2 DEF ManagerInv, Ended, Pending, Preparing
      <4>2. loading
        BY <4>1 DEF ManagerInv, Busy
      <4>3. ~loading'
        BY <2>0, <2>2 DEF Publication
      <4>4. /\ load.generation = generation /\ load.config = generation
            /\ generation \in Nat /\ generation # 0
        BY <2>0, <2>2 DEF Current, ManagerInv, Loaded, Preparing, TypeOK
      <4> QED BY <4>1, <4>2, <4>3, <4>4
    <3>2. SwapStatus = "loading"
      BY <3>1, LoadingStatus
    <3>3. CASE load.ok
      <4>1. /\ available' = [generation |-> generation, engine |-> generation]
            /\ error' = NoError
        BY <2>0, <2>2, <3>1, <3>3 DEF Publication
      <4>2. Get' # NoSnapshot
        BY <2>0, <3>1, <4>1 DEF Get, NoSnapshot
      <4>3. SwapStatus' = "ready" /\ available'.generation = generation
        BY <4>1, <4>2 DEF SwapStatus
      <4>4. Swap!Swap
        BY <2>0, <3>2, <4>3 DEF Swap!Swap, SwapStatus
      <4> QED BY <4>4 DEF SwapStep
    <3>4. CASE ~load.ok
      <4>1. error' = generation /\ UNCHANGED available
        BY <2>0, <2>2, <3>1, <3>4 DEF Publication
      <4>2. SwapStatus' = "failed"
        BY <3>1, <4>1, ManagerAssumption DEF SwapStatus
      <4>3. Swap!Fail
        BY <2>0, <3>2, <4>1, <4>2 DEF Swap!Fail, SwapStatus
      <4> QED BY <4>3 DEF SwapStep
    <3> QED BY <3>3, <3>4
  <2> QED BY <2>1, <2>2
<1>2. ASSUME NEW h \in Hosts, RequestReload(h) PROVE SwapStep
  <2>1. /\ generation' = generation + 1 /\ error' = workerError
        /\ UNCHANGED <<available, workerError>>
    BY <1>2 DEF RequestReload
  <2>2. CASE workerError = NoError
    <3>1. loading'
      BY <1>2, <2>2 DEF RequestReload
    <3>2. SwapStatus' = "loading"
      <4>1. error' = NoError /\ available'.generation # generation'
        BY <3>1 DEF ManagerInv, Decided
      <4> QED BY <3>1, <4>1 DEF SwapStatus, Get
    <3> QED BY <2>1, <2>2, <3>2 DEF SwapStep, Swap!Ask, SwapStatus
  <2>3. CASE workerError # NoError
    <3>1. SwapStatus' = "failed"
      BY <2>1, <2>3 DEF SwapStatus
    <3> QED BY <2>1, <2>3, <3>1 DEF SwapStep, Swap!Ask, SwapStatus
  <2> QED BY <2>2, <2>3
<1>3. CASE LoaderStops \/ LoaderSleeps \/ LoaderWakes \/ TakeRequest \/ LoadReturns
           \/ ComesDue \/ UNCHANGED vars
  <2>1. UNCHANGED state
    BY <1>3 DEF LoaderStops, LoaderSleeps, LoaderWakes, TakeRequest, LoadReturns, ComesDue, vars
  <2> QED BY <2>1, SwapStutters DEF state
<1>4. ASSUME NEW h \in Hosts,
             \/ \E to \in Hosts : Clone(h, to)
             \/ Drop(h) \/ ShutDown(h) \/ StartWait(h) \/ WaitEnds(h) \/ WaitSleeps(h)
             \/ DeadlinePasses(h)
      PROVE  SwapStep
  <2>1. UNCHANGED <<generation, loading, available, error, workerError>>
    BY <1>4 DEF Clone, Drop, ShutDown, StartWait, WaitEnds, WaitSleeps, DeadlinePasses, state
  <2> QED BY <2>1, SwapStutters
<1>5. ASSUME NEW t \in Threads, Signal(t) \/ WakeUp(t) PROVE SwapStep
  BY <1>5, SwapStutters DEF Signal, WakeUp, state
<1> QED BY <1>1, <1>2, <1>3, <1>4, <1>5 DEF Next, LoaderStep

\* The manager implements HotSwap: an overtaken load publishes nothing, and what
\* get returns was loaded for the latest request.
THEOREM PromiseKept == Spec => ImplementsHotSwap
<1>1. Init => Swap!SwapInit
  <2> SUFFICES ASSUME Init PROVE Swap!SwapInit
    OBVIOUS
  <2>1. /\ generation = 0 /\ available = NoSnapshot /\ available.generation = 0 /\ ~loading
        /\ error = workerError
    BY DEF Init, NoSnapshot
  <2>2. Get = NoSnapshot
    BY <2>1 DEF Get
  <2> QED BY <2>1, <2>2 DEF Swap!SwapInit
<1>2. ManagerInv /\ ManagerInv' /\ [Next]_vars => SwapStep
  BY NextSwaps
<1> QED BY <1>1, <1>2, InvariantHolds, PTL DEF Spec, ImplementsHotSwap, Swap!SwapSpec, SwapStep
=============================================================================
