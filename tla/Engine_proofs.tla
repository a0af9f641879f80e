---------------------------- MODULE Engine_proofs ----------------------------
(***************************************************************************)
(* The safety properties of Engine, for any number of calls and any        *)
(* limits.                                                                 *)
(***************************************************************************)
EXTENDS Engine, FiniteSetTheorems, TLAPS

USE DEF NoNetwork

BeforeSession == {"idle", "validated", "permit", "driver", "build", "spawn", "refused"}
EngineTypes ==
    /\ pc \in [Calls -> BeforeSession \cup {"open", "push", "finish", "returned"}]
    /\ expired \in [Calls -> BOOLEAN] /\ accepting \in [Calls -> BOOLEAN]
    /\ sessions \in Int /\ built \in Nat /\ slot \in Nat
    /\ slotLock \in Calls \cup {NoCall}
    /\ network \in [Calls -> Nat]
    /\ worker \in [Calls -> {"none", "running", "finished", "checked", "gone"}]
    /\ pushed \in [Calls -> Nat] /\ heard \in [Calls -> Nat]
    /\ outcome \in [Calls -> {"none", "ok", "error"}]

\* Who builds a network holds the lock, and there is none yet.
BuildsAlone ==
    \A c \in Calls : pc[c] = "build" => slotLock = c /\ slot = NoNetwork

\* A thread is there only for a call that has got its session.
NoThreadYet == \A c \in Calls : pc[c] \in BeforeSession => worker[c] = "none"

\* Before the deadline the input of a transcription is closed when everything
\* is pushed; what the worker knows at its last steps follows from that.
ClosedInFull(c) ==
    worker[c] # "none" /\ ~accepting[c] /\ outcome[c] = "none" /\ ~expired[c] => pushed[c] = Chunks
FinishedInFull(c) == worker[c] = "finished" /\ ~expired[c] => heard[c] = Chunks
CheckedInFull(c) == worker[c] = "checked" \/ outcome[c] = "ok" => heard[c] = Chunks
HeardInFull ==
    \A c \in Transcriptions :
        pc[c] # "open" /\ ClosedInFull(c) /\ FinishedInFull(c) /\ CheckedInFull(c)

EngineInv ==
    EngineTypes /\ BuildsAlone /\ OneNetwork /\ NoThreadYet /\ HeardInFull /\ PermitsAccounted
-----------------------------------------------------------------------------
\* The conjuncts of EngineInv in turn, each with one step per action.
LEMMA StepTyped ==
    ASSUME EngineTypes, [EngineNext]_vars PROVE EngineTypes'
<1> USE DEF EngineTypes, BeforeSession
<1>1. CASE UNCHANGED vars
  BY <1>1 DEF vars, callVars, networkVars, sessionVars
<1>2. ASSUME NEW c \in Calls,
             StartStep(c) \/ TranscribeStep(c) \/ Cancel(c) \/ Tick(c) \/ Worker(c) \/ WorkerExits(c)
      PROVE  EngineTypes'
  <2>1. ASSUME ValidateRecording(c) PROVE EngineTypes'
    BY <2>1 DEF ValidateRecording, Goes, callVars, networkVars, sessionVars
  <2>2. ASSUME ValidateHints(c) PROVE EngineTypes'
    BY <2>2 DEF ValidateHints, Goes, callVars, networkVars, sessionVars
  <2>3. ASSUME Acquire(c) PROVE EngineTypes'
    BY <2>3 DEF Acquire, Goes, callVars, networkVars, sessionVars
  <2>4. ASSUME LookAtSlot(c) PROVE EngineTypes'
    BY <2>4 DEF LookAtSlot, Goes, callVars, networkVars, sessionVars
  <2>5. ASSUME Build(c) PROVE EngineTypes'
    BY <2>5 DEF Build, Goes, callVars, networkVars, sessionVars
  <2>6. ASSUME BuildFails(c) PROVE EngineTypes'
    BY <2>6 DEF BuildFails, Goes, Release, callVars, networkVars, sessionVars
  <2>7. ASSUME Spawn(c) PROVE EngineTypes'
    BY <2>7 DEF Spawn, Goes, callVars, networkVars, sessionVars
  <2>8. ASSUME SpawnFails(c) PROVE EngineTypes'
    BY <2>8 DEF SpawnFails, Goes, Release, callVars, networkVars, sessionVars
  <2>9. ASSUME PushChunk(c) PROVE EngineTypes'
    BY <2>9 DEF PushChunk, CallStep, callVars, networkVars, sessionVars
  <2>10. ASSUME PushRefused(c) PROVE EngineTypes'
    BY <2>10 DEF PushRefused, CallStep, Goes, Settled, callVars, networkVars, sessionVars
  <2>11. ASSUME FinishCall(c) PROVE EngineTypes'
    BY <2>11 DEF FinishCall, CallStep, Goes, callVars, networkVars, sessionVars
  <2>12. ASSUME FinishReturns(c) PROVE EngineTypes'
    BY <2>12 DEF FinishReturns, CallStep, Goes, Settled, callVars, networkVars, sessionVars
  <2>13. ASSUME Cancel(c) PROVE EngineTypes'
    BY <2>13 DEF Cancel, CallStep, Goes, Settled, callVars, networkVars, sessionVars
  <2>14. ASSUME Tick(c) PROVE EngineTypes'
    BY <2>14 DEF Tick, CallStep, callVars, networkVars, sessionVars
  <2>15. ASSUME UNCHANGED <<callVars, sessions, networkVars>>, WorkerHears(c) PROVE EngineTypes'
    BY <2>15 DEF WorkerHears, callVars, networkVars, sessionVars
  <2>16. ASSUME UNCHANGED <<callVars, sessions, networkVars>>, WorkerFails(c) PROVE EngineTypes'
    BY <2>16 DEF WorkerFails, Settled, callVars, networkVars, sessionVars
  <2>17. ASSUME UNCHANGED <<callVars, sessions, networkVars>>, DriverFinishes(c) PROVE EngineTypes'
    BY <2>17 DEF DriverFinishes, WorkerGoes, callVars, networkVars, sessionVars
  <2>18. ASSUME UNCHANGED <<callVars, sessions, networkVars>>, LastCheck(c) PROVE EngineTypes'
    BY <2>18 DEF LastCheck, WorkerGoes, Settled, callVars, networkVars, sessionVars
  <2>19. ASSUME UNCHANGED <<callVars, sessions, networkVars>>, Complete(c) PROVE EngineTypes'
    BY <2>19 DEF Complete, Settled, callVars, networkVars, sessionVars
  <2>20. ASSUME WorkerExits(c) PROVE EngineTypes'
    BY <2>20 DEF WorkerExits, Release, HasWorker, callVars, networkVars, sessionVars
  <2> QED
    BY <1>2, <2>1, <2>2, <2>3, <2>4, <2>5, <2>6, <2>7, <2>8, <2>9, <2>10, <2>11, <2>12, <2>13, <2>14, <2>15, <2>16, <2>17, <2>18, <2>19, <2>20
       DEF StartStep, TranscribeStep, Worker
<1> QED
  BY <1>1, <1>2 DEF EngineNext

\* The lock is what keeps a second builder out.
LEMMA StepBuildsAlone ==
    ASSUME EngineTypes, BuildsAlone, [EngineNext]_vars PROVE BuildsAlone'
<1> USE EngineAssumption DEF EngineTypes, BeforeSession, BuildsAlone
<1>1. CASE UNCHANGED vars
  BY <1>1 DEF vars, callVars, networkVars, sessionVars
<1>2. ASSUME NEW c \in Calls,
             StartStep(c) \/ TranscribeStep(c) \/ Cancel(c) \/ Tick(c) \/ Worker(c) \/ WorkerExits(c)
      PROVE  BuildsAlone'
  <2>1. ASSUME ValidateRecording(c) PROVE BuildsAlone'
    BY <2>1 DEF ValidateRecording, Goes, callVars, networkVars, sessionVars
  <2>2. ASSUME ValidateHints(c) PROVE BuildsAlone'
    BY <2>2 DEF ValidateHints, Goes, callVars, networkVars, sessionVars
  <2>3. ASSUME Acquire(c) PROVE BuildsAlone'
    BY <2>3 DEF Acquire, Goes, callVars, networkVars, sessionVars
  <2>4. ASSUME LookAtSlot(c) PROVE BuildsAlone'
    BY <2>4 DEF LookAtSlot, Goes, callVars, networkVars, sessionVars
  <2>5. ASSUME Build(c) PROVE BuildsAlone'
    BY <2>5 DEF Build, Goes, callVars, networkVars, sessionVars
  <2>6. ASSUME BuildFails(c) PROVE BuildsAlone'
    BY <2>6 DEF BuildFails, Goes, Release, callVars, networkVars, sessionVars
  <2>7. ASSUME Spawn(c) PROVE BuildsAlone'
    BY <2>7 DEF Spawn, Goes, callVars, networkVars, sessionVars
  <2>8. ASSUME SpawnFails(c) PROVE BuildsAlone'
    BY <2>8 DEF SpawnFails, Goes, Release, callVars, networkVars, sessionVars
  <2>9. ASSUME PushChunk(c) PROVE BuildsAlone'
    BY <2>9 DEF PushChunk, CallStep, callVars, networkVars, sessionVars
  <2>10. ASSUME PushRefused(c) PROVE BuildsAlone'
    BY <2>10 DEF PushRefused, CallStep, Goes, Settled, callVars, networkVars, sessionVars
  <2>11. ASSUME FinishCall(c) PROVE BuildsAlone'
    BY <2>11 DEF FinishCall, CallStep, Goes, callVars, networkVars, sessionVars
  <2>12. ASSUME FinishReturns(c) PROVE BuildsAlone'
    BY <2>12 DEF FinishReturns, CallStep, Goes, Settled, callVars, networkVars, sessionVars
  <2>13. ASSUME Cancel(c) PROVE BuildsAlone'
    BY <2>13 DEF Cancel, CallStep, Goes, Settled, callVars, networkVars, sessionVars
  <2>14. ASSUME Tick(c) PROVE BuildsAlone'
    BY <2>14 DEF Tick, CallStep, callVars, networkVars, sessionVars
  <2>15. ASSUME UNCHANGED <<callVars, sessions, networkVars>>, WorkerHears(c) PROVE BuildsAlone'
    BY <2>15 DEF WorkerHears, callVars, networkVars, sessionVars
  <2>16. ASSUME UNCHANGED <<callVars, sessions, networkVars>>, WorkerFails(c) PROVE BuildsAlone'
    BY <2>16 DEF WorkerFails, Settled, callVars, networkVars, sessionVars
  <2>17. ASSUME UNCHANGED <<callVars, sessions, networkVars>>, DriverFinishes(c) PROVE BuildsAlone'
    BY <2>17 DEF DriverFinishes, WorkerGoes, callVars, networkVars, sessionVars
  <2>18. ASSUME UNCHANGED <<callVars, sessions, networkVars>>, LastCheck(c) PROVE BuildsAlone'
    BY <2>18 DEF LastCheck, WorkerGoes, Settled, callVars, networkVars, sessionVars
  <2>19. ASSUME UNCHANGED <<callVars, sessions, networkVars>>, Complete(c) PROVE BuildsAlone'
    BY <2>19 DEF Complete, Settled, callVars, networkVars, sessionVars
  <2>20. ASSUME WorkerExits(c) PROVE BuildsAlone'
    BY <2>20 DEF WorkerExits, Release, HasWorker, callVars, networkVars, sessionVars
  <2> QED
    BY <1>2, <2>1, <2>2, <2>3, <2>4, <2>5, <2>6, <2>7, <2>8, <2>9, <2>10, <2>11, <2>12, <2>13, <2>14, <2>15, <2>16, <2>17, <2>18, <2>19, <2>20
       DEF StartStep, TranscribeStep, Worker
<1> QED
  BY <1>1, <1>2 DEF EngineNext

\* A network is built only while there is none, and so while none is in use.
LEMMA StepSharesNetwork ==
    ASSUME EngineTypes, BuildsAlone, OneNetwork, [EngineNext]_vars PROVE OneNetwork'
<1> USE DEF EngineTypes, BuildsAlone, OneNetwork
<1>1. CASE UNCHANGED vars
  BY <1>1 DEF vars, callVars, networkVars, sessionVars
<1>2. ASSUME NEW c \in Calls,
             StartStep(c) \/ TranscribeStep(c) \/ Cancel(c) \/ Tick(c) \/ Worker(c) \/ WorkerExits(c)
      PROVE  OneNetwork'
  <2>1. ASSUME ValidateRecording(c) PROVE OneNetwork'
    BY <2>1 DEF ValidateRecording, Goes, callVars, networkVars, sessionVars
  <2>2. ASSUME ValidateHints(c) PROVE OneNetwork'
    BY <2>2 DEF ValidateHints, Goes, callVars, networkVars, sessionVars
  <2>3. ASSUME Acquire(c) PROVE OneNetwork'
    BY <2>3 DEF Acquire, Goes, callVars, networkVars, sessionVars
  <2>4. ASSUME LookAtSlot(c) PROVE OneNetwork'
    BY <2>4 DEF LookAtSlot, Goes, callVars, networkVars, sessionVars
  <2>5. ASSUME Build(c) PROVE OneNetwork'
    BY <2>5 DEF Build, Goes, callVars, networkVars, sessionVars
  <2>6. ASSUME BuildFails(c) PROVE OneNetwork'
    BY <2>6 DEF BuildFails, Goes, Release, callVars, networkVars, sessionVars
  <2>7. ASSUME Spawn(c) PROVE OneNetwork'
    BY <2>7 DEF Spawn, Goes, callVars, networkVars, sessionVars
  <2>8. ASSUME SpawnFails(c) PROVE OneNetwork'
    BY <2>8 DEF SpawnFails, Goes, Release, callVars, networkVars, sessionVars
  <2>9. ASSUME PushChunk(c) PROVE OneNetwork'
    BY <2>9 DEF PushChunk, CallStep, callVars, networkVars, sessionVars
  <2>10. ASSUME PushRefused(c) PROVE OneNetwork'
    BY <2>10 DEF PushRefused, CallStep, Goes, Settled, callVars, networkVars, sessionVars
  <2>11. ASSUME FinishCall(c) PROVE OneNetwork'
    BY <2>11 DEF FinishCall, CallStep, Goes, callVars, networkVars, sessionVars
  <2>12. ASSUME FinishReturns(c) PROVE OneNetwork'
    BY <2>12 DEF FinishReturns, CallStep, Goes, Settled, callVars, networkVars, sessionVars
  <2>13. ASSUME Cancel(c) PROVE OneNetwork'
    BY <2>13 DEF Cancel, CallStep, Goes, Settled, callVars, networkVars, sessionVars
  <2>14. ASSUME Tick(c) PROVE OneNetwork'
    BY <2>14 DEF Tick, CallStep, callVars, networkVars, sessionVars
  <2>15. ASSUME UNCHANGED <<callVars, sessions, networkVars>>, WorkerHears(c) PROVE OneNetwork'
    BY <2>15 DEF WorkerHears, callVars, networkVars, sessionVars
  <2>16. ASSUME UNCHANGED <<callVars, sessions, networkVars>>, WorkerFails(c) PROVE OneNetwork'
    BY <2>16 DEF WorkerFails, Settled, callVars, networkVars, sessionVars
  <2>17. ASSUME UNCHANGED <<callVars, sessions, networkVars>>, DriverFinishes(c) PROVE OneNetwork'
    BY <2>17 DEF DriverFinishes, WorkerGoes, callVars, networkVars, sessionVars
  <2>18. ASSUME UNCHANGED <<callVars, sessions, networkVars>>, LastCheck(c) PROVE OneNetwork'
    BY <2>18 DEF LastCheck, WorkerGoes, Settled, callVars, networkVars, sessionVars
  <2>19. ASSUME UNCHANGED <<callVars, sessions, networkVars>>, Complete(c) PROVE OneNetwork'
    BY <2>19 DEF Complete, Settled, callVars, networkVars, sessionVars
  <2>20. ASSUME WorkerExits(c) PROVE OneNetwork'
    BY <2>20 DEF WorkerExits, Release, HasWorker, callVars, networkVars, sessionVars
  <2> QED
    BY <1>2, <2>1, <2>2, <2>3, <2>4, <2>5, <2>6, <2>7, <2>8, <2>9, <2>10, <2>11, <2>12, <2>13, <2>14, <2>15, <2>16, <2>17, <2>18, <2>19, <2>20
       DEF StartStep, TranscribeStep, Worker
<1> QED
  BY <1>1, <1>2 DEF EngineNext

LEMMA StepWithoutThread ==
    ASSUME EngineTypes, NoThreadYet, [EngineNext]_vars PROVE NoThreadYet'
<1> USE DEF EngineTypes, BeforeSession, NoThreadYet, HasWorker
<1>1. CASE UNCHANGED vars
  BY <1>1 DEF vars, callVars, networkVars, sessionVars
<1>2. ASSUME NEW c \in Calls,
             StartStep(c) \/ TranscribeStep(c) \/ Cancel(c) \/ Tick(c) \/ Worker(c) \/ WorkerExits(c)
      PROVE  NoThreadYet'
  <2>1. ASSUME ValidateRecording(c) PROVE NoThreadYet'
    BY <2>1 DEF ValidateRecording, Goes, callVars, networkVars, sessionVars
  <2>2. ASSUME ValidateHints(c) PROVE NoThreadYet'
    BY <2>2 DEF ValidateHints, Goes, callVars, networkVars, sessionVars
  <2>3. ASSUME Acquire(c) PROVE NoThreadYet'
    BY <2>3 DEF Acquire, Goes, callVars, networkVars, sessionVars
  <2>4. ASSUME LookAtSlot(c) PROVE NoThreadYet'
    BY <2>4 DEF LookAtSlot, Goes, callVars, networkVars, sessionVars
  <2>5. ASSUME Build(c) PROVE NoThreadYet'
    BY <2>5 DEF Build, Goes, callVars, networkVars, sessionVars
  <2>6. ASSUME BuildFails(c) PROVE NoThreadYet'
    BY <2>6 DEF BuildFails, Goes, Release, callVars, networkVars, sessionVars
  <2>7. ASSUME Spawn(c) PROVE NoThreadYet'
    BY <2>7 DEF Spawn, Goes, callVars, networkVars, sessionVars
  <2>8. ASSUME SpawnFails(c) PROVE NoThreadYet'
    BY <2>8 DEF SpawnFails, Goes, Release, callVars, networkVars, sessionVars
  <2>9. ASSUME PushChunk(c) PROVE NoThreadYet'
    BY <2>9 DEF PushChunk, CallStep, callVars, networkVars, sessionVars
  <2>10. ASSUME PushRefused(c) PROVE NoThreadYet'
    BY <2>10 DEF PushRefused, CallStep, Goes, Settled, callVars, networkVars, sessionVars
  <2>11. ASSUME FinishCall(c) PROVE NoThreadYet'
    BY <2>11 DEF FinishCall, CallStep, Goes, callVars, networkVars, sessionVars
  <2>12. ASSUME FinishReturns(c) PROVE NoThreadYet'
    BY <2>12 DEF FinishReturns, CallStep, Goes, Settled, callVars, networkVars, sessionVars
  <2>13. ASSUME Cancel(c) PROVE NoThreadYet'
    BY <2>13 DEF Cancel, CallStep, Goes, Settled, callVars, networkVars, sessionVars
  <2>14. ASSUME Tick(c) PROVE NoThreadYet'
    BY <2>14 DEF Tick, CallStep, callVars, networkVars, sessionVars
  <2>15. ASSUME UNCHANGED <<callVars, sessions, networkVars>>, WorkerHears(c) PROVE NoThreadYet'
    BY <2>15 DEF WorkerHears, callVars, networkVars, sessionVars
  <2>16. ASSUME UNCHANGED <<callVars, sessions, networkVars>>, WorkerFails(c) PROVE NoThreadYet'
    BY <2>16 DEF WorkerFails, Settled, callVars, networkVars, sessionVars
  <2>17. ASSUME UNCHANGED <<callVars, sessions, networkVars>>, DriverFinishes(c) PROVE NoThreadYet'
    BY <2>17 DEF DriverFinishes, WorkerGoes, callVars, networkVars, sessionVars
  <2>18. ASSUME UNCHANGED <<callVars, sessions, networkVars>>, LastCheck(c) PROVE NoThreadYet'
    BY <2>18 DEF LastCheck, WorkerGoes, Settled, callVars, networkVars, sessionVars
  <2>19. ASSUME UNCHANGED <<callVars, sessions, networkVars>>, Complete(c) PROVE NoThreadYet'
    BY <2>19 DEF Complete, Settled, callVars, networkVars, sessionVars
  <2>20. ASSUME WorkerExits(c) PROVE NoThreadYet'
    BY <2>20 DEF WorkerExits, Release, HasWorker, callVars, networkVars, sessionVars
  <2> QED
    BY <1>2, <2>1, <2>2, <2>3, <2>4, <2>5, <2>6, <2>7, <2>8, <2>9, <2>10, <2>11, <2>12, <2>13, <2>14, <2>15, <2>16, <2>17, <2>18, <2>19, <2>20
       DEF StartStep, TranscribeStep, Worker
<1> QED
  BY <1>1, <1>2 DEF EngineNext

\* Only DriverFinishes and LastCheck add to what the worker knows of the deadline.
LEMMA StepHeard ==
    ASSUME EngineTypes, NoThreadYet, HeardInFull, [EngineNext]_vars PROVE HeardInFull'
<1> USE EngineAssumption DEF EngineTypes, BeforeSession, NoThreadYet, HeardInFull,
    ClosedInFull, FinishedInFull, CheckedInFull, HasWorker
<1>1. CASE UNCHANGED vars
  BY <1>1 DEF vars, callVars, networkVars, sessionVars
<1>2. ASSUME NEW c \in Calls,
             StartStep(c) \/ TranscribeStep(c) \/ Cancel(c) \/ Tick(c) \/ Worker(c) \/ WorkerExits(c)
      PROVE  HeardInFull'
  <2>1. ASSUME ValidateRecording(c) PROVE HeardInFull'
    BY <2>1 DEF ValidateRecording, Goes, callVars, networkVars, sessionVars
  <2>2. ASSUME ValidateHints(c) PROVE HeardInFull'
    BY <2>2 DEF ValidateHints, Goes, callVars, networkVars, sessionVars
  <2>3. ASSUME Acquire(c) PROVE HeardInFull'
    BY <2>3 DEF Acquire, Goes, callVars, networkVars, sessionVars
  <2>4. ASSUME LookAtSlot(c) PROVE HeardInFull'
    BY <2>4 DEF LookAtSlot, Goes, callVars, networkVars, sessionVars
  <2>5. ASSUME Build(c) PROVE HeardInFull'
    BY <2>5 DEF Build, Goes, callVars, networkVars, sessionVars
  <2>6. ASSUME BuildFails(c) PROVE HeardInFull'
    BY <2>6 DEF BuildFails, Goes, Release, callVars, networkVars, sessionVars
  <2>7. ASSUME Spawn(c) PROVE HeardInFull'
    BY <2>7 DEF Spawn, Goes, callVars, networkVars, sessionVars
  <2>8. ASSUME SpawnFails(c) PROVE HeardInFull'
    BY <2>8 DEF SpawnFails, Goes, Release, callVars, networkVars, sessionVars
  <2>9. ASSUME PushChunk(c) PROVE HeardInFull'
    BY <2>9 DEF PushChunk, CallStep, callVars, networkVars, sessionVars
  <2>10. ASSUME PushRefused(c) PROVE HeardInFull'
    BY <2>10 DEF PushRefused, CallStep, Goes, Settled, callVars, networkVars, sessionVars
  <2>11. ASSUME FinishCall(c) PROVE HeardInFull'
    BY <2>11 DEF FinishCall, CallStep, Goes, callVars, networkVars, sessionVars
  <2>12. ASSUME FinishReturns(c) PROVE HeardInFull'
    BY <2>12 DEF FinishReturns, CallStep, Goes, Settled, callVars, networkVars, sessionVars
  <2>13. ASSUME Cancel(c) PROVE HeardInFull'
    BY <2>13 DEF Cancel, CallStep, Goes, Settled, callVars, networkVars, sessionVars
  <2>14. ASSUME Tick(c) PROVE HeardInFull'
    BY <2>14 DEF Tick, CallStep, callVars, networkVars, sessionVars
  <2>15. ASSUME UNCHANGED <<callVars, sessions, networkVars>>, WorkerHears(c) PROVE HeardInFull'
    BY <2>15 DEF WorkerHears, callVars, networkVars, sessionVars
  <2>16. ASSUME UNCHANGED <<callVars, sessions, networkVars>>, WorkerFails(c) PROVE HeardInFull'
    BY <2>16 DEF WorkerFails, Settled, callVars, networkVars, sessionVars
  <2>17. ASSUME UNCHANGED <<callVars, sessions, networkVars>>, DriverFinishes(c) PROVE HeardInFull'
    BY <2>17 DEF DriverFinishes, WorkerGoes, callVars, networkVars, sessionVars
  <2>18. ASSUME UNCHANGED <<callVars, sessions, networkVars>>, LastCheck(c) PROVE HeardInFull'
    BY <2>18 DEF LastCheck, WorkerGoes, Settled, callVars, networkVars, sessionVars
  <2>19. ASSUME UNCHANGED <<callVars, sessions, networkVars>>, Complete(c) PROVE HeardInFull'
    BY <2>19 DEF Complete, Settled, callVars, networkVars, sessionVars
  <2>20. ASSUME WorkerExits(c) PROVE HeardInFull'
    BY <2>20 DEF WorkerExits, Release, HasWorker, callVars, networkVars, sessionVars
  <2> QED
    BY <1>2, <2>1, <2>2, <2>3, <2>4, <2>5, <2>6, <2>7, <2>8, <2>9, <2>10, <2>11, <2>12, <2>13, <2>14, <2>15, <2>16, <2>17, <2>18, <2>19, <2>20
       DEF StartStep, TranscribeStep, Worker
<1> QED
  BY <1>1, <1>2 DEF EngineNext

\* A permit that is given out or taken back is counted.
LEMMA HoldersCounted ==
    ASSUME EngineTypes, PermitsAccounted, NEW c \in Calls,
           \/ Holders' = Holders /\ UNCHANGED sessions
           \/ Holders' = Holders \cup {c} /\ c \notin Holders
              /\ sessions' = sessions + 1 /\ sessions < MaxActiveSessions
           \/ Holders' = Holders \ {c} /\ c \in Holders /\ sessions' = sessions - 1
    PROVE  PermitsAccounted'
<1>1. IsFiniteSet(Holders) /\ Holders \subseteq Calls
  BY FS_Subset, EngineAssumption DEF Holders
<1>2. CASE Holders' = Holders /\ UNCHANGED sessions
  BY <1>2 DEF PermitsAccounted
<1>3. CASE Holders' = Holders \cup {c} /\ c \notin Holders
           /\ sessions' = sessions + 1 /\ sessions < MaxActiveSessions
  <2>1. Cardinality(Holders') = Cardinality(Holders) + 1
    BY <1>1, <1>3, FS_AddElement
  <2> QED
    BY <1>3, <2>1, EngineAssumption DEF PermitsAccounted, EngineTypes
<1>4. CASE Holders' = Holders \ {c} /\ c \in Holders /\ sessions' = sessions - 1
  <2>1. Cardinality(Holders') = Cardinality(Holders) - 1
    BY <1>1, <1>4, FS_RemoveElement
  <2> QED
    BY <1>4, <2>1, EngineAssumption DEF PermitsAccounted, EngineTypes
<1> QED
  BY <1>2, <1>3, <1>4

LEMMA StepPermits ==
    ASSUME EngineTypes, NoThreadYet, PermitsAccounted, [EngineNext]_vars PROVE PermitsAccounted'
<1> USE DEF EngineTypes, BeforeSession, NoThreadYet, HasWorker, Holders
<1>1. CASE UNCHANGED vars
  BY <1>1 DEF PermitsAccounted, vars, callVars, networkVars, sessionVars
<1>2. ASSUME NEW c \in Calls,
             StartStep(c) \/ TranscribeStep(c) \/ Cancel(c) \/ Tick(c) \/ Worker(c) \/ WorkerExits(c)
      PROVE  PermitsAccounted'
  <2>1. ASSUME ValidateRecording(c) PROVE PermitsAccounted'
    <3>1. Holders' = Holders /\ UNCHANGED sessions
      BY <2>1 DEF ValidateRecording, Goes, callVars, networkVars, sessionVars
    <3> QED
      BY <3>1, HoldersCounted
  <2>2. ASSUME ValidateHints(c) PROVE PermitsAccounted'
    <3>1. Holders' = Holders /\ UNCHANGED sessions
      BY <2>2 DEF ValidateHints, Goes, callVars, networkVars, sessionVars
    <3> QED
      BY <3>1, HoldersCounted
  <2>3. ASSUME Acquire(c) PROVE PermitsAccounted'
    <3>1. CASE UNCHANGED sessions /\ Goes(c, "refused") /\ UNCHANGED worker /\ pc[c] = "permit"
      <4>1. Holders' = Holders
        BY <3>1 DEF Goes
      <4> QED
        BY <3>1, <4>1, HoldersCounted
    <3>2. CASE sessions < MaxActiveSessions /\ sessions' = sessions + 1
               /\ Goes(c, "driver") /\ UNCHANGED worker /\ pc[c] = "permit"
      <4>1. Holders' = Holders \cup {c} /\ c \notin Holders
        BY <3>2 DEF Goes
      <4> QED
        BY <3>2, <4>1, HoldersCounted
    <3> QED
      BY <2>3, <3>1, <3>2 DEF Acquire
  <2>4. ASSUME LookAtSlot(c) PROVE PermitsAccounted'
    <3>1. Holders' = Holders /\ UNCHANGED sessions
      BY <2>4 DEF LookAtSlot, Goes, callVars, networkVars, sessionVars
    <3> QED
      BY <3>1, HoldersCounted
  <2>5. ASSUME Build(c) PROVE PermitsAccounted'
    <3>1. Holders' = Holders /\ UNCHANGED sessions
      BY <2>5 DEF Build, Goes, callVars, networkVars, sessionVars
    <3> QED
      BY <3>1, HoldersCounted
  <2>6. ASSUME BuildFails(c) PROVE PermitsAccounted'
    <3>1. Holders' = Holders \ {c} /\ c \in Holders /\ sessions' = sessions - 1
      BY <2>6 DEF BuildFails, Goes, Release, callVars, networkVars, sessionVars
    <3> QED
      BY <3>1, HoldersCounted
  <2>7. ASSUME Spawn(c) PROVE PermitsAccounted'
    <3>1. Holders' = Holders /\ UNCHANGED sessions
      BY <2>7 DEF Spawn, Goes, callVars, networkVars, sessionVars
    <3> QED
      BY <3>1, HoldersCounted
  <2>8. ASSUME SpawnFails(c) PROVE PermitsAccounted'
    <3>1. Holders' = Holders \ {c} /\ c \in Holders /\ sessions' = sessions - 1
      BY <2>8 DEF SpawnFails, Goes, Release, callVars, networkVars, sessionVars
    <3> QED
      BY <3>1, HoldersCounted
  <2>9. ASSUME PushChunk(c) PROVE PermitsAccounted'
    <3>1. Holders' = Holders /\ UNCHANGED sessions
      BY <2>9 DEF PushChunk, CallStep, callVars, networkVars, sessionVars
    <3> QED
      BY <3>1, HoldersCounted
  <2>10. ASSUME PushRefused(c) PROVE PermitsAccounted'
    <3>1. Holders' = Holders /\ UNCHANGED sessions
      BY <2>10 DEF PushRefused, CallStep, Goes, Settled, callVars, networkVars, sessionVars
    <3> QED
      BY <3>1, HoldersCounted
  <2>11. ASSUME FinishCall(c) PROVE PermitsAccounted'
    <3>1. Holders' = Holders /\ UNCHANGED sessions
      BY <2>11 DEF FinishCall, CallStep, Goes, callVars, networkVars, sessionVars
    <3> QED
      BY <3>1, HoldersCounted
  <2>12. ASSUME FinishReturns(c) PROVE PermitsAccounted'
    <3>1. Holders' = Holders /\ UNCHANGED sessions
      BY <2>12 DEF FinishReturns, CallStep, Goes, Settled, callVars, networkVars, sessionVars
    <3> QED
      BY <3>1, HoldersCounted
  <2>13. ASSUME Cancel(c) PROVE PermitsAccounted'
    <3>1. Holders' = Holders /\ UNCHANGED sessions
      BY <2>13 DEF Cancel, CallStep, Goes, Settled, callVars, networkVars, sessionVars
    <3> QED
      BY <3>1, HoldersCounted
  <2>14. ASSUME Tick(c) PROVE PermitsAccounted'
    <3>1. Holders' = Holders /\ UNCHANGED sessions
      BY <2>14 DEF Tick, CallStep, callVars, networkVars, sessionVars
    <3> QED
      BY <3>1, HoldersCounted
  <2>15. ASSUME UNCHANGED <<callVars, sessions, networkVars>>, WorkerHears(c) PROVE PermitsAccounted'
    <3>1. Holders' = Holders /\ UNCHANGED sessions
      BY <2>15 DEF WorkerHears, callVars, networkVars, sessionVars
    <3> QED
      BY <3>1, HoldersCounted
  <2>16. ASSUME UNCHANGED <<callVars, sessions, networkVars>>, WorkerFails(c) PROVE PermitsAccounted'
    <3>1. Holders' = Holders /\ UNCHANGED sessions
      BY <2>16 DEF WorkerFails, Settled, callVars, networkVars, sessionVars
    <3> QED
      BY <3>1, HoldersCounted
  <2>17. ASSUME UNCHANGED <<callVars, sessions, networkVars>>, DriverFinishes(c) PROVE PermitsAccounted'
    <3>1. Holders' = Holders /\ UNCHANGED sessions
      BY <2>17 DEF DriverFinishes, WorkerGoes, callVars, networkVars, sessionVars
    <3> QED
      BY <3>1, HoldersCounted
  <2>18. ASSUME UNCHANGED <<callVars, sessions, networkVars>>, LastCheck(c) PROVE PermitsAccounted'
    <3>1. Holders' = Holders /\ UNCHANGED sessions
      BY <2>18 DEF LastCheck, WorkerGoes, Settled, callVars, networkVars, sessionVars
    <3> QED
      BY <3>1, HoldersCounted
  <2>19. ASSUME UNCHANGED <<callVars, sessions, networkVars>>, Complete(c) PROVE PermitsAccounted'
    <3>1. Holders' = Holders /\ UNCHANGED sessions
      BY <2>19 DEF Complete, Settled, callVars, networkVars, sessionVars
    <3> QED
      BY <3>1, HoldersCounted
  <2>20. ASSUME WorkerExits(c) PROVE PermitsAccounted'
    <3>1. Holders' = Holders \ {c} /\ c \in Holders /\ sessions' = sessions - 1
      BY <2>20 DEF WorkerExits, Release, HasWorker, callVars, networkVars, sessionVars
    <3> QED
      BY <3>1, HoldersCounted
  <2> QED
    BY <1>2, <2>1, <2>2, <2>3, <2>4, <2>5, <2>6, <2>7, <2>8, <2>9, <2>10, <2>11, <2>12, <2>13, <2>14, <2>15, <2>16, <2>17, <2>18, <2>19, <2>20
       DEF StartStep, TranscribeStep, Worker
<1> QED
  BY <1>1, <1>2 DEF EngineNext

-----------------------------------------------------------------------------
LEMMA InitInv == EngineInit => EngineInv
<1> SUFFICES ASSUME EngineInit PROVE EngineInv
  OBVIOUS
<1>1. EngineTypes /\ BuildsAlone /\ OneNetwork /\ NoThreadYet
  BY DEF EngineInit, EngineTypes, BeforeSession, BuildsAlone, OneNetwork, NoThreadYet
<1>2. HeardInFull
  BY EngineAssumption DEF EngineInit, HeardInFull, ClosedInFull, FinishedInFull, CheckedInFull
<1>3. Holders = {}
  BY DEF EngineInit, Holders, HasWorker
<1>4. PermitsAccounted
  BY <1>3, FS_EmptySet, EngineAssumption DEF EngineInit, PermitsAccounted
<1> QED
  BY <1>1, <1>2, <1>4 DEF EngineInv

LEMMA StepInv == EngineInv /\ [EngineNext]_vars => EngineInv'
BY StepTyped, StepBuildsAlone, StepSharesNetwork, StepWithoutThread, StepHeard, StepPermits
   DEF EngineInv

LEMMA Invariance == EngineSpec => []EngineInv
BY InitInv, StepInv, PTL DEF EngineSpec

\* start and transcribe neither lose a permit nor give out more than the
\* configured number, whatever fails and in whatever order threads end.
THEOREM PermitsAreAccounted == EngineSpec => []PermitsAccounted
<1>1. EngineInv => PermitsAccounted
  BY DEF EngineInv
<1> QED
  BY <1>1, Invariance, PTL

\* All sessions of an engine use the same network (init_on_success).
THEOREM NetworkIsShared == EngineSpec => []OneNetwork
<1>1. EngineInv => OneNetwork
  BY DEF EngineInv
<1> QED
  BY <1>1, Invariance, PTL

\* transcribe never reports a recording cut short by its deadline as a good one.
THEOREM TranscriptionIsWhole == EngineSpec => []TranscribesInFull
<1>1. EngineInv => TranscribesInFull
  BY DEF EngineInv, HeardInFull, CheckedInFull, TranscribesInFull
<1> QED
  BY <1>1, Invariance, PTL
===============================================================================
