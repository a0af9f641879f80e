--------------------------- MODULE Session_proofs ---------------------------
(***************************************************************************)
(* Proofs about Session: its types, the one outcome, and the promise of    *)
(* SessionPromise, for any number of host threads, any limits and any      *)
(* chunks.                                                                 *)
(***************************************************************************)
EXTENDS Session, SequenceTheorems, WellFoundedInduction, TLAPS

LEMMA InitTyped == Init => TypeOK
<1> SUFFICES ASSUME Init PROVE TypeOK
  OBVIOUS
<1>1. Capacity \in Nat /\ Deadlines \cup {NoDeadline} \subseteq Deadline
  BY SessionAssumption DEF Deadline
<1>2. outcome \in Outcome
  BY DEF Init, Outcome, NoOutcome
<1>3. push \in [Producers -> PushCall] /\ finish \in [Finishers -> FinishCall]
  BY <1>1, <1>2 DEF Init, PushCall, FinishCall, Deadline
<1>4. deadline \in Deadline /\ queue \in Seq(1..Capacity)
  BY <1>1 DEF Init
<1>5. wpc \in WorkerPc /\ waiting \subseteq Threads /\ signalling \subseteq Threads
  BY DEF Init, WorkerPc, DriverStates
<1>6. /\ accepting \in BOOLEAN /\ finishing \in BOOLEAN
      /\ misplaced \in BOOLEAN /\ polls \in BOOLEAN
  BY DEF Init
<1>7. /\ queued \in Int /\ received \in Nat /\ processed \in Nat
      /\ finals \in Nat /\ inFlight \in Nat /\ now \in Nat
  BY DEF Init
<1> QED BY <1>2, <1>3, <1>4, <1>5, <1>6, <1>7 DEF Init, TypeOK

\* Settling keeps the types.
LEMMA SettleTyped ==
  ASSUME TypeOK, NEW r \in {"ok", "cancelled", "timeout", "error"}, Settle(r)
  PROVE  /\ phase' \in {"Starting", "Running", "Finishing", "Completed", "Cancelled", "Failed"}
         /\ accepting' \in BOOLEAN /\ finishing' \in BOOLEAN
         /\ deadline' \in Deadline /\ outcome' \in Outcome
         /\ queue' \in Seq(1..Capacity) /\ queued' \in Int
         /\ received' \in Nat /\ processed' \in Nat
<1>1. CASE Settled
  BY <1>1 DEF Settle, lifecycle, input, TypeOK
<1>2. CASE ~Settled
  <2>1. SetOutcome(r)
    BY <1>2 DEF Settle
  <2>2. outcome' \in Outcome
    BY <2>1 DEF SetOutcome, TypeOK, Outcome
  <2>3. queue' \in Seq(1..Capacity)
    BY <2>1 DEF SetOutcome
  <2>4. phase' \in {"Completed", "Cancelled", "Failed"}
    BY <2>1 DEF SetOutcome
  <2>5. accepting' \in BOOLEAN /\ finishing' \in BOOLEAN
    BY <2>1 DEF SetOutcome, TypeOK
  <2>6. /\ queued' \in Int /\ deadline' \in Deadline
        /\ received' \in Nat /\ processed' \in Nat
    BY <2>1 DEF SetOutcome, TypeOK
  <2> QED BY <2>2, <2>3, <2>4, <2>5, <2>6
<1> QED BY <1>1, <1>2

LEMMA NextTyped == TypeOK /\ [Next]_vars => TypeOK'
<1> SUFFICES ASSUME TypeOK, [Next]_vars PROVE TypeOK'
  OBVIOUS
<1>0. Capacity \in Nat /\ ChunkSizes \subseteq 0..Capacity
      /\ Deadlines \cup {NoDeadline} \subseteq Deadline /\ Deadlines \subseteq Nat
  BY SessionAssumption DEF Deadline
<1>1. CASE DriverReturns
  BY <1>1 DEF TypeOK, DriverReturns, WorkerAt, AfterDriver, WorkerPc, DriverStates, Silent,
     HostUnchanged, StateUnchanged, lifecycle, input, results, calls
<1>2. CASE SinkCheck
  BY <1>2 DEF TypeOK, SinkCheck, WorkerAt, WorkerPc, Silent,
     HostUnchanged, StateUnchanged, lifecycle, input, results, calls
<1>3. CASE SinkCommit
  BY <1>3 DEF TypeOK, SinkCommit, WorkerAt, Silent, Notify, Threads,
     HostUnchanged, lifecycle, input, results, calls
<1>4. CASE WorkerStarted
  BY <1>4 DEF TypeOK, WorkerStarted, WorkerAt, WorkerPc, Notify, Threads,
     HostUnchanged, input, results, calls
<1>5. CASE WorkerCheck
  BY <1>5 DEF TypeOK, WorkerCheck, WorkerAt, WorkerPc, Silent,
     HostUnchanged, StateUnchanged, lifecycle, input, results, calls
<1>6. CASE TakeChunk
  <2>1. queue' \in Seq(1..Capacity) /\ Head(queue) \in 1..Capacity
    <3>1. queue # <<>> /\ queue' = Tail(queue) /\ queue \in Seq(1..Capacity)
      BY <1>6 DEF TypeOK, TakeChunk
    <3> QED BY <3>1, HeadTailProperties
  <2>2. inFlight' \in Nat /\ queued' \in Int
    <3>1. inFlight' = Head(queue) /\ queued' = queued - Head(queue) /\ queued \in Int
      BY <1>6 DEF TypeOK, TakeChunk
    <3> QED BY <2>1, <3>1, SessionAssumption
  <2> QED BY <2>1, <2>2, <1>6 DEF TypeOK, TakeChunk, WorkerAt, Notify, Threads, WorkerPc,
     DriverStates, HostUnchanged, lifecycle, results, calls
<1>7. CASE Wait
  BY <1>7 DEF TypeOK, Wait, WorkerAt, Silent, Threads, WorkerPc, DriverStates,
     HostUnchanged, StateUnchanged, lifecycle, input, results, calls
<1>8. CASE EndTurn
  BY <1>8 DEF TypeOK, EndTurn, WorkerAt, Silent, WorkerPc, DriverStates,
     HostUnchanged, StateUnchanged, lifecycle, input, results, calls
<1>9. CASE AccountChunk
  BY <1>9 DEF TypeOK, AccountChunk, WorkerAt, Silent, WorkerPc, DriverStates,
     HostUnchanged, lifecycle, results, calls
<1>10. CASE WorkerEnds
  <2>1. PICK r \in {"ok", "cancelled", "timeout", "error"} : Settle(r)
    BY <1>10 DEF WorkerEnds
  <2>2. wpc' \in WorkerPc
    BY <1>10 DEF WorkerEnds, WorkerAt, WorkerPc
  <2> QED BY <2>1, <2>2, <1>10, SettleTyped DEF TypeOK, WorkerEnds, Notify, Threads,
     HostUnchanged, results, calls
<1>11. ASSUME NEW p \in Producers, StartPush(p) PROVE TypeOK'
  <2>1. PICK size \in ChunkSizes, d \in Deadlines \cup {NoDeadline} :
          push' = [push EXCEPT ![p] = [pc |-> "try", size |-> size, deadline |-> d]]
    BY <1>11 DEF StartPush
  <2>2. [pc |-> "try", size |-> size, deadline |-> d] \in PushCall
    BY <1>0 DEF PushCall
  <2>3. push' \in [Producers -> PushCall]
    BY <2>1, <2>2 DEF TypeOK
  <2> QED BY <2>3, <1>11 DEF TypeOK, StartPush, Silent, PushUnchanged,
     lifecycle, input, results, worker
<1>12. ASSUME NEW p \in Producers, NEW pc \in {"idle", "try", "full"}, PushGoes(p, pc)
       PROVE  push' \in [Producers -> PushCall]
  BY <1>12 DEF TypeOK, PushGoes, PushCall
<1>13. ASSUME NEW p \in Producers, PushAnswered(p) PROVE TypeOK'
  BY <1>12, <1>13 DEF TypeOK, PushAnswered, Silent, PushUnchanged, lifecycle, input, results, worker
<1>14. ASSUME NEW p \in Producers, PushFull(p) PROVE TypeOK'
  BY <1>12, <1>14 DEF TypeOK, PushFull, Silent, PushUnchanged, lifecycle, input, results, worker
<1>15. ASSUME NEW p \in Producers, PushAccepted(p) PROVE TypeOK'
  <2>1. push[p].size \in 1..Capacity
    BY <1>0, <1>15 DEF TypeOK, PushAccepted, PushCall
  <2>2. queue' \in Seq(1..Capacity)
    BY <1>15, <2>1 DEF TypeOK, PushAccepted
  <2>3. received' \in Nat /\ queued' \in Int
    BY <1>0, <1>15, <2>1 DEF TypeOK, PushAccepted
  <2> QED BY <1>12, <1>15, <2>2, <2>3 DEF TypeOK, PushAccepted, Notify, Threads,
     PushUnchanged, lifecycle, results, worker
<1>16. ASSUME NEW p \in Producers, PushWaits(p) PROVE TypeOK'
  <2>1. waiting' \subseteq Threads
    BY <1>16 DEF PushWaits, TypeOK, Threads
  <2> QED BY <1>12, <1>16, <2>1 DEF TypeOK, PushWaits, Silent, PushUnchanged,
     lifecycle, input, results, worker
<1>17. ASSUME NEW f \in Finishers, RequestFinish(f) PROVE TypeOK'
  <2>1. PICK d \in Deadlines :
          /\ finish' = [finish EXCEPT ![f].pc = "wait", ![f].deadline = d]
          /\ IF Settled THEN UNCHANGED lifecycle
             ELSE /\ accepting' = FALSE /\ finishing' = TRUE
                  /\ deadline' = Earlier(deadline, d)
                  /\ phase' = "Finishing"
                  /\ UNCHANGED outcome
    BY <1>17 DEF RequestFinish
  <2>2. finish' \in [Finishers -> FinishCall]
    BY <1>0, <2>1 DEF TypeOK, FinishCall
  <2>3. Earlier(deadline, d) \in Deadline
    BY <1>0 DEF TypeOK, Earlier
  <2>4. TypeOK!1' /\ accepting' \in BOOLEAN /\ finishing' \in BOOLEAN
        /\ deadline' \in Deadline /\ outcome' \in Outcome
    BY <2>1, <2>3 DEF TypeOK, lifecycle
  <2> QED BY <2>2, <2>4, <1>17 DEF TypeOK, RequestFinish, Notify, Threads,
     FinishUnchanged, input, results, worker
<1>18. ASSUME NEW f \in Finishers, FinishReturns(f) PROVE TypeOK'
  <2>1. finish' \in [Finishers -> FinishCall]
    BY <1>18 DEF TypeOK, FinishReturns, FinishCall
  <2> QED BY <2>1, <1>18 DEF TypeOK, FinishReturns, Silent, FinishUnchanged,
     lifecycle, input, results, worker
<1>19. ASSUME NEW f \in Finishers, FinishTimesOut(f) PROVE TypeOK'
  BY <1>19, SettleTyped DEF TypeOK, FinishTimesOut, Notify, Threads, FinishUnchanged,
     results, worker
<1>20. ASSUME NEW f \in Finishers, FinishWaits(f) PROVE TypeOK'
  BY <1>20 DEF TypeOK, FinishWaits, Silent, Threads, FinishUnchanged,
     lifecycle, input, results, worker
<1>21. CASE Cancel
  <2>1. PICK r \in {"ok", "cancelled", "timeout", "error"} : Settle(r)
    BY <1>21 DEF Cancel
  <2> QED BY <2>1, <1>21, SettleTyped DEF TypeOK, Cancel, Notify, Threads, results, worker, calls
<1>22. ASSUME NEW t \in Threads, Signal(t) PROVE TypeOK'
  BY <1>22 DEF TypeOK, Signal, lifecycle, input, results, worker, calls
<1>23. ASSUME NEW t \in Threads, WakeUp(t) PROVE TypeOK'
  BY <1>23 DEF TypeOK, WakeUp, lifecycle, input, results, worker, calls
<1>24. CASE Tick
  BY <1>24 DEF TypeOK, Tick, lifecycle, input, results, worker, calls
<1>25. CASE UNCHANGED vars
  BY <1>25 DEF TypeOK, vars, lifecycle, input, results, worker, calls
<1> QED BY <1>1, <1>2, <1>3, <1>4, <1>5, <1>6, <1>7, <1>8, <1>9, <1>10, <1>11, <1>13,
     <1>14, <1>15, <1>16, <1>17, <1>18, <1>19, <1>20, <1>21, <1>22, <1>23, <1>24, <1>25
  DEF Next, DriverStep, WorkerStep, PushStep, FinishStep

\* Every state of a session has the types of TypeOK.
THEOREM TypeCorrect == Spec => []TypeOK
  BY InitTyped, NextTyped, PTL DEF Spec

-----------------------------------------------------------------------------
(***************************************************************************)
(* The invariant behind the promise.  A result "ok" is set by a worker at  *)
(* "completing", which got there from a turn that found the queue empty    *)
(* after a finish: what makes all frames processed at that time is that    *)
(* nobody has pushed since (Closed, Drained), that the worker holds no     *)
(* chunk (InHand), that every frame received is processed, held or queued  *)
(* (Conserved), and that an empty queue has no frames (Summed).            *)
(***************************************************************************)
AfterLastTurn == {"tail", "finish", "lastCheck", "completing"}
HoldsChunk == {"push", "account", "failing", "late", "gone"}

Closed == finishing \/ Settled => ~accepting
Conserved == ~Settled => received = processed + inFlight + queued
Drained == wpc \in AfterLastTurn /\ ~Settled => finishing /\ queue = <<>>
InHand == wpc \notin HoldsChunk => inFlight = 0

\* t[k] is the number of frames in the queue from the k-th chunk on.
SumsOf(q, n, t) ==
    /\ t \in [1..(Len(q) + 1) -> Nat]
    /\ t[1] = n /\ t[Len(q) + 1] = 0
    /\ \A k \in 1..Len(q) : t[k] = t[k + 1] + q[k]
Summed == \E t : SumsOf(queue, queued, t)

SessionInv == TypeOK /\ Closed /\ Conserved /\ Drained /\ InHand /\ Summed /\ OutcomeStands

LEMMA SumOfNothing ==
  ASSUME NEW n, \E t : SumsOf(<<>>, n, t)
  PROVE  n = 0
  BY DEF SumsOf

LEMMA NothingSums == \E t : SumsOf(<<>>, 0, t)
<1>1. SumsOf(<<>>, 0, [k \in 1..1 |-> 0])
  BY DEF SumsOf
<1> QED BY <1>1

LEMMA SumOfTail ==
  ASSUME NEW q \in Seq(Nat), q # <<>>, NEW n, \E t : SumsOf(q, n, t)
  PROVE  /\ n \in Nat /\ Head(q) \in Nat /\ Head(q) <= n
         /\ \E t : SumsOf(Tail(q), n - Head(q), t)
<1>1. PICK t : SumsOf(q, n, t)
  OBVIOUS
<1> DEFINE u == [k \in 1..Len(q) |-> t[k + 1]]
<1>2. /\ Len(q) \in Nat \ {0} /\ Len(Tail(q)) = Len(q) - 1 /\ Head(q) = q[1]
      /\ \A k \in 1..(Len(q) - 1) : Tail(q)[k] = q[k + 1]
  BY HeadTailProperties, EmptySeq
<1>3. \A k \in 1..(Len(q) + 1) : t[k] \in Nat
  BY <1>1 DEF SumsOf
<1>4. \A k \in 1..Len(q) : u[k] \in Nat /\ u[k] = t[k + 1]
  BY <1>2, <1>3
<1>5. n = t[2] + q[1] /\ t[2] \in Nat /\ q[1] \in Nat
  BY <1>1, <1>2, <1>3, ElementOfSeq DEF SumsOf
<1>6. \A k \in 1..Len(Tail(q)) : u[k] = u[k + 1] + Tail(q)[k]
  <2>1. \A k \in 1..Len(q) : t[k] = t[k + 1] + q[k]
    BY <1>1 DEF SumsOf
  <2> QED BY <2>1, <1>2, <1>4
<1>7. u[1] = n - Head(q) /\ u[Len(Tail(q)) + 1] = 0
  BY <1>1, <1>2, <1>4, <1>5 DEF SumsOf
<1>8. u \in [1..(Len(Tail(q)) + 1) -> Nat]
  BY <1>2, <1>4
<1>9. SumsOf(Tail(q), n - Head(q), u)
  BY <1>6, <1>7, <1>8 DEF SumsOf
<1> QED BY <1>2, <1>5, <1>9

LEMMA SumOfAppend ==
  ASSUME NEW q \in Seq(Nat), NEW n, \E t : SumsOf(q, n, t), NEW c \in Nat
  PROVE  n \in Nat /\ \E t : SumsOf(Append(q, c), n + c, t)
<1>1. PICK t : SumsOf(q, n, t)
  OBVIOUS
<1> DEFINE m == Len(q)
           u == [k \in 1..(m + 2) |-> IF k = m + 2 THEN 0 ELSE t[k] + c]
<1>2. /\ m \in Nat /\ Len(Append(q, c)) = m + 1
      /\ \A k \in 1..m : Append(q, c)[k] = q[k]
      /\ Append(q, c)[m + 1] = c
  BY AppendProperties, LenProperties
<1>3. /\ \A k \in 1..(m + 1) : t[k] \in Nat
      /\ t[1] = n /\ t[m + 1] = 0 /\ \A k \in 1..m : t[k] = t[k + 1] + q[k]
  BY <1>1 DEF SumsOf
<1>4. u[m + 2] = 0 /\ \A k \in 1..(m + 1) : u[k] = t[k] + c
  BY <1>2
<1> HIDE DEF m
<1>5. u \in [1..(m + 2) -> Nat]
  BY <1>2, <1>3
<1>6. \A k \in 1..(m + 1) : u[k] = u[k + 1] + Append(q, c)[k]
  <2>1. ASSUME NEW k \in 1..m PROVE u[k] = u[k + 1] + Append(q, c)[k]
    <3>1. q[k] \in Nat
      BY ElementOfSeq DEF m
    <3>2. k \in 1..(m + 1) /\ k + 1 \in 1..(m + 1)
      BY <1>2
    <3>3. u[k] = t[k] + c /\ u[k + 1] = t[k + 1] + c
      BY <3>2, <1>4
    <3>4. t[k] = t[k + 1] + q[k] /\ t[k] \in Nat /\ t[k + 1] \in Nat /\ Append(q, c)[k] = q[k]
      BY <3>2, <1>2, <1>3
    <3> HIDE DEF u
    <3> QED BY <3>1, <3>3, <3>4
  <2>2. u[m + 1] = u[m + 2] + Append(q, c)[m + 1]
    BY <1>2, <1>3, <1>4
  <2>3. (m + 1) + 1 = m + 2 /\ \A k \in 1..(m + 1) : k \in 1..m \/ k = m + 1
    BY <1>2
  <2> HIDE DEF u
  <2> QED BY <2>1, <2>2, <2>3
<1>7. SumsOf(Append(q, c), n + c, u)
  <2>1. u[1] = n + c /\ n \in Nat
    BY <1>2, <1>3, <1>4
  <2>2. (m + 1) + 1 = m + 2
    BY <1>2
  <2> HIDE DEF u
  <2> QED BY <2>1, <2>2, <1>2, <1>4, <1>5, <1>6 DEF SumsOf
<1> QED BY <1>2, <1>3, <1>7

-----------------------------------------------------------------------------
LEMMA InitPromise == Init => SessionInv
<1> SUFFICES ASSUME Init PROVE SessionInv
  OBVIOUS
<1>1. TypeOK
  BY InitTyped
<1>2. ~Settled /\ accepting /\ ~finishing
  BY DEF Init, Settled, NoOutcome
<1>3. Closed /\ OutcomeStands
  BY <1>2 DEF Closed, OutcomeStands
<1>4. Conserved /\ Drained /\ InHand
  BY DEF Init, Conserved, Drained, InHand, AfterLastTurn
<1>5. Summed
  BY NothingSums DEF Init, Summed
<1> QED BY <1>1, <1>3, <1>4, <1>5 DEF SessionInv

\* An empty queue has no frames, and no queue has less than none.
LEMMA QueuedIsNat ==
  ASSUME SessionInv
  PROVE  queued \in Nat /\ (queue = <<>> => queued = 0)
<1>1. PICK t : SumsOf(queue, queued, t)
  BY DEF SessionInv, Summed
<1>2. Len(queue) \in Nat
  BY LenProperties DEF SessionInv, TypeOK
<1>3. queued \in Nat
  BY <1>1, <1>2 DEF SumsOf
<1> QED BY <1>1, <1>3, SumOfNothing

\* What does not touch the state behind the lock keeps what is said about it.
LEMMA Untouched ==
  ASSUME SessionInv, UNCHANGED <<lifecycle, input, results>>
  PROVE  /\ Closed' /\ Summed' /\ OutcomeStands' /\ (Settled' <=> Settled)
         /\ UNCHANGED inFlight => Conserved'
         /\ UNCHANGED wpc => Drained'
         /\ UNCHANGED <<wpc, inFlight>> => InHand'
<1>1. Settled' <=> Settled
  BY DEF Settled, lifecycle
<1>2. Closed' /\ OutcomeStands'
  BY <1>1 DEF SessionInv, Closed, OutcomeStands, lifecycle, input, results
<1>3. Summed'
  BY DEF SessionInv, Summed, input
<1>4. UNCHANGED inFlight => Conserved'
  BY <1>1 DEF SessionInv, Conserved, input
<1>5. UNCHANGED wpc => Drained'
  BY <1>1 DEF SessionInv, Drained, lifecycle, input
<1>6. UNCHANGED <<wpc, inFlight>> => InHand'
  BY DEF SessionInv, InHand
<1> QED BY <1>1, <1>2, <1>3, <1>4, <1>5, <1>6

\* Settling does so, too, and makes the rest of the invariant easy: the session
\* has its outcome.
LEMMA SettleKeeps ==
  ASSUME SessionInv, NEW r \in {"ok", "cancelled", "timeout", "error"}, Settle(r),
         UNCHANGED results
  PROVE  Settled' /\ Closed' /\ Conserved' /\ Drained' /\ Summed' /\ OutcomeStands'
<1>1. CASE Settled
  <2>1. UNCHANGED <<lifecycle, input, results>>
    BY <1>1 DEF Settle
  <2>2. Settled'
    BY <2>1, <1>1, Untouched
  <2> QED BY <2>1, <2>2, Untouched DEF Conserved, Drained
<1>2. CASE ~Settled
  <2>1. SetOutcome(r)
    BY <1>2 DEF Settle
  <2>2. Settled'
    BY <2>1 DEF SetOutcome, Settled
  <2>3. ~accepting' /\ queue' = <<>> /\ queued' = 0
    BY <2>1 DEF SetOutcome
  <2>4. /\ outcome'.received = received' /\ outcome'.processed = processed'
        /\ outcome'.finals = finals'
    BY <2>1 DEF SetOutcome, results
  <2>5. Summed'
    BY <2>3, NothingSums DEF Summed
  <2> QED BY <2>2, <2>3, <2>4, <2>5 DEF Closed, Conserved, Drained, OutcomeStands
<1> QED BY <1>1, <1>2

LEMMA NextPromise == SessionInv /\ [Next]_vars => SessionInv'
<1> SUFFICES ASSUME SessionInv, [Next]_vars
             PROVE  TypeOK' /\ Closed' /\ Conserved' /\ Drained' /\ InHand' /\ Summed'
                    /\ OutcomeStands'
  BY DEF SessionInv
<1> DEFINE Rest == Closed /\ Conserved /\ Drained /\ InHand /\ Summed /\ OutcomeStands
<1>0. TypeOK /\ TypeOK' /\ queued \in Nat /\ (queue = <<>> => queued = 0)
  BY NextTyped, QueuedIsNat DEF SessionInv
\* Steps of the worker outside the lock, and its wait.
<1>1. CASE DriverReturns
  <2>1. UNCHANGED <<lifecycle, input, results, inFlight>>
    BY <1>1 DEF DriverReturns, StateUnchanged
  <2>2. Drained'
    BY <1>1, <2>1, Untouched DEF SessionInv, Drained, AfterLastTurn, DriverReturns, WorkerAt,
       AfterDriver, DriverStates, lifecycle, input
  <2>3. InHand'
    BY <1>1 DEF SessionInv, InHand, HoldsChunk, DriverReturns, WorkerAt, AfterDriver, DriverStates
  <2> QED BY <1>0, <2>1, <2>2, <2>3, Untouched
<1>2. CASE SinkCheck
  <2>1. UNCHANGED <<lifecycle, input, results, inFlight>>
    BY <1>2 DEF SinkCheck, StateUnchanged
  <2>2. wpc' \in {wpc, "failing", "late"}
    BY <1>2 DEF SinkCheck, WorkerAt
  <2>3. Drained' /\ InHand'
    BY <2>1, <2>2, Untouched DEF SessionInv, Drained, InHand, AfterLastTurn, HoldsChunk,
       lifecycle, input
  <2> QED BY <1>0, <2>1, <2>3, Untouched
<1>3. CASE SinkCommit
  <2>1. UNCHANGED <<lifecycle, input, wpc, inFlight>> /\ (Settled => UNCHANGED results)
    BY <1>3 DEF SinkCommit, WorkerAt
  <2>2. CASE Settled
    BY <1>0, <2>1, <2>2, Untouched
  <2>3. CASE ~Settled
    <3>1. ~Settled'
      BY <2>1, <2>3 DEF Settled, lifecycle
    <3>2. Closed' /\ Drained' /\ InHand' /\ Summed' /\ OutcomeStands'
      BY <2>1, <2>3, <3>1 DEF SessionInv, Closed, Drained, InHand, Summed, OutcomeStands,
         lifecycle, input
    <3>3. Conserved'
      BY <2>1, <2>3 DEF SessionInv, Conserved, input
    <3> QED BY <1>0, <3>2, <3>3
  <2> QED BY <2>2, <2>3
<1>4. CASE WorkerStarted
  <2>1. UNCHANGED <<accepting, finishing, outcome, input, results, inFlight>>
        /\ wpc = "started" /\ wpc' = "check"
    BY <1>4 DEF WorkerStarted, WorkerAt
  <2>2. Settled' <=> Settled
    BY <2>1 DEF Settled
  <2>3. Closed' /\ Drained' /\ InHand' /\ Summed' /\ OutcomeStands'
    BY <2>1, <2>2 DEF SessionInv, Closed, Drained, InHand, Summed, OutcomeStands, AfterLastTurn,
       HoldsChunk, input, results
  <2>4. Conserved'
    BY <2>1, <2>2 DEF SessionInv, Conserved, input
  <2> QED BY <1>0, <2>3, <2>4
<1>5. CASE WorkerCheck
  <2>1. UNCHANGED <<lifecycle, input, results, inFlight>>
    BY <1>5 DEF WorkerCheck, StateUnchanged
  <2>2. \/ wpc = "check" /\ wpc' = "turn"
        \/ wpc = "lastCheck" /\ wpc' = "completing"
        \/ wpc \in {"check", "lastCheck"} /\ wpc' \in {"failing", "late"}
    BY <1>5 DEF WorkerCheck, WorkerAt
  <2>3. Drained' /\ InHand'
    BY <2>1, <2>2, Untouched DEF SessionInv, Drained, InHand, AfterLastTurn, HoldsChunk,
       lifecycle, input
  <2> QED BY <1>0, <2>1, <2>3, Untouched
<1>6. CASE Wait
  <2>1. UNCHANGED <<lifecycle, input, results, inFlight>> /\ wpc = "turn" /\ wpc' \in {"poll", "check"}
    BY <1>6 DEF Wait, WorkerAt, StateUnchanged
  <2>2. Drained' /\ InHand'
    BY <2>1 DEF SessionInv, Drained, InHand, AfterLastTurn, HoldsChunk
  <2> QED BY <1>0, <2>1, <2>2, Untouched
<1>7. CASE EndTurn
  <2>1. UNCHANGED <<lifecycle, input, results, inFlight>> /\ wpc = "turn"
        /\ \/ Settled /\ wpc' = "check"
           \/ queue = <<>> /\ finishing /\ wpc' = "tail"
    BY <1>7 DEF EndTurn, WorkerAt, StateUnchanged
  <2>2. Drained' /\ InHand'
    BY <2>1 DEF SessionInv, Drained, InHand, AfterLastTurn, HoldsChunk, lifecycle, input
  <2> QED BY <1>0, <2>1, <2>2, Untouched
\* A chunk goes from the queue through the worker's hands to the driver.
<1>8. CASE TakeChunk
  <2>1. /\ ~Settled /\ queue # <<>> /\ wpc = "turn" /\ wpc' = "push"
        /\ queue' = Tail(queue) /\ queued' = queued - Head(queue) /\ inFlight' = Head(queue)
        /\ UNCHANGED <<lifecycle, results, received, processed>>
    BY <1>8 DEF TakeChunk, WorkerAt
  <2>2. queue \in Seq(Nat) /\ \E t : SumsOf(queue, queued, t)
    <3>1. queue \in Seq(1..Capacity) /\ 1..Capacity \subseteq Nat
      BY <1>0, SessionAssumption DEF TypeOK
    <3> QED BY <3>1, SeqMonotonic DEF SessionInv, Summed
  <2>3. Head(queue) \in Nat /\ Summed'
    BY <2>1, <2>2, SumOfTail DEF Summed
  <2>4. inFlight = 0
    BY <2>1 DEF SessionInv, InHand, HoldsChunk
  <2>5. Conserved'
    <3>1. received = processed + inFlight + queued
      BY <2>1 DEF SessionInv, Conserved
    <3>2. processed \in Nat
      BY <1>0 DEF TypeOK
    <3> QED BY <2>1, <2>3, <2>4, <3>1, <3>2, <1>0 DEF Conserved
  <2>6. ~Settled'
    BY <2>1 DEF Settled, lifecycle
  <2>7. Closed' /\ Drained' /\ InHand' /\ OutcomeStands'
    BY <2>1, <2>6 DEF SessionInv, Closed, Drained, InHand, OutcomeStands, AfterLastTurn,
       HoldsChunk, lifecycle
  <2> QED BY <1>0, <2>3, <2>5, <2>7
<1>9. CASE AccountChunk
  <2>1. /\ wpc = "account" /\ wpc' \in {"poll", "check"}
        /\ processed' = IF Settled THEN processed ELSE processed + inFlight
        /\ inFlight' = 0
        /\ UNCHANGED <<lifecycle, queue, queued, received, results>>
    BY <1>9 DEF AccountChunk, WorkerAt
  <2>2. Settled' <=> Settled
    BY <2>1 DEF Settled, lifecycle
  <2>3. Closed' /\ Drained' /\ InHand' /\ Summed' /\ OutcomeStands'
    BY <2>1, <2>2 DEF SessionInv, Closed, Drained, InHand, Summed, OutcomeStands, AfterLastTurn,
       lifecycle, results
  <2>4. Conserved'
    <3>1. processed \in Nat /\ inFlight \in Nat
      BY <1>0 DEF TypeOK
    <3> QED BY <2>1, <2>2, <3>1, <1>0 DEF SessionInv, Conserved
  <2> QED BY <1>0, <2>3, <2>4
<1>10. CASE WorkerEnds
  <2>1. PICK r \in {"ok", "cancelled", "timeout", "error"} : Settle(r)
    BY <1>10 DEF WorkerEnds
  <2>2. InHand' /\ UNCHANGED results
    BY <1>10 DEF WorkerEnds, WorkerAt, InHand, HoldsChunk
  <2> QED BY <1>0, <2>1, <2>2, SettleKeeps
\* The host's calls.
<1>11. ASSUME NEW p \in Producers, StartPush(p) \/ PushAnswered(p) \/ PushFull(p) \/ PushWaits(p)
       PROVE  TypeOK' /\ Rest'
  <2>1. UNCHANGED <<lifecycle, input, results, wpc, inFlight>>
    BY <1>11 DEF StartPush, PushAnswered, PushFull, PushWaits, PushUnchanged, worker
  <2> QED BY <1>0, <2>1, Untouched
<1>12. ASSUME NEW p \in Producers, PushAccepted(p) PROVE TypeOK' /\ Rest'
  <2> DEFINE c == push[p].size
  <2>1. /\ accepting /\ received' = received + c /\ queued' = queued + c
        /\ queue' = Append(queue, c)
        /\ UNCHANGED <<lifecycle, results, processed, wpc, inFlight>>
    BY <1>12 DEF PushAccepted, Refused, PushUnchanged, worker
  <2>2. ~Settled /\ ~finishing /\ ~Settled'
    BY <2>1 DEF SessionInv, Closed, Settled, lifecycle
  <2>3. c \in Nat /\ queue \in Seq(Nat) /\ \E t : SumsOf(queue, queued, t)
    <3>1. queue \in Seq(1..Capacity) /\ 1..Capacity \subseteq Nat /\ c \in Nat
      BY <1>0, SessionAssumption DEF TypeOK, PushCall
    <3> QED BY <3>1, SeqMonotonic DEF SessionInv, Summed
  <2>4. Summed'
    <3> HIDE DEF c
    <3> QED BY <2>1, <2>3, SumOfAppend DEF Summed
  <2>5. Conserved'
    <3>1. received \in Nat /\ processed \in Nat /\ inFlight \in Nat
      BY <1>0 DEF TypeOK
    <3>2. received = processed + inFlight + queued
      BY <2>2 DEF SessionInv, Conserved
    <3> HIDE DEF c
    <3> QED BY <1>0, <2>1, <2>3, <3>1, <3>2 DEF Conserved
  <2>6. Closed' /\ Drained' /\ InHand' /\ OutcomeStands'
    BY <2>1, <2>2 DEF SessionInv, Closed, Drained, InHand, OutcomeStands, lifecycle
  <2> QED BY <1>0, <2>4, <2>5, <2>6
<1>13. ASSUME NEW f \in Finishers, RequestFinish(f) PROVE TypeOK' /\ Rest'
  <2>1. UNCHANGED <<input, results, wpc, inFlight>>
    BY <1>13 DEF RequestFinish, FinishUnchanged, worker
  <2>2. CASE Settled
    <3>1. UNCHANGED lifecycle
      BY <1>13, <2>2 DEF RequestFinish
    <3> QED BY <1>0, <2>1, <3>1, Untouched
  <2>3. CASE ~Settled
    <3>1. ~accepting' /\ finishing' /\ UNCHANGED outcome
      BY <1>13, <2>3 DEF RequestFinish
    <3>2. ~Settled'
      BY <2>3, <3>1 DEF Settled
    <3>3. Closed' /\ Drained' /\ InHand' /\ Summed' /\ OutcomeStands'
      BY <2>1, <2>3, <3>1, <3>2 DEF SessionInv, Closed, Drained, InHand, Summed, OutcomeStands,
         input
    <3>4. Conserved'
      BY <2>1, <2>3 DEF SessionInv, Conserved, input
    <3> QED BY <1>0, <3>3, <3>4
  <2> QED BY <2>2, <2>3
<1>14. ASSUME NEW f \in Finishers, FinishReturns(f) \/ FinishWaits(f) PROVE TypeOK' /\ Rest'
  <2>1. UNCHANGED <<lifecycle, input, results, wpc, inFlight>>
    BY <1>14 DEF FinishReturns, FinishWaits, FinishUnchanged, worker
  <2> QED BY <1>0, <2>1, Untouched
<1>15. ASSUME NEW f \in Finishers, FinishTimesOut(f) PROVE TypeOK' /\ Rest'
  <2>1. Settle("timeout") /\ UNCHANGED <<results, wpc, inFlight>>
    BY <1>15 DEF FinishTimesOut, FinishUnchanged, worker
  <2>2. InHand'
    BY <2>1 DEF SessionInv, InHand
  <2> QED BY <1>0, <2>1, <2>2, SettleKeeps
<1>16. CASE Cancel
  <2>1. PICK r \in {"ok", "cancelled", "timeout", "error"} : Settle(r)
    BY <1>16 DEF Cancel
  <2>2. UNCHANGED <<results, wpc, inFlight>>
    BY <1>16 DEF Cancel, worker
  <2>3. InHand'
    BY <2>2 DEF SessionInv, InHand
  <2> QED BY <1>0, <2>1, <2>2, <2>3, SettleKeeps
\* Threads and time.
<1>17. ASSUME NEW t \in Threads, Signal(t) \/ WakeUp(t) PROVE TypeOK' /\ Rest'
  <2>1. UNCHANGED <<lifecycle, input, results, wpc, inFlight>>
    BY <1>17 DEF Signal, WakeUp, worker
  <2> QED BY <1>0, <2>1, Untouched
<1>18. CASE Tick \/ UNCHANGED vars
  <2>1. UNCHANGED <<lifecycle, input, results, wpc, inFlight>>
    BY <1>18 DEF Tick, vars, worker
  <2> QED BY <1>0, <2>1, Untouched
<1> QED BY <1>1, <1>2, <1>3, <1>4, <1>5, <1>6, <1>7, <1>8, <1>9, <1>10, <1>11, <1>12, <1>13,
     <1>14, <1>15, <1>16, <1>17, <1>18
  DEF Next, DriverStep, WorkerStep, PushStep, FinishStep

LEMMA InvariantHolds == Spec => []SessionInv
  BY InitPromise, NextPromise, PTL DEF Spec

\* In every reachable state of a settled session the live counters and results
\* are those its outcome reports, its input is closed and its queue empty.
THEOREM OutcomeStandsForGood == Spec => []OutcomeStands
<1>1. SessionInv => OutcomeStands
  BY DEF SessionInv
<1> QED BY <1>1, InvariantHolds, PTL

-----------------------------------------------------------------------------
(***************************************************************************)
(* A session keeps the promise of SessionPromise: every step is one of the *)
(* promise's or leaves what it speaks of alone.                            *)
(***************************************************************************)
PromiseStep == [Promise!PromiseNext]_(Promise!promiseVars)

LEMMA StutterKeeps ==
  ASSUME UNCHANGED <<lifecycle, input, results>>
  PROVE  PromiseStep
  BY DEF PromiseStep, Promise!promiseVars, lifecycle, input, results

LEMMA SettleEnds ==
  ASSUME SessionInv, NEW r \in {"ok", "cancelled", "timeout", "error"}, Settle(r),
         UNCHANGED results,
         r = "ok" /\ ~Settled => ~accepting /\ processed = received /\ ~misplaced
  PROVE  PromiseStep
<1>1. CASE Settled
  BY <1>1, StutterKeeps DEF Settle
<1>2. CASE ~Settled
  <2>1. /\ outcome'.result = r /\ accepting' = FALSE
        /\ UNCHANGED <<received, processed, finals, misplaced>>
    BY <1>2 DEF Settle, SetOutcome, results
  <2>2. Promise!End
    BY <1>2, <2>1 DEF Promise!End
  <2> QED BY <1>2, <2>2 DEF PromiseStep, Promise!PromiseNext, Settled
<1> QED BY <1>1, <1>2

LEMMA NextKeepsPromise == SessionInv /\ [Next]_vars => PromiseStep
<1> SUFFICES ASSUME SessionInv, [Next]_vars PROVE PromiseStep
  OBVIOUS
<1>0. TypeOK /\ queued \in Nat /\ (queue = <<>> => queued = 0)
  BY QueuedIsNat DEF SessionInv
<1>1. CASE DriverReturns \/ SinkCheck \/ WorkerCheck \/ Wait \/ EndTurn
  BY <1>1, StutterKeeps DEF DriverReturns, SinkCheck, WorkerCheck, Wait, EndTurn, StateUnchanged
<1>2. CASE SinkCommit
  <2>1. UNCHANGED <<lifecycle, input>>
    BY <1>2 DEF SinkCommit
  <2>2. CASE Settled
    BY <1>2, <2>1, <2>2, StutterKeeps DEF SinkCommit
  <2>3. CASE ~Settled
    <3>1. finals' = finals + 1 /\ misplaced' \in BOOLEAN
      BY <1>2, <2>3 DEF SinkCommit
    <3>2. Promise!Confirm
      BY <2>1, <3>1 DEF Promise!Confirm, lifecycle, input
    <3> QED BY <2>3, <3>2 DEF PromiseStep, Promise!PromiseNext, Settled
  <2> QED BY <2>2, <2>3
<1>3. CASE WorkerStarted
  BY <1>3 DEF WorkerStarted, PromiseStep, Promise!promiseVars, input, results
<1>4. CASE TakeChunk
  BY <1>4 DEF TakeChunk, PromiseStep, Promise!promiseVars, lifecycle, results
<1>5. CASE AccountChunk
  <2>1. UNCHANGED <<accepting, outcome, received, finals, misplaced>>
        /\ processed' = IF Settled THEN processed ELSE processed + inFlight
    BY <1>5 DEF AccountChunk, lifecycle, results
  <2>2. CASE Settled
    BY <2>1, <2>2 DEF PromiseStep, Promise!promiseVars
  <2>3. CASE ~Settled
    <3>1. received = processed + inFlight + queued
      BY <2>3 DEF SessionInv, Conserved
    <3>2. processed \in Nat /\ inFlight \in Nat
      BY <1>0 DEF TypeOK
    <3>3. processed' >= processed /\ processed' <= received
      BY <1>0, <2>1, <2>3, <3>1, <3>2
    <3>4. Promise!Process
      BY <2>1, <3>3 DEF Promise!Process
    <3> QED BY <2>3, <3>4 DEF PromiseStep, Promise!PromiseNext, Settled
  <2> QED BY <2>2, <2>3
<1>6. CASE WorkerEnds
  <2>1. UNCHANGED results
    BY <1>6 DEF WorkerEnds
  <2>2. CASE wpc = "completing"
    <3>1. Settle(IF misplaced THEN "error" ELSE "ok")
      BY <1>6, <2>2 DEF WorkerEnds, WorkerAt
    <3>2. ~Settled => finishing /\ queue = <<>> /\ inFlight = 0
      BY <2>2 DEF SessionInv, Drained, InHand, AfterLastTurn, HoldsChunk
    <3>3. ~Settled => ~accepting /\ received = processed + inFlight + queued
      BY <3>2 DEF SessionInv, Closed, Conserved
    <3>4. processed \in Nat
      BY <1>0 DEF TypeOK
    <3>5. ~Settled => processed = received
      BY <1>0, <3>2, <3>3, <3>4
    <3>6. CASE misplaced
      BY <2>1, <3>1, <3>6, SettleEnds
    <3>7. CASE ~misplaced
      BY <2>1, <3>1, <3>3, <3>5, <3>7, SettleEnds
    <3> QED BY <3>6, <3>7
  <2>3. CASE wpc # "completing"
    <3>1. Settle("error") \/ Settle("timeout")
      BY <1>6, <2>3 DEF WorkerEnds, WorkerAt
    <3> QED BY <2>1, <3>1, SettleEnds
  <2> QED BY <2>2, <2>3
<1>7. ASSUME NEW p \in Producers, StartPush(p) \/ PushAnswered(p) \/ PushFull(p) \/ PushWaits(p)
      PROVE  PromiseStep
  BY <1>7, StutterKeeps DEF StartPush, PushAnswered, PushFull, PushWaits, PushUnchanged
<1>8. ASSUME NEW p \in Producers, PushAccepted(p) PROVE PromiseStep
  <2>1. /\ accepting /\ push[p].size \in Nat /\ push[p].size > 0 /\ received \in Nat
        /\ received' = received + push[p].size
    BY <1>0, <1>8, SessionAssumption DEF PushAccepted, Refused, TypeOK, PushCall
  <2>2. UNCHANGED <<lifecycle, results, processed>>
    BY <1>8 DEF PushAccepted, PushUnchanged
  <2>3. received' > received
    BY <2>1
  <2>4. Promise!Accept
    BY <2>1, <2>2, <2>3 DEF Promise!Accept, lifecycle, results
  <2>5. ~Settled
    BY <2>1 DEF SessionInv, Closed
  <2> QED BY <2>4, <2>5 DEF PromiseStep, Promise!PromiseNext, Settled
<1>9. ASSUME NEW f \in Finishers, RequestFinish(f) PROVE PromiseStep
  <2>1. UNCHANGED <<input, results>>
    BY <1>9 DEF RequestFinish, FinishUnchanged
  <2>2. CASE Settled
    BY <1>9, <2>1, <2>2, StutterKeeps DEF RequestFinish
  <2>3. CASE ~Settled
    <3>1. accepting' = FALSE /\ UNCHANGED outcome
      BY <1>9, <2>3 DEF RequestFinish
    <3>2. Promise!Close
      BY <2>1, <3>1 DEF Promise!Close, input, results
    <3> QED BY <2>3, <3>2 DEF PromiseStep, Promise!PromiseNext, Settled
  <2> QED BY <2>2, <2>3
<1>10. ASSUME NEW f \in Finishers, FinishReturns(f) \/ FinishWaits(f) PROVE PromiseStep
  BY <1>10, StutterKeeps DEF FinishReturns, FinishWaits, FinishUnchanged
<1>11. ASSUME NEW f \in Finishers, FinishTimesOut(f) PROVE PromiseStep
  BY <1>11, SettleEnds DEF FinishTimesOut, FinishUnchanged
<1>12. CASE Cancel
  BY <1>12, SettleEnds DEF Cancel
<1>13. ASSUME NEW t \in Threads, Signal(t) \/ WakeUp(t) PROVE PromiseStep
  BY <1>13, StutterKeeps DEF Signal, WakeUp
<1>14. CASE Tick \/ UNCHANGED vars
  BY <1>14, StutterKeeps DEF Tick, vars
<1> QED BY <1>1, <1>2, <1>3, <1>4, <1>5, <1>6, <1>7, <1>8, <1>9, <1>10, <1>11, <1>12, <1>13, <1>14
  DEF Next, DriverStep, WorkerStep, PushStep, FinishStep

\* A session keeps the promise of SessionPromise: one result that stands, and a
\* good one only after a finish, with every frame processed and every final in
\* its place.
THEOREM PromiseKept == Spec => KeepsPromise
<1>1. Init => Promise!PromiseInit
  BY DEF Init, Promise!PromiseInit, NoOutcome
<1>2. SessionInv /\ [Next]_vars => [Promise!PromiseNext]_(Promise!promiseVars)
  BY NextKeepsPromise DEF PromiseStep
<1> QED BY <1>1, <1>2, InvariantHolds, PTL DEF Spec, KeepsPromise, Promise!PromiseSpec

-----------------------------------------------------------------------------
LEMMA NextSameResult == SessionInv /\ SameResult /\ [Next]_vars => SameResult'
<1> SUFFICES ASSUME SessionInv, SameResult, [Next]_vars PROVE SameResult'
  OBVIOUS
\* Only a finish that returns gets a result, and only settling changes the outcome.
<1>1. ASSUME UNCHANGED <<finish, outcome>> PROVE SameResult'
  BY <1>1 DEF SameResult, Settled
<1>2. ASSUME NEW r, Settle(r), UNCHANGED finish PROVE SameResult'
  <2>1. CASE Settled
    BY <1>1, <1>2, <2>1 DEF Settle, lifecycle
  <2>2. CASE ~Settled
    BY <1>2, <2>2 DEF SameResult
  <2> QED BY <2>1, <2>2
<1>3. CASE DriverStep \/ WorkerStarted \/ WorkerCheck \/ TakeChunk \/ Wait \/ EndTurn \/ AccountChunk
  BY <1>1, <1>3 DEF DriverStep, DriverReturns, SinkCheck, SinkCommit, WorkerStarted, WorkerCheck,
     TakeChunk, Wait, EndTurn, AccountChunk, HostUnchanged, StateUnchanged, calls, lifecycle
<1>4. CASE WorkerEnds
  BY <1>2, <1>4 DEF WorkerEnds, HostUnchanged, calls
<1>5. ASSUME NEW p \in Producers, StartPush(p) \/ PushStep(p) PROVE SameResult'
  BY <1>1, <1>5 DEF StartPush, PushStep, PushAnswered, PushFull, PushAccepted, PushWaits,
     PushUnchanged, lifecycle
<1>6. ASSUME NEW f \in Finishers, RequestFinish(f) PROVE SameResult'
  <2>1. UNCHANGED outcome
    BY <1>6 DEF RequestFinish, lifecycle
  <2>2. finish' \in [Finishers -> FinishCall] /\ finish \in [Finishers -> FinishCall]
    BY NextTyped DEF SessionInv, TypeOK
  <2>3. ASSUME NEW g \in Finishers, finish'[g].pc = "done"
        PROVE  finish[g].pc = "done" /\ finish'[g] = finish[g]
    <3>1. CASE g = f
      BY <1>6, <2>2, <2>3, <3>1 DEF RequestFinish, FinishCall
    <3>2. CASE g # f
      BY <1>6, <2>2, <2>3, <3>2 DEF RequestFinish
    <3> QED BY <3>1, <3>2
  <2> QED BY <2>1, <2>3 DEF SameResult, Settled
<1>7. ASSUME NEW f \in Finishers, FinishReturns(f) PROVE SameResult'
  <2>1. Settled /\ UNCHANGED outcome
        /\ finish' = [finish EXCEPT ![f].pc = "done", ![f].result = outcome]
    BY <1>7 DEF FinishReturns, lifecycle
  <2>2. finish \in [Finishers -> FinishCall]
    BY DEF SessionInv, TypeOK
  <2>3. ASSUME NEW g \in Finishers, finish'[g].pc = "done" PROVE finish'[g].result = outcome
    <3>1. CASE g = f
      BY <2>1, <2>2, <3>1 DEF FinishCall
    <3>2. CASE g # f
      BY <2>1, <2>2, <2>3, <3>2 DEF SameResult
    <3> QED BY <3>1, <3>2
  <2> QED BY <2>1, <2>3 DEF SameResult, Settled
<1>8. ASSUME NEW f \in Finishers, FinishTimesOut(f) PROVE SameResult'
  BY <1>2, <1>8 DEF FinishTimesOut
<1>9. ASSUME NEW f \in Finishers, FinishWaits(f) PROVE SameResult'
  BY <1>1, <1>9 DEF FinishWaits, lifecycle
<1>10. CASE Cancel
  BY <1>2, <1>10 DEF Cancel, calls
<1>11. ASSUME NEW t \in Threads, Signal(t) \/ WakeUp(t) PROVE SameResult'
  BY <1>1, <1>11 DEF Signal, WakeUp, calls, lifecycle
<1>12. CASE Tick \/ UNCHANGED vars
  BY <1>1, <1>12 DEF Tick, vars, calls, lifecycle
<1> QED BY <1>3, <1>4, <1>5, <1>6, <1>7, <1>8, <1>9, <1>10, <1>11, <1>12
  DEF Next, WorkerStep, FinishStep

\* All calls of finish get the same answer, whoever makes them and whenever.
THEOREM FinishersAgree == Spec => []SameResult
<1>1. Init => SameResult
  BY DEF Init, SameResult
<1> QED BY <1>1, NextSameResult, InvariantHolds, PTL DEF Spec

-----------------------------------------------------------------------------
(***************************************************************************)
(* The frames.  QueuedFrames is a recursive function: that it exists and   *)
(* has the value Summed says is shown by the witness the suffix sums give  *)
(* and by the smallest index at which the two could differ.                *)
(***************************************************************************)
LEMMA LeastNat ==
  ASSUME NEW T \in SUBSET Nat, T # {}
  PROVE  \E k \in T : \A j \in T : k <= j
<1> DEFINE R == OpToRel(<, Nat)
<1>1. \A i, j \in Nat : i < j => <<i, j>> \in R
  BY DEF OpToRel
<1>2. IsWellFoundedOn(R, Nat)
  BY NatLessThanWellFounded
<1> HIDE DEF R
<1>3. PICK k \in T : \A j \in T : ~(<<j, k>> \in R)
  BY <1>2, WFMin
<1>4. ASSUME NEW j \in T PROVE k <= j
  <2>1. j \in Nat /\ k \in Nat /\ ~(j < k)
    BY <1>1, <1>3
  <2> QED BY <2>1
<1> QED BY <1>3, <1>4

LEMMA QueuedIsSum ==
  ASSUME SessionInv
  PROVE  queued = QueuedFrames
<1> DEFINE m == Len(queue)
           IsSum(f) == f = [k \in 0..m |-> IF k = 0 THEN 0 ELSE f[k - 1] + queue[k]]
<1>1. PICK t : SumsOf(queue, queued, t)
  BY DEF SessionInv, Summed
<1>2. m \in Nat /\ queued \in Nat /\ \A k \in 1..m : queue[k] \in Nat
  <2>1. queue \in Seq(1..Capacity) /\ 1..Capacity \subseteq Nat
    BY SessionAssumption DEF SessionInv, TypeOK
  <2> QED BY <2>1, QueuedIsNat, LenProperties, ElementOfSeq
<1>3. /\ \A k \in 1..(m + 1) : t[k] \in Nat
      /\ t[1] = queued /\ t[m + 1] = 0 /\ \A k \in 1..m : t[k] = t[k + 1] + queue[k]
  BY <1>1 DEF SumsOf
<1> DEFINE g == [k \in 0..m |-> queued - t[k + 1]]
<1> HIDE DEF m
<1>4. \A k \in 0..m : g[k] = IF k = 0 THEN 0 ELSE g[k - 1] + queue[k]
  <2> SUFFICES ASSUME NEW k \in 0..m PROVE g[k] = IF k = 0 THEN 0 ELSE g[k - 1] + queue[k]
    OBVIOUS
  <2>1. CASE k = 0
    BY <1>2, <1>3, <2>1
  <2>2. CASE k # 0
    <3>1. k \in 1..m /\ k - 1 \in 0..m /\ k + 1 \in 1..(m + 1) /\ k \in 1..(m + 1)
      BY <1>2, <2>2
    <3>2. g[k] = queued - t[k + 1] /\ g[k - 1] = queued - t[k]
      BY <3>1
    <3>3. t[k] = t[k + 1] + queue[k] /\ t[k] \in Nat /\ t[k + 1] \in Nat /\ queue[k] \in Nat
      BY <1>2, <1>3, <3>1
    <3> HIDE DEF g
    <3> QED BY <1>2, <2>2, <3>2, <3>3
  <2> QED BY <2>1, <2>2
<1>5. IsSum(g)
  BY <1>4
<1> DEFINE f == CHOOSE h : IsSum(h)
<1>6. IsSum(f)
  <2> HIDE DEF IsSum, g
  <2> QED BY <1>5
<1>7. \A k \in 0..m : f[k] = IF k = 0 THEN 0 ELSE f[k - 1] + queue[k]
  <2> HIDE DEF f
  <2> QED BY <1>6
<1>8. QueuedFrames = f[m]
  BY DEF QueuedFrames, m
<1> HIDE DEF f, g
<1>9. ASSUME {k \in 0..m : f[k] # g[k]} # {} PROVE FALSE
  <2> DEFINE T == {j \in 0..m : f[j] # g[j]}
  <2>1. PICK k \in T : \A j \in T : k <= j
    <3>1. T \in SUBSET Nat /\ T # {}
      BY <1>2, <1>9
    <3> HIDE DEF T
    <3> QED BY <3>1, LeastNat
  <2>2. k \in 0..m /\ f[k] # g[k] /\ k # 0
    BY <1>2, <1>4, <1>7
  <2>3. k - 1 \in 0..m /\ ~(k <= k - 1)
    BY <1>2, <2>2
  <2>4. f[k - 1] = g[k - 1]
    BY <2>1, <2>3
  <2> QED BY <1>4, <1>7, <2>2, <2>4
<1>10. f[m] = g[m] /\ g[m] = queued
  <2>1. m \in 0..m
    BY <1>2
  <2>2. g[m] = queued - t[m + 1]
    BY <2>1 DEF g
  <2> QED BY <1>2, <1>3, <1>9, <2>1, <2>2
<1> QED BY <1>8, <1>10

WithinLimits ==
    /\ Settled => received >= processed
    /\ queued <= Capacity /\ Len(queue) <= MaxQueueChunks /\ received <= MaxSessionFrames

LEMMA SettleWithinLimits ==
  ASSUME SessionInv, WithinLimits, NEW r \in {"ok", "cancelled", "timeout", "error"}, Settle(r)
  PROVE  WithinLimits'
<1>1. CASE Settled
  BY <1>1 DEF Settle, WithinLimits, Settled, lifecycle, input
<1>2. CASE ~Settled
  <2>1. queue' = <<>> /\ queued' = 0 /\ UNCHANGED <<received, processed>>
    BY <1>2 DEF Settle, SetOutcome
  <2>2. Len(queue') = 0
    BY <2>1
  <2>3. received = processed + inFlight + queued
    BY <1>2 DEF SessionInv, Conserved
  <2>4. processed \in Nat /\ inFlight \in Nat /\ queued \in Nat
    BY QueuedIsNat DEF SessionInv, TypeOK
  <2> QED BY <2>1, <2>2, <2>3, <2>4, SessionAssumption DEF WithinLimits
<1> QED BY <1>1, <1>2

LEMMA NextWithinLimits == SessionInv /\ WithinLimits /\ [Next]_vars => WithinLimits'
<1> SUFFICES ASSUME SessionInv, WithinLimits, [Next]_vars PROVE WithinLimits'
  OBVIOUS
<1>0. TypeOK /\ queued \in Nat
  BY QueuedIsNat DEF SessionInv
<1>1. ASSUME UNCHANGED <<outcome, input>> PROVE WithinLimits'
  BY <1>1 DEF WithinLimits, Settled, input
<1>2. CASE DriverStep \/ WorkerStarted \/ WorkerCheck \/ Wait \/ EndTurn
  BY <1>1, <1>2 DEF DriverStep, DriverReturns, SinkCheck, SinkCommit, WorkerStarted, WorkerCheck,
     Wait, EndTurn, StateUnchanged, lifecycle
<1>3. CASE TakeChunk
  <2>1. /\ ~Settled' /\ queue # <<>> /\ queue' = Tail(queue)
        /\ queued' = queued - Head(queue) /\ UNCHANGED received
    BY <1>3 DEF TakeChunk, Settled, lifecycle
  <2>2. queue \in Seq(1..Capacity)
    BY <1>0 DEF TypeOK
  <2>3. Len(queue') = Len(queue) - 1 /\ Len(queue) \in Nat /\ Head(queue) \in Nat
    BY <2>1, <2>2, HeadTailProperties, LenProperties, SessionAssumption
  <2> QED BY <1>0, <2>1, <2>3, SessionAssumption DEF WithinLimits
<1>4. CASE AccountChunk
  <2>1. UNCHANGED <<outcome, queue, queued, received>> /\ (Settled => UNCHANGED processed)
    BY <1>4 DEF AccountChunk, lifecycle
  <2> QED BY <2>1 DEF WithinLimits, Settled
<1>5. CASE WorkerEnds \/ Cancel
  BY <1>5, SettleWithinLimits DEF WorkerEnds, Cancel
<1>6. ASSUME NEW p \in Producers, StartPush(p) \/ PushAnswered(p) \/ PushFull(p) \/ PushWaits(p)
      PROVE  WithinLimits'
  BY <1>1, <1>6 DEF StartPush, PushAnswered, PushFull, PushWaits, PushUnchanged, lifecycle
<1>7. ASSUME NEW p \in Producers, PushAccepted(p) PROVE WithinLimits'
  <2> DEFINE c == push[p].size
  <2>1. /\ accepting /\ ~(received + c > MaxSessionFrames)
        /\ ~(Len(queue) >= MaxQueueChunks) /\ ~(c > Capacity - queued)
        /\ received' = received + c /\ queued' = queued + c /\ queue' = Append(queue, c)
        /\ UNCHANGED outcome
    BY <1>7 DEF PushAccepted, Refused, QueueFull, PushUnchanged, lifecycle
  <2>2. ~Settled'
    BY <2>1 DEF SessionInv, Closed, Settled
  <2>3. queue \in Seq(1..Capacity) /\ c \in Nat /\ received \in Nat
    BY <1>0, SessionAssumption DEF TypeOK, PushCall
  <2>4. Len(queue') = Len(queue) + 1 /\ Len(queue) \in Nat
    BY <2>1, <2>3, LenProperties
  <2> HIDE DEF c
  <2> QED BY <1>0, <2>1, <2>2, <2>3, <2>4, SessionAssumption DEF WithinLimits
<1>8. ASSUME NEW f \in Finishers, RequestFinish(f) PROVE WithinLimits'
  BY <1>1, <1>8 DEF RequestFinish, lifecycle
<1>9. ASSUME NEW f \in Finishers, FinishReturns(f) \/ FinishWaits(f) PROVE WithinLimits'
  BY <1>1, <1>9 DEF FinishReturns, FinishWaits, lifecycle
<1>10. ASSUME NEW f \in Finishers, FinishTimesOut(f) PROVE WithinLimits'
  BY <1>10, SettleWithinLimits DEF FinishTimesOut
<1>11. ASSUME NEW t \in Threads, Signal(t) \/ WakeUp(t) PROVE WithinLimits'
  BY <1>1, <1>11 DEF Signal, WakeUp, lifecycle
<1>12. CASE Tick \/ UNCHANGED vars
  BY <1>1, <1>12 DEF Tick, vars, lifecycle
<1> QED BY <1>2, <1>3, <1>4, <1>5, <1>6, <1>7, <1>8, <1>9, <1>10, <1>11, <1>12
  DEF Next, WorkerStep, PushStep, FinishStep

\* No frame is lost or counted twice between the caller and the driver, and the
\* queue keeps to its limits.
THEOREM FramesAreAccounted == Spec => []FramesAccounted
<1>1. Init => WithinLimits
  BY SessionAssumption DEF Init, WithinLimits, Settled, NoOutcome
<1>2. SessionInv /\ WithinLimits => FramesAccounted
  BY QueuedIsSum DEF SessionInv, Conserved, WithinLimits, FramesAccounted
<1> QED BY <1>1, <1>2, NextWithinLimits, InvariantHolds, PTL DEF Spec

-----------------------------------------------------------------------------
(***************************************************************************)
(* No lost wakeup.  Both invariants are inductive once the types hold:     *)
(* whoever makes a condition true has a notification to send, a thread     *)
(* decides to wait under the lock it looked with, and only a notification  *)
(* that also ends every wait empties signalling.                           *)
(***************************************************************************)
\* A step that leaves somebody signalling, or ends every wait, is harmless.
LEMMA Notified ==
  ASSUME signalling' # {} \/ waiting' = {}
  PROVE  AllWoken'
  BY DEF AllWoken, WorkerIsWoken, HostIsWoken

\* What a wait depends on.
LEMMA SameWaits ==
  ASSUME AllWoken, waiting' \subseteq waiting,
         UNCHANGED <<lifecycle, input, signalling>>,
         \A p \in Producers \cap waiting' : push'[p] = push[p]
  PROVE  AllWoken'
<1>1. WorkerIsWoken'
  BY DEF AllWoken, WorkerIsWoken, Settled, lifecycle, input
<1>2. HostIsWoken'
  BY DEF AllWoken, HostIsWoken, QueueFull, Settled, lifecycle, input
<1> QED BY <1>1, <1>2 DEF AllWoken

LEMMA NextWoken == SessionInv /\ AllWoken /\ [Next]_vars => AllWoken'
<1> SUFFICES ASSUME SessionInv, AllWoken, [Next]_vars PROVE AllWoken'
  OBVIOUS
<1>0. TypeOK
  BY DEF SessionInv
<1>1. CASE DriverReturns \/ SinkCheck \/ WorkerCheck \/ EndTurn
  <2>1. UNCHANGED <<lifecycle, input, signalling, waiting, push>>
    BY <1>1 DEF DriverReturns, SinkCheck, WorkerCheck, EndTurn, StateUnchanged, HostUnchanged,
       Silent, calls
  <2> QED BY <2>1, SameWaits
<1>2. CASE SinkCommit
  <2>1. CASE Settled
    <3>1. UNCHANGED <<lifecycle, input, signalling, waiting, push>>
      BY <1>2, <2>1 DEF SinkCommit, HostUnchanged, Silent, calls
    <3> QED BY <3>1, SameWaits
  <2>2. CASE ~Settled
    BY <1>2, <2>2, Notified DEF SinkCommit, Notify
  <2> QED BY <2>1, <2>2
<1>3. CASE WorkerStarted \/ TakeChunk \/ WorkerEnds \/ Cancel
  BY <1>3, Notified DEF WorkerStarted, TakeChunk, WorkerEnds, Cancel, Notify
\* The worker waits because there is nothing to do, and its wait is no host's.
<1>4. CASE Wait
  <2>1. /\ ~Settled /\ queue = <<>> /\ ~finishing /\ waiting' = waiting \cup {Worker}
        /\ UNCHANGED <<lifecycle, input, signalling, push>>
    BY <1>4 DEF Wait, StateUnchanged, HostUnchanged, Silent, calls
  <2>2. WorkerIsWoken'
    BY <2>1 DEF WorkerIsWoken, Settled, lifecycle, input
  <2>3. HostIsWoken'
    <3>1. /\ Producers \cap waiting' = Producers \cap waiting
          /\ Finishers \cap waiting' = Finishers \cap waiting
      BY <2>1, SessionAssumption
    <3> QED BY <2>1, <3>1 DEF AllWoken, HostIsWoken, QueueFull, Settled, lifecycle, input
  <2> QED BY <2>2, <2>3 DEF AllWoken
\* A late chunk is accounted on a settled session or not at all.
<1>5. CASE AccountChunk
  <2>1. UNCHANGED <<lifecycle, queue, queued, signalling, waiting, push>>
    BY <1>5 DEF AccountChunk, HostUnchanged, Silent, calls
  <2> QED BY <2>1 DEF AllWoken, WorkerIsWoken, HostIsWoken, QueueFull, Settled, lifecycle
<1>6. ASSUME NEW p \in Producers, StartPush(p) \/ PushAnswered(p) \/ PushFull(p) PROVE AllWoken'
  <2>1. p \notin waiting /\ UNCHANGED <<lifecycle, input, signalling, waiting>>
    BY <1>6 DEF StartPush, PushAnswered, PushFull, PushGoes, Running, PushUnchanged, Silent
  <2>2. \A q \in Producers : q # p => push'[q] = push[q]
    BY <1>0, <1>6 DEF StartPush, PushAnswered, PushFull, PushGoes, TypeOK
  <2> QED BY <2>1, <2>2, SameWaits
<1>7. ASSUME NEW p \in Producers, PushAccepted(p) PROVE AllWoken'
  BY <1>7, Notified DEF PushAccepted, Notify
\* A producer that goes to wait has looked: the queue is open and full.
<1>8. ASSUME NEW p \in Producers, PushWaits(p) PROVE AllWoken'
  <2>1. /\ UNCHANGED <<lifecycle, input, signalling>>
        /\ p # Worker /\ p \notin Finishers /\ waiting' \subseteq waiting \cup {p}
        /\ p \in waiting' => accepting /\ QueueFull(push[p].size)
    BY <1>8, SessionAssumption DEF PushWaits, PushGoes, Running, PushUnchanged, Silent
  <2>2. \A q \in Producers : push'[q].size = push[q].size
    BY <1>0, <1>8 DEF PushWaits, PushGoes, TypeOK, PushCall
  <2>3. WorkerIsWoken'
    BY <2>1 DEF AllWoken, WorkerIsWoken, Settled, lifecycle, input
  <2>4. HostIsWoken'
    <3>1. ASSUME NEW q \in Producers \cap waiting', ~accepting' \/ ~QueueFull(push[q].size)'
          PROVE  signalling' # {}
      <4>1. CASE q = p
        BY <2>1, <2>2, <3>1, <4>1 DEF QueueFull, lifecycle, input
      <4>2. CASE q # p
        BY <2>1, <2>2, <3>1, <4>2 DEF AllWoken, HostIsWoken, QueueFull, lifecycle, input
      <4> QED BY <4>1, <4>2
    <3>2. \A f \in Finishers \cap waiting' : Settled' => signalling' # {}
      BY <2>1 DEF AllWoken, HostIsWoken, Settled, lifecycle
    <3> QED BY <3>1, <3>2 DEF HostIsWoken, QueueFull
  <2> QED BY <2>3, <2>4 DEF AllWoken
<1>9. ASSUME NEW f \in Finishers, RequestFinish(f) \/ FinishTimesOut(f) PROVE AllWoken'
  BY <1>9, Notified DEF RequestFinish, FinishTimesOut, Notify
<1>10. ASSUME NEW f \in Finishers, FinishReturns(f) PROVE AllWoken'
  BY <1>10, SameWaits DEF FinishReturns, FinishUnchanged, Silent
\* A finisher that goes to wait has looked: there is no outcome.
<1>11. ASSUME NEW f \in Finishers, FinishWaits(f) PROVE AllWoken'
  <2>1. /\ UNCHANGED <<lifecycle, input, signalling, push>> /\ ~Settled
        /\ f # Worker /\ f \notin Producers /\ waiting' = waiting \cup {f}
    BY <1>11, SessionAssumption DEF FinishWaits, FinishUnchanged, Silent
  <2> QED BY <2>1 DEF AllWoken, WorkerIsWoken, HostIsWoken, QueueFull, Settled, lifecycle, input
<1>12. ASSUME NEW t \in Threads, Signal(t) PROVE AllWoken'
  BY <1>12, Notified DEF Signal
<1>13. ASSUME NEW t \in Threads, WakeUp(t) PROVE AllWoken'
  <2>1. waiting' \subseteq waiting /\ UNCHANGED <<lifecycle, input, signalling, push>>
    BY <1>13 DEF WakeUp, calls
  <2> QED BY <2>1, SameWaits
<1>14. CASE Tick \/ UNCHANGED vars
  <2>1. UNCHANGED <<lifecycle, input, signalling, waiting, push>>
    BY <1>14 DEF Tick, vars, calls
  <2> QED BY <2>1, SameWaits
<1> QED BY <1>1, <1>2, <1>3, <1>4, <1>5, <1>6, <1>7, <1>8, <1>9, <1>10, <1>11, <1>12, <1>13, <1>14
  DEF Next, DriverStep, WorkerStep, PushStep, FinishStep

\* Neither the worker nor a caller of push_wait or finish sleeps through a chunk,
\* space, a finish or the end without a notification being on its way to it.
THEOREM NoWakeupIsLost == Spec => []AllWoken
<1>1. Init => AllWoken
  BY Notified DEF Init, AllWoken, WorkerIsWoken, HostIsWoken
<1> QED BY <1>1, NextWoken, InvariantHolds, PTL DEF Spec
=============================================================================
