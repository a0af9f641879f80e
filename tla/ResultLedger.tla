----------------------------- MODULE ResultLedger -----------------------------
(***************************************************************************)
(* ResultStore with a history variable, the finals it accepted: blank ones *)
(* leave the store without a trace.  With it, ResultStore implements       *)
(* FinalLog.                                                               *)
(***************************************************************************)
EXTENDS ResultStore

VARIABLE ledger

ledgerVars == <<storeVars, ledger>>

\* A call of index i and text t that gave id its index adds one final; its
\* text is the one the id completed with, when it had none until now.
Enters(i, id, t) ==
    ledger' =
        IF completed'[id] = completed[id] THEN ledger
        ELSE LET text == IF completed[id] = Unindexed
                         THEN (CHOOSE u \in unindexed : u.id = id).text ELSE t
             IN  ledger \cup {[id |-> id, index |-> i, text |-> text]}

LedgerInit == Init /\ ledger = {}

LedgerNext ==
    \/ /\ \/ \E id \in Ids : RegisterId(id)
          \/ \E id \in Ids, t \in Texts : SetPartial(id, t) \/ CompleteUnindexed(id, t)
          \/ \E id \in Ids, d \in Deltas : AppendDelta(id, d)
          \/ Complete
          \/ FailSession
       /\ UNCHANGED ledger
    \/ \E id \in Ids, i \in Indexes : IndexUnindexed(i, id) /\ Enters(i, id, <<>>)
    \/ \E id \in Ids, i \in Indexes, t \in Texts : Commit(i, id, t) /\ Enters(i, id, t)

LedgerSpec == LedgerInit /\ [][LedgerNext]_ledgerVars

Log == INSTANCE FinalLog WITH floating <- unindexed

\* The store keeps the promise: no final accepted is lost, altered, doubled or
\* out of order, however partials, late indices, duplicates and refusals mix,
\* and a session that ends well has them all.
ImplementsFinalLog == Log!LogSpec
=============================================================================
