------------------------------ MODULE ResultSink ------------------------------
(***************************************************************************)
(* What a driver calls (src/src/session/driver.rs) in front of the result  *)
(* store.  A driver handles one thing at a time, and calls are the sink's  *)
(* operations it has still to make for it.  Each takes the session lock    *)
(* once, except a final: a preflight looks at the store under the lock,    *)
(* the text processor runs without it, and the store is called under it    *)
(* again.  Only the host can come in between: it settles the session.      *)
(***************************************************************************)
EXTENDS ResultStore

VARIABLES
    calls,      \* what the driver still calls, in order
    refused     \* a call came back with an error

sinkVars == <<calls, refused>>

Call(op, id, index, text) == [op |-> op, id |-> id, index |-> index, text |-> text]
SinkInit == Init /\ calls = <<>> /\ refused = FALSE

\* A call that returns: the driver goes on unless it was refused.
Returned ==
    /\ calls' = IF reply'.error = "none" THEN Tail(calls) ELSE <<>>
    /\ refused' = (reply'.error # "none")

-----------------------------------------------------------------------------
\* ResultStore::preflight_commit and preflight_unindexed
PreflightCommit(i, id) ==
    CASE completed[id] = i -> "duplicate"
      [] completed[id] = Unindexed -> "index"
      [] completed[id] \notin {i, Unindexed, Open} -> "refused"
      [] completed[id] = Open -> IF IndexReused(i) \/ PendingFull(i) THEN "refused" ELSE "process"

\* Mutant: the limit on finals without an index is left to the store.
PreflightUnlimited(id) ==
    IF completed[id] # Open THEN "duplicate" ELSE IF ~IdFits(id, FALSE) THEN "refused" ELSE "process"
PreflightUnindexed(id) ==
    IF completed[id] # Open THEN "duplicate"
    ELSE IF UnindexedFull \/ ~IdFits(id, FALSE) THEN "refused" ELSE "process"

\* process_final: a blank text stays, any other the processor may rewrite.
Processed(text) == IF Blank(text) THEN {text} ELSE Texts \cup {text}

\* ResultSink::commit and complete_unindexed, up to the call of the store
Preflight ==
    LET call == Head(calls)
        verdict == IF call.op = "commit" THEN PreflightCommit(call.index, call.id)
                                      ELSE PreflightUnindexed(call.id)
        store(text) == [call EXCEPT !.op = IF call.op = "commit" THEN "store commit" ELSE "store final",
                                 !.text = text]
    IN  /\ call.op \in {"commit", "final"} /\ outcome = "none"
        /\ \/ verdict = "duplicate" /\ calls' = Tail(calls) /\ UNCHANGED refused
           \/ verdict = "refused" /\ calls' = <<>> /\ refused' = TRUE
           \/ verdict = "index" /\ calls' = <<store(<<>>)>> \o Tail(calls) /\ UNCHANGED refused
           \/ /\ verdict = "process"
              /\ \E text \in Processed(call.text) : calls' = <<store(text)>> \o Tail(calls)
              /\ UNCHANGED refused
        /\ UNCHANGED storeVars

StoreCall ==
    LET call == Head(calls)
    IN  /\ \/ call.op = "register" /\ RegisterId(call.id)
           \/ call.op = "partial" /\ SetPartial(call.id, call.text)
           \/ call.op = "delta" /\ AppendDelta(call.id, call.text)
           \/ call.op = "index" /\ IndexUnindexed(call.index, call.id)
           \/ call.op = "store commit" /\ Commit(call.index, call.id, call.text)
           \/ call.op = "store final" /\ CompleteUnindexed(call.id, call.text)
        /\ Returned

\* Control::check fails on a settled session, and a call that passed it just
\* before does nothing.
CallTooLate ==
    /\ outcome # "none"
    /\ \/ calls' = <<>> /\ refused' = TRUE
       \/ calls' = Tail(calls) /\ UNCHANGED refused
    /\ UNCHANGED storeVars

SinkStep == calls # <<>> /\ (Preflight \/ StoreCall \/ CallTooLate)

-----------------------------------------------------------------------------
\* What the preflight promised still holds when the processed text gets to the
\* store: a text is processed for a final that the store then takes (unless it
\* has no room for it), never for a repeated one or one whose index is gone.
PreflightHolds ==
    calls # <<>> /\ outcome = "none" =>
        LET call == Head(calls)
        IN  /\ call.op = "store commit" =>
                  \/ completed[call.id] = Unindexed /\ call.text = <<>>
                  \/ completed[call.id] = Open /\ ~IndexReused(call.index) /\ ~PendingFull(call.index)
            /\ call.op = "store final" => completed[call.id] = Open /\ ~UnindexedFull /\ IdFits(call.id, FALSE)
==============================================================================
