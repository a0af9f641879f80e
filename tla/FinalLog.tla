------------------------------- MODULE FinalLog -------------------------------
(***************************************************************************)
(* What the result store promises about finals, whatever it does inside:   *)
(* a final is accepted once per id and once per index; while the session   *)
(* runs, the transcript is exactly the non-blank finals before the first   *)
(* missing index, in order; when it ends, it is all the indexed ones; and  *)
(* it ends well only when no index is missing and no final is without one. *)
(***************************************************************************)
EXTENDS Segments

CONSTANTS Texts, Indexes    \* the texts and the indices finals may have

VARIABLES ledger,       \* every final accepted with its index, blank ones too
          floating,     \* finals accepted without an index, [id, text]
          transcript,
          outcome

logVars == <<ledger, floating, transcript, outcome>>

LogInit == ledger = {} /\ floating = {} /\ transcript = <<>> /\ outcome = "none"

Known(id) == (\E s \in ledger : s.id = id) \/ (\E u \in floating : u.id = id)
Gapless(segments) == Below(segments, FirstGap(segments, 0))
Enter(s) ==
    /\ ~\E r \in ledger : r.index = s.index
    /\ ledger' = ledger \cup {s}
    /\ transcript' = InOrder(WithText(Gapless(ledger')))
    /\ UNCHANGED outcome

\* A final with its index.
Accept ==
    \E id \in Ids, i \in Indexes, text \in Texts :
        /\ ~Known(id)
        /\ Enter([id |-> id, index |-> i, text |-> text])
        /\ UNCHANGED floating

\* A final without an index, and its index later on.
Float ==
    \E id \in Ids, text \in Texts :
        /\ ~Known(id)
        /\ floating' = floating \cup {[id |-> id, text |-> text]}
        /\ UNCHANGED <<ledger, transcript, outcome>>

Place ==
    \E u \in floating, i \in Indexes :
        /\ Enter([id |-> u.id, index |-> i, text |-> u.text])
        /\ floating' = floating \ {u}

Close(result) ==
    /\ result = "ok" => floating = {} /\ Gapless(ledger) = ledger
    /\ outcome' = result
    /\ transcript' = InOrder(WithText(ledger))
    /\ floating' = {}
    /\ UNCHANGED ledger

LogNext ==
    /\ outcome = "none"
    /\ Accept \/ Float \/ Place \/ Close("ok") \/ Close("error")

LogSpec == LogInit /\ [][LogNext]_logVars
===============================================================================
