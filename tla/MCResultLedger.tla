---------------------------- MODULE MCResultLedger ----------------------------
(* A small instance of ResultLedger for TLC. *)
EXTENDS ResultLedger, TLC

CONSTANTS a, b, c, d, x, sp

\* d is longer than the others.
MCIdLen == [id \in Ids |-> IF id = d THEN 2 ELSE 1]
MCTexts == {<<>>, <<x>>, <<sp>>}
MCDeltas == {<<>>, <<x>>}
===============================================================================
