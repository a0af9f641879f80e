------------------------------ MODULE MCRealtime ------------------------------
(* A small instance of Realtime for TLC. *)
EXTENDS Realtime, TLC

CONSTANTS a, b, s, x

MCIdLen == [id \in Ids |-> 1]
MCTexts == {<<x>>}
\* The last item is silence.
MCSays == [id \in Ids |-> IF id = b THEN <<>> ELSE <<x>>]
MCDeltas == {<<x>>}
MCSpoken == <<a, b>>
===============================================================================
