------------------------------ MODULE MCLiveView ------------------------------
(* Small instances of LiveView for TLC. *)
EXTENDS LiveView

CONSTANTS a, b, x

MCIdLen == [id \in Ids |-> 1]
MCTexts == {<<>>, <<x>>}
MCDeltas == {<<x>>}
===============================================================================
