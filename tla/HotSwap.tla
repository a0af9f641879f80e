------------------------------- MODULE HotSwap -------------------------------
(***************************************************************************)
(* What an engine manager promises its host: the latest request alone      *)
(* counts; it is loading until it is ready or has failed; what is ready is *)
(* the engine of that very request, and an engine stays available until a  *)
(* later one replaces it.                                                  *)
(***************************************************************************)
EXTENDS Integers

VARIABLES wanted,       \* the number of the latest request, 0 for none
          status,       \* of that request
          available,    \* the request the available engine was loaded for
          broken        \* nothing can be loaded

swapVars == <<wanted, status, available, broken>>

SwapInit ==
    /\ wanted = 0 /\ available = 0 /\ broken \in BOOLEAN
    /\ status = IF broken THEN "failed" ELSE "idle"

Ask ==
    /\ wanted' = wanted + 1
    /\ status' = IF broken THEN "failed" ELSE "loading"
    /\ UNCHANGED <<available, broken>>

Swap ==
    /\ status = "loading"
    /\ status' = "ready" /\ available' = wanted
    /\ UNCHANGED <<wanted, broken>>

Fail ==
    /\ status = "loading"
    /\ status' = "failed"
    /\ UNCHANGED <<wanted, available, broken>>

SwapSpec == SwapInit /\ [][Ask \/ Swap \/ Fail]_swapVars
===============================================================================
