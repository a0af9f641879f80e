---------------------------- MODULE SessionPromise ----------------------------
(***************************************************************************)
(* What a session promises its host (README, "session contract"): it takes *)
(* frames until its input is closed, processes what it took, and has one   *)
(* result, after which nothing it reports changes; a good result means the *)
(* input was closed, every frame was processed and every final was in      *)
(* order.                                                                  *)
(***************************************************************************)
EXTENDS Integers

VARIABLES open, received, processed, finals, ordered, result

promiseVars == <<open, received, processed, finals, ordered, result>>

PromiseInit ==
    /\ open = TRUE /\ received = 0 /\ processed = 0
    /\ finals = 0 /\ ordered = TRUE /\ result = "none"

Accept ==
    /\ open
    /\ received' > received
    /\ UNCHANGED <<open, processed, finals, ordered, result>>

Close == open' = FALSE /\ UNCHANGED <<received, processed, finals, ordered, result>>

Process ==
    /\ processed' >= processed /\ processed' <= received
    /\ UNCHANGED <<open, received, finals, ordered, result>>

Confirm ==
    /\ finals' = finals + 1 /\ ordered' \in BOOLEAN
    /\ UNCHANGED <<open, received, processed, result>>

End ==
    /\ result' \in {"ok", "cancelled", "timeout", "error"}
    /\ result' = "ok" => ~open /\ processed = received /\ ordered
    /\ open' = FALSE
    /\ UNCHANGED <<received, processed, finals, ordered>>

PromiseNext == result = "none" /\ (Accept \/ Close \/ Process \/ Confirm \/ End)

PromiseSpec == PromiseInit /\ [][PromiseNext]_promiseVars
===============================================================================
