------------------------------ MODULE MCSession ------------------------------
(* Small instances of Session for TLC. *)
EXTENDS Session, TLC
CONSTANTS p, f, g

TwoFinishers == Permutations({f, g})
==============================================================================
