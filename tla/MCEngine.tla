------------------------------- MODULE MCEngine -------------------------------
(* A small instance of Engine for TLC. *)
EXTENDS Engine
===============================================================================
