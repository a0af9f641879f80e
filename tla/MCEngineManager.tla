--------------------------- MODULE MCEngineManager ---------------------------
(* Small instances of EngineManager for TLC. *)
EXTENDS EngineManager
CONSTANTS h, i
==============================================================================
