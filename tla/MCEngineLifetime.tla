-------------------------- MODULE MCEngineLifetime --------------------------
(* Instances of EngineLifetime for TLC. *)
EXTENDS EngineLifetime

CONSTANTS app, lib
=============================================================================
