-------------------------- MODULE MCEngineHistory --------------------------
(* The instance of MCCommandEngine for the runs that remember the project. *)
EXTENDS EngineHistory, MCCommandEngine
=============================================================================
