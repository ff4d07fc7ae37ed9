---------------------------- MODULE MCProcesses ----------------------------
(* Processes.tla on a small machine, for TLC.                              *)
EXTENDS ProcessesRefinement
=============================================================================
