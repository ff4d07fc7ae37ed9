----------------------------- MODULE MCDisplay -----------------------------
(* Display.tla on a small machine, for TLC.                                *)
EXTENDS Display
=============================================================================
