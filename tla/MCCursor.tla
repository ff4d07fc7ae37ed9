----------------------------- MODULE MCCursor -----------------------------
(* Instances of Cursor for TLC. *)
EXTENDS Cursor, TLC

\* The terminals do not differ.
TerminalSymmetry == Permutations(Terminals)
=============================================================================
