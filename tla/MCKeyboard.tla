----------------------------- MODULE MCKeyboard -----------------------------
(* Keyboard.tla with short lines, for TLC.                                 *)
EXTENDS Keyboard
=============================================================================
