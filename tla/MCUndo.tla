------------------------------ MODULE MCUndo -------------------------------
(* The update of MCApply, applied and taken out again by bk undo.          *)
EXTENDS MCApply, Undo
============================================================================
