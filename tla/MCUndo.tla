------------------------------- MODULE MCUndo --------------------------------
(* The undo history on one index with two instances and two values.         *)
EXTENDS UndoHistory

CONSTANTS x, v, w
=============================================================================
