--------------------------- MODULE MCBsearchLoop ---------------------------
(* BsearchLoop on every array of Count items over a few values. *)
EXTENDS BsearchLoop

MCItems == 0 .. 3
============================================================================
