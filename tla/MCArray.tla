------------------------------ MODULE MCArray -------------------------------
(* Array with items of two values.  A page holds two items, so the first    *)
(* block that array_grow() asks for is the smallest, of four.  From there   *)
(* it grows by a chonk, to seven items, the most that malloc() can give; a  *)
(* block of one or two, from array_realloc(), is doubled.                   *)
EXTENDS Array

MCItems == {1, 2}
MCGarbage == -1
MCISizes == {0, 2}
============================================================================
