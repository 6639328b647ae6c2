------------------------------ MODULE MCIndex ------------------------------
(* Index with keys of two first bytes, three keys to each, and two values.  *)
(* A page holds one key, and a block of keys up to four; the blocks that    *)
(* array_grow() and array_load() ask for may be had or not.                 *)
EXTENDS Index

MCItems == 0 .. 11
MCGarbage == -1
MCVals == {10, 11}
MCValSizes == {0, 2}
MCAllocCounts == {0, 4}
============================================================================
