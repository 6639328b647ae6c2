---------------------------- MODULE MCDinoReader ----------------------------
(* Objects with up to two sections, of two names.  Header and fanout table  *)
(* have two bytes instead of 16 and 1024, section headers four instead of   *)
(* 16.  Two sizes less than the table should have, it has less than none.   *)
EXTENDS DinoReader

MCNames == {0, 1}
MCBlobSizes == {0, 2}
MCCounts == {0, 1}
MCSkews == {-16, -8, 0, 1}
MCGarbage64 == {0, 2, 5}
MCGarbageInt == {-3, 0, 7}
============================================================================
