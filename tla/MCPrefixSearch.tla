-------------------------- MODULE MCPrefixSearch ---------------------------
(* PrefixSearch on every array of Count items over a few values.  With      *)
(* width 1 the prefix is a whole key; with width 3, prefix 1 the matching   *)
(* keys are 3 .. 5, and there are items on either side of them.             *)
EXTENDS PrefixSearch

MCItems == 2 .. 6
MCPrefixes == {0, 1, 2, 4}
MCWidths == {1, 3}
============================================================================
