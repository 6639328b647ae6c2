------------------------------- MODULE Reads --------------------------------
(***************************************************************************)
(* What pread_retry() and read_retry() of lib/fileio.h may return, for the *)
(* modules that read with them.  RetryIO has the loops, and checks this.   *)
(***************************************************************************)
EXTENDS Integers

Least(x, y) == IF x < y THEN x ELSE y

(* How many bytes a file of the given size has from an offset on. *)
Left(fsize, off) == IF off < fsize THEN fsize - off ELSE 0

(* All that was asked for or all that is there; -1 for an error. *)
ReadRetry(len, fsize, off) == {Least(len, Left(fsize, off)), -1}
============================================================================
