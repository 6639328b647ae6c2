----------------------------- MODULE MCRetryIO ------------------------------
(* A file of up to three bytes, buffers that hold part of it or more, and   *)
(* an output of up to three.                                                *)
EXTENDS RetryIO

MCSizes == {1, 3}
MCGarbage == -1
============================================================================
