----------------------------- MODULE MCStreams ------------------------------
(* Streams with a header of two bytes, up to three frames of up to four,    *)
(* and buffers that hold a header and little more, or less than a frame.    *)
EXTENDS Streams

MCFrameSizes == {0, 1, 4}
MCSkips == {0}
============================================================================
