------------------------------ MODULE MCVarint ------------------------------
(* Digits of two bits and values of seven, which, like seven and 64 bits,   *)
(* leave one bit for the first byte of the longest varint.                  *)
EXTENDS Varint

MCMaxVal == <<3, 19, 83>>
MCStreams == [Cells -> Byte]
MCBuffers == {[c \in Cells |-> b] : b \in {0, 2 * Base - 1}}
=============================================================================
