-------------------------- MODULE MCAdaptedStreams --------------------------
(* Up to two frames of up to three bytes, with buffers of one to three.    *)
EXTENDS AdaptedStreams

MCAlgos == {"xz", "zstd"}
MCFrameSizes == {0, 1, 3}
=============================================================================
