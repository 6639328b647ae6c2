------------------------------ MODULE Channel ------------------------------
(***************************************************************************)
(* What a compressor and a decompressor promise together: the bytes that   *)
(* went in come out, in order, each once.                                  *)
(***************************************************************************)
EXTENDS SequencesExt

VARIABLES sent,      \* the bytes that went in
          received   \* the bytes that came out

Init == sent = << >> /\ received = << >>

Send ==
    /\ IsPrefix(sent, sent')
    /\ UNCHANGED received

Receive ==
    /\ IsPrefix(received, received')
    /\ IsPrefix(received', sent)
    /\ UNCHANGED sent

Next == Send \/ Receive

Spec == Init /\ [][Next]_<<sent, received>>
============================================================================
