------------------------------ MODULE MCMkdino ------------------------------
(* Up to two RPMs, cut off anywhere.  What mkdino takes of an RPM has       *)
(* four to seven words, and its frame two more, in an output of six,        *)
(* where most do not fit, eight or twelve, where two of the least would.    *)
EXTENDS Mkdino

MCRpms ==
    UNION {{[sig |-> s, hdr |-> h, fsize |-> f] :
              f \in 0 .. HdrEnd([sig |-> s, hdr |-> h])} : s \in 0 .. 1, h \in 0 .. 2}
MCRecOuts == {6, 12}
MCGarbage == {0, 2}
=============================================================================
