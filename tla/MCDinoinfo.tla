----------------------------- MODULE MCDinoinfo -----------------------------
(* Two digits instead of 16, so that a byte has four values, and keys of    *)
(* two bytes.  Either the name table is of interest or the indexes: those   *)
(* of three keys, alone, and two in one object with a section between.      *)
EXTENDS Dinoinfo, TLC

MCBlob == [type |-> "blob"]

Index(keys, n, other) ==
    [type |-> "index", count |-> n, keys |-> keys, othersec |-> other]

Sorted(n) ==
    {f \in [0 .. n -> Keys] : \A a, b \in 0 .. n - 1 : a < b => f[a] < f[b]}

(* What the memory after the keys holds. *)
MCStrays(n) == IF n < 3 THEN {0, 9, 15} ELSE {15}

WithIndexes(secs) == [size |-> 1, table |-> [j \in 0 .. 1 |-> 0], secs |-> secs]

MCObjects ==
    UNION {{[size |-> n, table |-> t, secs |-> <<MCBlob>>] : t \in [0 .. n -> {0, 1}]} :
              n \in 0 .. OffMod - 1}
    \cup UNION {{WithIndexes(<<MCBlob, Index(f, n, 1)>>) :
                   f \in {g \in Sorted(n) : g[n] \in MCStrays(n)}} : n \in 0 .. 3}
    \cup {WithIndexes(<<Index(0 :> 5 @@ 1 :> a, 1, o), MCBlob,
                        Index(0 :> 4 @@ 1 :> 6 @@ 2 :> a, 2, 2)>>) :
             a \in {5, 9}, o \in {2, 4}}

MCKeyStrs ==
    UNION {[1 .. n -> 0 .. Hex - 1] : n \in 0 .. 2 * KeySize}
    \cup {[d \in 1 .. n |-> c] : n \in {2 * KeySize + 2, 2 * LenMod}, c \in 0 .. Hex - 1}
=============================================================================
