------------------------------ MODULE Bsearchn ------------------------------
(***************************************************************************)
(* The searches of lib/bsearchn.c as operators, for the modules that call  *)
(* them (Array, Index).  BsearchLoop and PrefixSearch model the same code  *)
(* one loop iteration at a time, and check that both agree.                *)
(*                                                                         *)
(* An array is a function from its 0-based item numbers, and an item is    *)
(* the number its bytes spell in big-endian order: memcmp() orders items   *)
(* of one size exactly as their numbers are ordered, and the searches use  *)
(* nothing of an item but the sign that memcmp() returns.                  *)
(***************************************************************************)
EXTENDS Integers

(* The midpoint of the window of num items that starts at base. *)
Mid(base, num) == base + num \div 2

(* How many items are left of the midpoint, and how many right of it. *)
LeftNum(num) == num \div 2
RightNum(num) == (num - 1) \div 2

(* A negative result carries the insertion point: C's ~i. *)
Complement(i) == -i - 1

(* A window of items: the first, and how many they are.  The searches are  *)
(* functions of the window that is left.                                   *)
Windows == Nat \X Nat

RightOf(w) == <<Mid(w[1], w[2]) + 1, RightNum(w[2])>>
LeftOf(w) == <<w[1], LeftNum(w[2])>>

(* bsearchir_cmp(): an index that holds key, or the complement of the      *)
(* index where key would go.                                               *)
IrSearch(key, array) ==
    LET search[w \in Windows] ==
            IF w[2] = 0 THEN Complement(w[1])
            ELSE IF key = array[Mid(w[1], w[2])] THEN Mid(w[1], w[2])
            ELSE IF key > array[Mid(w[1], w[2])] THEN search[RightOf(w)]
            ELSE search[LeftOf(w)]
    IN  search

BsearchIr(key, array, baseidx, num) == IrSearch(key, array)[<<baseidx, num>>]

(* bisect_cmp(): the first index of [lo, hi] where key could be inserted.  *)
(* Its window is that of the items from lo to before hi.                   *)
BisectSearch(key, array) ==
    LET search[w \in Windows] ==
            IF w[2] = 0 THEN w[1]
            ELSE IF key > array[Mid(w[1], w[2])] THEN search[RightOf(w)]
            ELSE search[LeftOf(w)]
    IN  search

Bisect(key, array, lo, hi) ==
    BisectSearch(key, array)[<<lo, IF lo < hi THEN hi - lo ELSE 0>>]

(* bsearchpkr_cmp(): the range of indexes whose items are in lokey .. hikey *)
(* (the keys with the prefix), or [baseidx + 1, baseidx] if none is found.  *)
(* PkrSearch is the window whose midpoint matches, if there is one.         *)
Within(lokey, hikey, item) == lokey <= item /\ item <= hikey

PkrSearch(lokey, hikey, array) ==
    LET search[w \in Windows] ==
            LET item == array[Mid(w[1], w[2])]
            IN  IF w[2] = 0 \/ (Within(lokey, hikey, item) /\ lokey < hikey) THEN w
                ELSE IF lokey > item THEN search[RightOf(w)]
                ELSE search[LeftOf(w)]
    IN  search

(* The lowest and the highest index to which matching items lead from i,   *)
(* one by one, but none below b or above top.                              *)
DownFrom(lokey, hikey, array, b) ==
    LET down[i \in Nat] ==
            IF i > b /\ Within(lokey, hikey, array[i - 1]) THEN down[i - 1] ELSE i
    IN  down

UpFrom(lokey, hikey, array, top) ==
    LET up[i \in Nat] ==
            IF i < top /\ Within(lokey, hikey, array[i + 1]) THEN up[i + 1] ELSE i
    IN  up

BsearchPkr(lokey, hikey, array, baseidx, num) ==
    LET w == PkrSearch(lokey, hikey, array)[<<baseidx, num>>]
        idx == Mid(w[1], w[2])
    IN  IF w[2] = 0 THEN [lo |-> w[1] + 1, hi |-> w[1]]
        ELSE [lo |-> IF array[idx] = lokey THEN idx
                     ELSE DownFrom(lokey, hikey, array, w[1])[idx],
              hi |-> IF array[idx] = hikey THEN idx
                     ELSE UpFrom(lokey, hikey, array, idx + w[2] \div 2)[idx]]
=============================================================================
