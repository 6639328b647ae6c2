---------------------------- MODULE BsearchLoop ----------------------------
(***************************************************************************)
(* The bisection loops of lib/bsearchn.c: bsearchn_cmp(), bsearchir_cmp()  *)
(* and bisect_cmp(), one action per path through the loop body.  All three *)
(* keep a window of the array that may still hold the key.  bsearchn_cmp() *)
(* keeps it as a pointer and a length, bsearchir_cmp() as baseidx and num, *)
(* bisect_cmp() as lo and hi: here baseidx is the first item of the window *)
(* and num its length, so lo is baseidx and hi is baseidx + num.           *)
(*                                                                         *)
(* The inputs are any array, sorted or not (the callers never check), any  *)
(* range inside it, and any key.                                           *)
(***************************************************************************)
EXTENDS Integers, Bsearchn

CONSTANTS Count,  \* number of items in the array
          Items   \* the values that items and keys take

ASSUME CountAssumption == Count \in Nat
ASSUME ItemsAssumption == Items \subseteq Int

VARIABLES fn,       \* the function that is running
          array,    \* its inputs: the array,
          key,      \*   the key,
          base0,    \*   the first item of the range to search,
          num0,     \*   and the number of items in the range
          baseidx,  \* the window: its first item
          num,      \*   and its length
          pc,       \* "loop" or "done"
          ret       \* the value returned, once pc = "done"

inputs == <<fn, array, key, base0, num0>>
vars == <<fn, array, key, base0, num0, baseidx, num, pc, ret>>

Functions == {"bsearchn", "bsearchir", "bisect"}

NoItem == -1  \* bsearchn_cmp()'s NULL, and ret before the return

(* bsearchn_cmp() has no baseidx: its caller passes a pointer to the range. *)
Init ==
    /\ fn \in Functions
    /\ array \in [0 .. Count - 1 -> Items]
    /\ key \in Items
    /\ base0 \in 0 .. Count
    /\ num0 \in 0 .. Count - base0
    /\ baseidx = base0
    /\ num = num0
    /\ pc = "loop"
    /\ ret = NoItem

----------------------------------------------------------------------------
probe == Mid(baseidx, num)

(* cmp() == 0: the two searches return the item, bisect_cmp() goes on.     *)
Match ==
    /\ pc = "loop" /\ num > 0
    /\ fn # "bisect"
    /\ key = array[probe]
    /\ ret' = probe
    /\ pc' = "done"
    /\ UNCHANGED <<inputs, baseidx, num>>

(* cmp() > 0: the window becomes what is right of the midpoint.  The slip  *)
(* to guard against forgets that the midpoint itself leaves the window.    *)
GoRightKeepingMid ==
    /\ pc = "loop" /\ num > 0
    /\ key > array[probe]
    /\ baseidx' = probe + 1
    /\ num' = num \div 2
    /\ UNCHANGED <<inputs, pc, ret>>

GoRightStuck ==
    /\ pc = "loop" /\ num > 0
    /\ key > array[probe]
    /\ baseidx' = probe
    /\ num' = num - num \div 2
    /\ UNCHANGED <<inputs, pc, ret>>

GoRight ==
    /\ pc = "loop" /\ num > 0
    /\ key > array[probe]
    /\ baseidx' = probe + 1
    /\ num' = RightNum(num)
    /\ UNCHANGED <<inputs, pc, ret>>

(* cmp() < 0, and for bisect_cmp() also cmp() == 0: the window becomes     *)
(* what is left of the midpoint.  The slips lose one more item: if their   *)
(* number is even, or always.                                              *)
GoLeftBeforeMid ==
    /\ pc = "loop" /\ num > 0
    /\ key < array[probe] \/ (fn = "bisect" /\ key = array[probe])
    /\ num' = num \div 2 - 1
    /\ UNCHANGED <<inputs, baseidx, pc, ret>>

GoLeftShort ==
    /\ pc = "loop" /\ num > 0
    /\ key < array[probe] \/ (fn = "bisect" /\ key = array[probe])
    /\ num' = (num - 1) \div 2
    /\ UNCHANGED <<inputs, baseidx, pc, ret>>

GoLeft ==
    /\ pc = "loop" /\ num > 0
    /\ key < array[probe] \/ (fn = "bisect" /\ key = array[probe])
    /\ num' = LeftNum(num)
    /\ UNCHANGED <<inputs, baseidx, pc, ret>>

(* The window is empty: return NULL, ~baseidx or lo. *)
Exhausted ==
    /\ pc = "loop" /\ num = 0
    /\ ret' = CASE fn = "bsearchn"  -> NoItem
                [] fn = "bsearchir" -> Complement(baseidx)
                [] fn = "bisect"    -> baseidx
    /\ pc' = "done"
    /\ UNCHANGED <<inputs, baseidx, num>>

Next == Match \/ GoRight \/ GoLeft \/ Exhausted

Spec == Init /\ [][Next]_vars

(* The loop is sequential code: nothing can keep it from its next step. *)
FairSpec == Spec /\ WF_vars(Next)

----------------------------------------------------------------------------
(* The types of the state. *)
TypeOK ==
    /\ fn \in Functions
    /\ array \in [0 .. Count - 1 -> Items]
    /\ key \in Items
    /\ base0 \in 0 .. Count
    /\ num0 \in 0 .. Count - base0
    /\ baseidx \in Nat
    /\ num \in Nat
    /\ pc \in {"loop", "done"}
    /\ ret \in Int

(* The range that is searched, and what the header promises about it: it   *)
(* is sorted (equal items allowed).                                        *)
Range0 == base0 .. base0 + num0 - 1
SortedRange == \A i, j \in Range0 : i <= j => array[i] <= array[j]

(* The window never leaves the range the caller passed, whatever the array *)
(* holds, so that no comparison reads an item outside the range.           *)
WindowInRange ==
    /\ base0 <= baseidx
    /\ baseidx + num <= base0 + num0

(* What has been cut off the window cannot be where the search ends: all   *)
(* of it on the left is smaller than the key, all of it on the right is    *)
(* greater (for bisect_cmp(): not smaller).                                *)
CutOffSafely ==
    SortedRange =>
        /\ \A i \in base0 .. baseidx - 1 : array[i] < key
        /\ \A i \in baseidx + num .. base0 + num0 - 1 :
               IF fn = "bisect" THEN array[i] >= key ELSE array[i] > key

(* A search that returns an item returns one of the range that equals the  *)
(* key, even in an array that is not sorted.                               *)
FoundIsMatch ==
    (pc = "done" /\ fn # "bisect" /\ ret >= 0)
        => ret \in Range0 /\ array[ret] = key

(* In a sorted range a search misses the key only if it is not there, and  *)
(* the complement of bsearchir_cmp()'s result is where it would go         *)
(* (bsearchn.h:28-33): everything before is smaller, the rest is greater.  *)
NotFoundIsInsertionPoint ==
    (SortedRange /\ pc = "done" /\ fn # "bisect" /\ ret < 0) =>
        /\ \A i \in Range0 : array[i] # key
        /\ fn = "bsearchir" =>
              LET nidx == Complement(ret) IN
              /\ nidx \in base0 .. base0 + num0
              /\ \A i \in Range0 : IF i < nidx THEN array[i] < key
                                               ELSE array[i] > key

(* bisect_cmp() returns the leftmost place where the key keeps a sorted    *)
(* range sorted (bsearchn.h:45-47).                                        *)
BisectIsLeftmost ==
    (SortedRange /\ pc = "done" /\ fn = "bisect") =>
        /\ ret \in base0 .. base0 + num0
        /\ \A i \in Range0 : IF i < ret THEN array[i] < key
                                        ELSE array[i] >= key

(* All three: what the searches answer is true of the range, whichever     *)
(* items of it they looked at.                                             *)
SearchIsExact == FoundIsMatch /\ NotFoundIsInsertionPoint /\ BisectIsLeftmost

(* The operators that the other modules use compute what the loops do. *)
OperatorsAgree ==
    pc = "done" =>
        CASE fn = "bsearchir" -> ret = BsearchIr(key, array, base0, num0)
          [] fn = "bisect"    -> ret = Bisect(key, array, base0, base0 + num0)
          [] fn = "bsearchn"  ->
                ret = LET i == BsearchIr(key, array, base0, num0)
                      IN  IF i >= 0 THEN i ELSE NoItem

(* Every search returns. *)
Terminates == <>(pc = "done")
=============================================================================
