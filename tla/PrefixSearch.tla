---------------------------- MODULE PrefixSearch ----------------------------
(***************************************************************************)
(* bsearchpkr_cmp() of lib/bsearchn.c, one action per path through its     *)
(* loops: it bisects until the midpoint matches the prefix, then extends   *)
(* the match one item at a time, first down, then up.                      *)
(*                                                                         *)
(* An item is the number its bytes spell.  A prefix leaves the last bytes  *)
(* of a key open: width is the number of keys that share it (256 to the    *)
(* power of the bytes left open, 1 if there are none), so the matching     *)
(* keys are the width numbers from prefix * width on.                      *)
(*                                                                         *)
(* The array has Count items.  array[Count] is the memory after its last   *)
(* item, which may hold anything.  memcmp()'s result is its sign: lokey    *)
(* and hikey differ from an item without the prefix in the same byte, so   *)
(* that two results that differ differ in sign too.                        *)
(***************************************************************************)
EXTENDS Integers, Bsearchn

CONSTANTS Count,     \* number of items in the array
          Items,     \* the values that items take
          Prefixes,  \* the values that prefixes take
          Widths     \* how many keys share a prefix

ASSUME CountAssumption == Count \in Nat
ASSUME ItemsAssumption == Items \subseteq Int
ASSUME PrefixAssumption == Prefixes \subseteq Nat /\ Widths \subseteq Nat \ {0}

VARIABLES array,    \* the inputs: the array and the memory after it,
          prefix,   \*   pkey,
          width,    \*   the keys that share it,
          base0,    \*   the first item of the range to search,
          num0,     \*   and the number of items in the range
          baseidx,  \* the window: its first item
          num,      \*   and its length
          idx,      \* the matching item, then the highest item to look at
          lr, hr,   \* cmp() of lokey and hikey with the midpoint
          rv,       \* the range to return
          pc        \* "bisect", "down", "up" or "done"

inputs == <<array, prefix, width, base0, num0>>
vars == <<array, prefix, width, base0, num0, baseidx, num, idx, lr, hr, rv, pc>>

lokey == prefix * width
hikey == prefix * width + width - 1

Init ==
    /\ array \in [0 .. Count -> Items]
    /\ prefix \in Prefixes
    /\ width \in Widths
    /\ base0 \in 0 .. Count
    /\ num0 \in 0 .. Count - base0
    /\ baseidx = base0
    /\ num = num0
    /\ idx = 0
    /\ lr = 0 /\ hr = 0
    /\ rv = [lo |-> 0, hi |-> 0]
    /\ pc = "bisect"

----------------------------------------------------------------------------
Cmp(a, b) == IF a < b THEN -1 ELSE IF a = b THEN 0 ELSE 1

(* cmp(pkey, item, pkeysize) == 0 *)
HasPrefix(item) == lokey <= item /\ item <= hikey

(* One iteration of the bisection up to the test lr != hr. *)
Probe ==
    /\ pc = "bisect" /\ num > 0
    /\ idx' = Mid(baseidx, num)
    /\ lr' = Cmp(lokey, array[idx'])
    /\ hr' = Cmp(hikey, array[idx'])
    /\ UNCHANGED inputs

(* lokey <= item <= hikey: leave the loop, the match starts as this item.  *)
Break ==
    /\ Probe
    /\ lr' # hr'
    /\ rv' = [lo |-> idx', hi |-> idx']
    /\ pc' = "down"
    /\ UNCHANGED <<baseidx, num>>

(* lokey and hikey are both greater: on to what is right of the midpoint.  *)
(* The slips keep the midpoint in the window, or do not count it out.      *)
GoRightStuck ==
    /\ Probe
    /\ lr' = hr' /\ lr' > 0
    /\ baseidx' = idx'
    /\ num' = num - num \div 2
    /\ UNCHANGED <<rv, pc>>

GoRightUncounted ==
    /\ Probe
    /\ lr' = hr' /\ lr' > 0
    /\ baseidx' = idx' + 1
    /\ num' = num \div 2
    /\ UNCHANGED <<rv, pc>>

GoRight ==
    /\ Probe
    /\ lr' = hr' /\ lr' > 0
    /\ baseidx' = idx' + 1
    /\ num' = RightNum(num)
    /\ UNCHANGED <<rv, pc>>

(* Both are smaller, or both equal to the item: to the left of it. *)
GoLeft ==
    /\ Probe
    /\ lr' = hr' /\ lr' <= 0
    /\ num' = LeftNum(num)
    /\ UNCHANGED <<baseidx, rv, pc>>

(* num == 0: nothing matched. *)
NoMatch ==
    /\ pc = "bisect" /\ num = 0
    /\ rv' = [lo |-> baseidx + 1, hi |-> baseidx]
    /\ pc' = "done"
    /\ UNCHANGED <<inputs, baseidx, num, idx, lr, hr>>

(* The loop that moves rv.lo down; it does not run if lr == 0. *)
MoreBelow == lr # 0 /\ rv.lo > baseidx /\ HasPrefix(array[rv.lo - 1])

ScanDown ==
    /\ pc = "down" /\ MoreBelow
    /\ rv' = [rv EXCEPT !.lo = @ - 1]
    /\ UNCHANGED <<inputs, baseidx, num, idx, lr, hr, pc>>

(* Its end, and the "max index" of the loop that follows.  The slips put  *)
(* it at the last item of half the window, or past the window's end.       *)
EndDownShort ==
    /\ pc = "down" /\ ~MoreBelow
    /\ idx' = idx + num \div 2 - 1
    /\ pc' = "up"
    /\ UNCHANGED <<inputs, baseidx, num, lr, hr, rv>>

EndDownLong ==
    /\ pc = "down" /\ ~MoreBelow
    /\ idx' = idx + num
    /\ pc' = "up"
    /\ UNCHANGED <<inputs, baseidx, num, lr, hr, rv>>

EndDown ==
    /\ pc = "down" /\ ~MoreBelow
    /\ idx' = idx + num \div 2
    /\ pc' = "up"
    /\ UNCHANGED <<inputs, baseidx, num, lr, hr, rv>>

(* The loop that moves rv.hi up; it does not run if hr == 0. *)
MoreAbove == hr # 0 /\ rv.hi < idx /\ HasPrefix(array[rv.hi + 1])

ScanUp ==
    /\ pc = "up" /\ MoreAbove
    /\ rv' = [rv EXCEPT !.hi = @ + 1]
    /\ UNCHANGED <<inputs, baseidx, num, idx, lr, hr, pc>>

EndUp ==
    /\ pc = "up" /\ ~MoreAbove
    /\ pc' = "done"
    /\ UNCHANGED <<inputs, baseidx, num, idx, lr, hr, rv>>

Next ==
    \/ Break \/ GoRight \/ GoLeft \/ NoMatch
    \/ ScanDown \/ EndDown \/ ScanUp \/ EndUp

Spec == Init /\ [][Next]_vars

(* The function is sequential code: nothing can keep it from its next step. *)
FairSpec == Spec /\ WF_vars(Next)

----------------------------------------------------------------------------
(* The types of the state. *)
TypeOK ==
    /\ array \in [0 .. Count -> Items]
    /\ prefix \in Prefixes /\ width \in Widths
    /\ base0 \in 0 .. Count
    /\ num0 \in 0 .. Count - base0
    /\ baseidx \in Nat /\ num \in Nat /\ idx \in Nat
    /\ lr \in {-1, 0, 1} /\ hr \in {-1, 0, 1}
    /\ rv \in [lo : Nat, hi : Nat]
    /\ pc \in {"bisect", "down", "up", "done"}

Range0 == base0 .. base0 + num0 - 1
Sorted == \A i, j \in Range0 : i <= j => array[i] <= array[j]
Matching == {i \in Range0 : HasPrefix(array[i])}

(* The item after the range does not match.  It belongs to the next fanout *)
(* bucket, or is whatever follows the array.                               *)
NothingPastRange == ~HasPrefix(array[base0 + num0])

(* What the search returned, as a set: empty if idx_range_nomatch(rv). *)
Returned == rv.lo .. rv.hi

(* The item that the next iteration compares, if there is one. *)
Reads ==
    CASE pc = "bisect" /\ num > 0                     -> {Mid(baseidx, num)}
      [] pc = "down" /\ lr # 0 /\ rv.lo > baseidx     -> {rv.lo - 1}
      [] pc = "up" /\ hr # 0 /\ rv.hi < idx           -> {rv.hi + 1}
      [] OTHER                                        -> {}

(* No comparison is made below the range, or more than one item above it,  *)
(* whatever the array holds (bsearchn.c:142-188).                          *)
ReadsNearRange == TypeOK /\ Reads \subseteq base0 .. base0 + num0

(* bsearchn.h:62-64: in a sorted array, searched for a prefix shorter than *)
(* its keys, the range that is returned is the items that match, if the    *)
(* item after the range does not.  Only duplicates may be left out: of     *)
(* lokey or hikey, one of which is returned.                               *)
ExactRange ==
    (pc = "done" /\ Sorted /\ lokey < hikey /\ NothingPastRange) =>
        /\ Returned \subseteq Matching
        /\ \A i \in Matching \ Returned :
              /\ array[i] \in {lokey, hikey}
              /\ \E j \in Returned : array[j] = array[i]

(* bsearchn.h:65-66: when nothing matches, rv.hi is where matching keys    *)
(* would go: everything before is smaller than them, the rest greater.     *)
NoMatchIsInsertionPoint ==
    (pc = "done" /\ Sorted /\ Matching = {}) =>
        /\ rv.lo = rv.hi + 1
        /\ rv.hi \in base0 .. base0 + num0
        /\ \A i \in Range0 : IF i < rv.hi THEN array[i] < lokey
                                          ELSE array[i] > hikey

(* Both: the range that is returned is exact, empty or not.                *)
RangeIsExact == ExactRange /\ NoMatchIsInsertionPoint

(* Every search returns. *)
Terminates == <>(pc = "done")

(* The operator that Index uses computes what the loops do. *)
OperatorAgrees ==
    pc = "done" => rv = BsearchPkr(lokey, hikey, array, base0, num0)

=============================================================================
