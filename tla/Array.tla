------------------------------- MODULE Array -------------------------------
(***************************************************************************)
(* One struct Array of lib/array.c and a caller that calls its functions   *)
(* in any order.  a is the array the caller's pointer points to, NoArray   *)
(* if that is NULL; call is the last call and ret what it returned.        *)
(***************************************************************************)
EXTENDS ArrayOps, Sequences

CONSTANTS ISizes,    \* the item sizes that arrays are made with
          MaxCount,  \* bound: the longest array that the caller makes
          MaxAlloc   \* bound: the largest array_realloc() that it asks for

ASSUME BoundsAssumption ==
    /\ ISizes \subseteq Nat
    /\ MaxCount \in Nat /\ MaxAlloc \in Nat

VARIABLES a, call, ret

vars == <<a, call, ret>>

Init == a = NoArray /\ call = "none" /\ ret = OK

Return(name, o) == call' = name /\ a' = o.arr /\ ret' = o.ret

Make(arr) == Return("new", Outcome(arr, IF Exists(arr) THEN OK ELSE Null))

----------------------------------------------------------------------------
(* The functions that make an array. *)
ArrayNew ==
    /\ ~Exists(a)
    /\ \E isize \in ISizes : \E arr \in New(isize) : Make(arr)

ArrayInit ==
    /\ ~Exists(a)
    /\ \E isize \in ISizes : \E arr \in InitArray(isize) : Make(arr)

ArrayWithCapacity(isize, alloc_count) ==
    /\ ~Exists(a)
    /\ \E arr \in WithCapacity(isize, alloc_count) : Make(arr)

ArrayFromBuf ==
    /\ ~Exists(a)
    /\ \E isize \in ISizes \ {0}, count \in 0 .. MaxCount :
          \E buf \in [Block(count) -> Items] :
             Make(FromBuf(isize, buf, count))

(* array_read(): array_load() into a new array. *)
ArrayRead ==
    /\ ~Exists(a)
    /\ \E isize \in ISizes, count \in 0 .. MaxCount :
          \E arr \in New(isize), file \in [Block(count) -> Items] :
             \E o \in Load(arr, file, count) : Return("load", o)

----------------------------------------------------------------------------
(* The functions that work on one. *)
ArrayLoad(count) ==
    /\ Exists(a)
    /\ \E file \in [Block(count) -> Items] :
          \E o \in Load(a, file, count) : Return("load", o)

ArrayRealloc ==
    /\ Exists(a)
    /\ \E alloc_count \in 0 .. MaxAlloc :
          \E o \in Realloc(a, alloc_count) : Return("resize", o)

ArrayGrow == Exists(a) /\ \E o \in Grow(a) : Return("resize", o)

ArrayShrink == Exists(a) /\ \E o \in Shrink(a) : Return("resize", o)

ArrayClear == Exists(a) /\ Return("clear", Outcome(Clear(a), OK))

ArrayFree == Exists(a) /\ Return("free", Outcome(Free(a), OK))

ArrayAppend(item) ==
    /\ Exists(a) /\ a.count < MaxCount
    /\ \E o \in AppendItem(a, item) : Return("append", o)

ArrayInsert(item, idx) ==
    /\ Exists(a) /\ a.count < MaxCount
    /\ \E o \in InsertItem(a, item, idx) : Return("insert", o)

ArraySet(item, idx) == Exists(a) /\ Return("set", SetItem(a, item, idx))

ArrayInsortRange(item, baseidx, num) ==
    /\ Exists(a) /\ a.count < MaxCount
    /\ \E o \in InsortRange(a, item, baseidx, num) : Return("insort", o)

ArraySort == Exists(a) /\ \E arr \in Sort(a) : Return("sort", Outcome(arr, OK))

(* Ranges that end past the last item are tried, and indexes past it. *)
Indexes == 0 .. MaxCount

Next ==
    \/ ArrayNew \/ ArrayInit \/ ArrayFromBuf \/ ArrayRead
    \/ \E isize \in ISizes, n \in 0 .. MaxAlloc : ArrayWithCapacity(isize, n)
    \/ \E count \in 0 .. MaxCount : ArrayLoad(count)
    \/ ArrayRealloc \/ ArrayGrow \/ ArrayShrink \/ ArrayClear \/ ArrayFree
    \/ \E item \in Items :
          \/ ArrayAppend(item)
          \/ \E idx \in Indexes : ArrayInsert(item, idx) \/ ArraySet(item, idx)
          \/ \E baseidx, num \in Indexes : ArrayInsortRange(item, baseidx, num)
    \/ ArraySort

Spec == Init /\ [][Next]_vars

----------------------------------------------------------------------------
(* The items, as the caller sees them. *)
Seen(arr) == [i \in 1 .. arr.count |-> Cell(arr, i - 1)]

(* The sequence of items that an array stands for. *)
Abstract ==
    INSTANCE SeqArray WITH
        exists <- Exists(a) /\ ~a.suspect,
        items <- IF a.suspect THEN << >> ELSE Seen(a)

(* The types of the state. *)
ArrayType(arr) ==
    /\ arr.isize \in Nat /\ arr.count \in Nat /\ arr.allocated \in Nat
    /\ arr.overrun \in BOOLEAN /\ arr.suspect \in BOOLEAN
    /\ DOMAIN arr.data \subseteq Nat
    /\ \A i \in DOMAIN arr.data : arr.data[i] \in Items \cup {Garbage}

TypeOK == ArrayType(a) /\ call \in Abstract!Calls \cup {"none"} /\ ret \in Int

(* No sequence of calls writes past the block, whichever of them fail: no  *)
(* call after a failed realloc() counts on the room it asked for.          *)
NoOverrun == ~a.suspect => ~a.overrun

(* What the code believes the block to be is what it is, and the items are *)
(* inside it.                                                              *)
AllocatedIsTrue ==
    ~a.suspect => DOMAIN a.data = Block(a.allocated) /\ a.count <= a.allocated

(* No item below count is memory that was never written, though blocks are *)
(* larger than the items in them and may be replaced at any call.          *)
ItemsAreWritten == ~a.suspect => Written(a, 0, a.count - 1)

(* All three: the fields, the block and the items agree.                   *)
BlockIsTrue == TypeOK /\ NoOverrun /\ AllocatedIsTrue /\ ItemsAreWritten

(* A call that reports failure leaves the items as they were, though the   *)
(* block may have moved.  (A failed array_load() may free the array.)      *)
FailureChangesNothing ==
    [][(ret' = -1 /\ Exists(a) /\ Exists(a')) => Seen(a') = Seen(a)]_vars

(* A range inside the array that is sorted is still sorted, and one longer,*)
(* after array_insort_range(), which returns where the item is: before all *)
(* the items of the range that are equal to it.                            *)
SortedFrom(arr, lo, hi) ==
    \A i, j \in lo .. hi : i < j => Cell(arr, i) <= Cell(arr, j)

InsortKeepsOrder ==
    [][\A item \in Items, baseidx, num \in Indexes :
          (/\ call' = "insort" /\ ret' # -1 /\ ~a.suspect
           /\ baseidx + num <= a.count
           /\ SortedFrom(a, baseidx, baseidx + num - 1)
           /\ ArrayInsortRange(item, baseidx, num)) =>
              /\ a'.count = a.count + 1
              /\ SortedFrom(a', baseidx, baseidx + num)
              /\ ret' \in baseidx .. baseidx + num
              /\ Cell(a', ret') = item
              /\ \A i \in baseidx .. ret' - 1 : Cell(a', i) < item]_vars

(* An Array is a sequence of items: its calls insert, replace and sort     *)
(* them as a sequence's would, or leave them alone.                        *)
IsSequence == Abstract!Spec
=============================================================================
