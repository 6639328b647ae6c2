----------------------------- MODULE Array_proofs ---------------------------
(***************************************************************************)
(* An Array of items of any size up to a chonk, in any order of its calls, *)
(* whichever of them fail: its block is what the code believes, a call     *)
(* that fails changes no item, array_insort() keeps a range in order, and  *)
(* the array is the sequence of items of SeqArray.                         *)
(***************************************************************************)
EXTENDS Array, ArrayOps_proofs, SequenceTheorems

(* array_grow() adds CHONKSIZE / isize items to a large block: none, if an *)
(* item is larger than a chonk.                                            *)
SmallItems == \A isize \in ISizes : isize <= ChonkSize

Inv == Honest(a) /\ call \in Abstract!Calls \cup {"none"} /\ ret \in Int

(* The invariant holds before there is an array. *)
LEMMA InvInit ==
    ASSUME Init
    PROVE  Inv
  BY NoArrayHonest DEF Init, Inv, OK

(* What a call returns. *)
LEMMA ReturnInv ==
    ASSUME NEW name \in Abstract!Calls, NEW o, Honest(o.arr), o.ret \in Int, Return(name, o)
    PROVE  Inv'
  BY DEF Return, Inv

(* The functions that make an array establish the invariant. *)
LEMMA MakeInv ==
    ASSUME NEW arr, Honest(arr), Make(arr)
    PROVE  Inv'
  <1> DEFINE r == IF Exists(arr) THEN OK ELSE Null
  <1>1. Outcome(arr, r).arr = arr /\ Outcome(arr, r).ret = r /\ r \in Int
    BY DEF Outcome, OK, Null
  <1> QED
    BY <1>1, ReturnInv DEF Make, Abstract!Calls

(* Every call keeps the invariant, if no item is larger than a chonk. *)
LEMMA InvNext ==
    ASSUME SmallItems, Inv, [Next]_vars
    PROVE  Inv'
  <1> USE BoundsAssumption
  <1>1. Honest(a) /\ SmallItems
    BY DEF Inv
  <1>2. ASSUME NEW n \in Indexes PROVE n \in Nat
    BY DEF Indexes
  <1>3. CASE ArrayNew
    <2>1. PICK isize \in ISizes : \E arr \in New(isize) : Make(arr)
      BY <1>3 DEF ArrayNew
    <2> QED
      BY <1>1, <2>1, NewHonest, MakeInv DEF SmallItems
  <1>4. CASE ArrayInit
    <2>1. PICK isize \in ISizes : \E arr \in InitArray(isize) : Make(arr)
      BY <1>4 DEF ArrayInit
    <2> QED
      BY <1>1, <2>1, InitHonest, MakeInv DEF SmallItems
  <1>5. CASE ArrayFromBuf
    <2>1. PICK isize \in ISizes \ {0}, count \in 0 .. MaxCount :
             \E buf \in [Block(count) -> Items] : Make(FromBuf(isize, buf, count))
      BY <1>5 DEF ArrayFromBuf
    <2>2. isize \in Nat /\ isize <= ChonkSize /\ count \in Nat
      BY <1>1 DEF SmallItems
    <2> QED
      BY <2>1, <2>2, FromBufHonest, MakeInv
  <1>6. CASE ArrayRead
    <2>1. PICK isize \in ISizes, count \in 0 .. MaxCount :
             \E arr \in New(isize), file \in [Block(count) -> Items] :
                \E o \in Load(arr, file, count) : Return("load", o)
      BY <1>6 DEF ArrayRead
    <2>2. isize \in Nat /\ isize <= ChonkSize /\ count \in Nat
      BY <1>1 DEF SmallItems
    <2> QED
      BY <2>1, <2>2, NewHonest, LoadFine, ReturnInv DEF Fine, Abstract!Calls
  <1>7. ASSUME NEW isize \in ISizes, NEW n \in 0 .. MaxAlloc, ArrayWithCapacity(isize, n)
        PROVE  Inv'
    <2>1. isize \in Nat /\ isize <= ChonkSize /\ n \in Nat
      BY <1>1 DEF SmallItems
    <2> QED
      BY <1>7, <2>1, CapacityHonest, MakeInv DEF ArrayWithCapacity
  <1>8. ASSUME NEW count \in 0 .. MaxCount, ArrayLoad(count)
        PROVE  Inv'
    <2>1. PICK file \in [Block(count) -> Items] : \E o \in Load(a, file, count) : Return("load", o)
      BY <1>8 DEF ArrayLoad
    <2>2. count \in Nat
      OBVIOUS
    <2> QED
      BY <1>1, <2>1, <2>2, LoadFine, ReturnInv DEF Fine, Abstract!Calls
  <1>9. CASE ArrayRealloc
    <2>1. PICK n \in 0 .. MaxAlloc : \E o \in Realloc(a, n) : Return("resize", o)
      BY <1>9 DEF ArrayRealloc
    <2>2. n \in Nat
      OBVIOUS
    <2> QED
      BY <1>1, <2>1, <2>2, ReallocHonest, ReturnInv DEF Abstract!Calls
  <1>10. CASE ArrayGrow
    BY <1>1, <1>10, GrowHonest, ReturnInv DEF ArrayGrow, Abstract!Calls
  <1>11. CASE ArrayShrink
    <2>1. a.count \in Nat
      BY <1>1 DEF Honest, Arrays
    <2> QED
      BY <1>1, <1>11, <2>1, ReallocHonest, ReturnInv DEF ArrayShrink, Shrink, Abstract!Calls
  <1>12. CASE ArrayClear
    <2>1. Outcome(Clear(a), OK).arr = Clear(a) /\ Outcome(Clear(a), OK).ret \in Int
      BY DEF Outcome, OK
    <2> QED
      BY <1>1, <1>12, <2>1, ClearHonest, ReturnInv DEF ArrayClear, Abstract!Calls
  <1>13. CASE ArrayFree
    <2>1. Outcome(Free(a), OK).arr = NoArray /\ Outcome(Free(a), OK).ret \in Int
      BY DEF Outcome, OK, Free
    <2> QED
      BY <1>13, <2>1, NoArrayHonest, ReturnInv DEF ArrayFree, Abstract!Calls
  <1>14. ASSUME NEW item \in Items, ArrayAppend(item)
         PROVE  Inv'
    BY <1>1, <1>14, AppendFine, ReturnInv DEF ArrayAppend, Fine, Abstract!Calls
  <1>15. ASSUME NEW item \in Items, NEW idx \in Indexes, ArrayInsert(item, idx)
         PROVE  Inv'
    BY <1>1, <1>2, <1>15, InsertFine, ReturnInv DEF ArrayInsert, Fine, Abstract!Calls
  <1>16. ASSUME NEW item \in Items, NEW idx \in Indexes, ArraySet(item, idx)
         PROVE  Inv'
    BY <1>1, <1>2, <1>16, SetFine, ReturnInv DEF ArraySet, Fine, Abstract!Calls
  <1>17. ASSUME NEW item \in Items, NEW baseidx \in Indexes, NEW num \in Indexes,
                ArrayInsortRange(item, baseidx, num)
         PROVE  Inv'
    BY <1>1, <1>2, <1>17, InsortFine, ReturnInv DEF ArrayInsortRange, Fine, Abstract!Calls
  <1>18. CASE ArraySort
    <2>1. PICK arr \in Sort(a) : Return("sort", Outcome(arr, OK))
      BY <1>18 DEF ArraySort
    <2>2. Outcome(arr, OK).arr = arr /\ Outcome(arr, OK).ret \in Int
      BY DEF Outcome, OK
    <2> QED
      BY <1>1, <2>1, <2>2, SortHonest, ReturnInv DEF Abstract!Calls
  <1>19. CASE UNCHANGED vars
    BY <1>19 DEF Inv, vars
  <1> QED
    BY <1>3, <1>4, <1>5, <1>6, <1>7, <1>8, <1>9, <1>10, <1>11, <1>12, <1>13, <1>14, <1>15,
       <1>16, <1>17, <1>18, <1>19 DEF Next

(* The invariant holds in every state. *)
LEMMA InvHolds ==
    ASSUME SmallItems
    PROVE  Spec => []Inv
  <1>1. Init => Inv
    BY InvInit
  <1>2. Inv /\ [Next]_vars => Inv'
    BY InvNext
  <1> QED
    BY <1>1, <1>2, PTL DEF Spec

(* For items of any size up to a chonk, whatever calls are made and fail:  *)
(* the block is as large as the code believes, the items are inside it and *)
(* written, and no write went past it.                                     *)
THEOREM BlockStaysTrue ==
    ASSUME SmallItems
    PROVE  Spec => []BlockIsTrue
  <1>1. ASSUME Inv PROVE BlockIsTrue
    <2>1. a \in Arrays /\ (~a.suspect => Holds(a)) /\ a.data \in Blocks
      BY <1>1 DEF Inv, Honest, Arrays
    <2>2. PICK n \in Nat : a.data \in [Block(n) -> Items \cup {Garbage}]
      BY <2>1 DEF Blocks
    <2>3. DOMAIN a.data \subseteq Nat /\ \A i \in DOMAIN a.data : a.data[i] \in Items \cup {Garbage}
      BY <2>2 DEF Block
    <2>4. TypeOK
      BY <1>1, <2>1, <2>3 DEF TypeOK, ArrayType, Inv, Arrays
    <2>5. NoOverrun /\ AllocatedIsTrue /\ ItemsAreWritten
      BY <2>1 DEF NoOverrun, AllocatedIsTrue, ItemsAreWritten, Holds
    <2> QED
      BY <2>4, <2>5 DEF BlockIsTrue
  <1>2. Inv => BlockIsTrue
    BY <1>1
  <1> QED
    BY <1>2, InvHolds, PTL

----------------------------------------------------------------------------
(* What a caller sees of an array is its items and nothing else. *)
LEMMA SameSeen ==
    ASSUME NEW arr, NEW b, SameItemsIn(arr, b), arr.count \in Nat
    PROVE  Seen(b) = Seen(arr)
  <1>1. \A i \in 1 .. arr.count : i - 1 \in Block(arr.count)
    BY DEF Block
  <1>2. \A i \in 1 .. arr.count : Cell(b, i - 1) = Cell(arr, i - 1)
    BY <1>1 DEF SameItemsIn
  <1> QED
    BY <1>2 DEF Seen, SameItemsIn

KeepsItems == (ret' = -1 /\ Exists(a) /\ Exists(a')) => Seen(a') = Seen(a)

(* A call that inserts an item or none changes no item if it fails. *)
LEMMA FineKeeps ==
    ASSUME Inv, NEW name, NEW o, Fine(a, o), Return(name, o)
    PROVE  KeepsItems
  <1>1. a.count \in Nat
    BY DEF Inv, Honest, Arrays
  <1>2. a' = o.arr /\ ret' = o.ret
    BY DEF Return
  <1>3. ASSUME ret' = -1, Exists(a') PROVE Seen(a') = Seen(a)
    <2>1. SameItemsIn(a, a')
      BY <1>2, <1>3 DEF Fine
    <2> QED
      BY <1>1, <2>1, SameSeen
  <1> QED
    BY <1>3 DEF KeepsItems

(* No call that fails changes an item. *)
LEMMA NextKeeps ==
    ASSUME SmallItems, Inv, [Next]_vars
    PROVE  KeepsItems
  <1> USE BoundsAssumption
  <1>1. Honest(a) /\ a.count \in Nat
    BY DEF Inv, Honest, Arrays
  <1>2. ASSUME NEW n \in Indexes PROVE n \in Nat
    BY DEF Indexes
  <1>3. CASE ArrayNew \/ ArrayInit \/ ArrayFromBuf \/ ArrayRead
    BY <1>3 DEF ArrayNew, ArrayInit, ArrayFromBuf, ArrayRead, KeepsItems
  <1>4. ASSUME NEW isize \in ISizes, NEW n \in 0 .. MaxAlloc, ArrayWithCapacity(isize, n)
        PROVE  KeepsItems
    BY <1>4 DEF ArrayWithCapacity, KeepsItems
  <1>5. ASSUME NEW count \in 0 .. MaxCount, ArrayLoad(count)
        PROVE  KeepsItems
    <2>1. PICK file \in [Block(count) -> Items] : \E o \in Load(a, file, count) : Return("load", o)
      BY <1>5 DEF ArrayLoad
    <2>2. PICK o \in Load(a, file, count) : Return("load", o)
      BY <2>1
    <2>3. Fine(a, o)
      BY <1>1, LoadFine
    <2> QED
      BY <2>2, <2>3, FineKeeps
  <1>6. ASSUME NEW n \in Nat, NEW o \in Realloc(a, n), Return("resize", o)
        PROVE  KeepsItems
    <2>1. Fine(a, o)
      BY <1>1, ReallocHonest DEF Fine
    <2> QED
      BY <1>6, <2>1, FineKeeps
  <1>7. CASE ArrayRealloc
    <2>1. PICK n \in 0 .. MaxAlloc : \E o \in Realloc(a, n) : Return("resize", o)
      BY <1>7 DEF ArrayRealloc
    <2> QED
      BY <1>6, <2>1
  <1>8. CASE ArrayGrow
    <2>1. PICK o \in Grow(a) : Return("resize", o)
      BY <1>8 DEF ArrayGrow
    <2>2. Fine(a, o)
      BY <1>1, GrowHonest DEF Fine
    <2> QED
      BY <2>1, <2>2, FineKeeps
  <1>9. CASE ArrayShrink
    BY <1>1, <1>6, <1>9 DEF ArrayShrink, Shrink
  <1>10. CASE ArrayClear \/ ArrayFree \/ ArraySort
    <2>1. ret' = 0
      BY <1>10 DEF ArrayClear, ArrayFree, ArraySort, Return, Outcome, OK
    <2> QED
      BY <2>1 DEF KeepsItems
  <1>11. ASSUME NEW item \in Items, ArrayAppend(item)
         PROVE  KeepsItems
    <2>1. PICK o \in AppendItem(a, item) : Return("append", o)
      BY <1>11 DEF ArrayAppend
    <2>2. Fine(a, o)
      BY <1>1, AppendFine
    <2> QED
      BY <2>1, <2>2, FineKeeps
  <1>12. ASSUME NEW item \in Items, NEW idx \in Indexes, ArrayInsert(item, idx)
         PROVE  KeepsItems
    <2>1. PICK o \in InsertItem(a, item, idx) : Return("insert", o)
      BY <1>12 DEF ArrayInsert
    <2>2. Fine(a, o)
      BY <1>1, <1>2, InsertFine
    <2> QED
      BY <2>1, <2>2, FineKeeps
  <1>13. ASSUME NEW item \in Items, NEW idx \in Indexes, ArraySet(item, idx)
         PROVE  KeepsItems
    <2>1. Return("set", SetItem(a, item, idx)) /\ Fine(a, SetItem(a, item, idx))
      BY <1>1, <1>2, <1>13, SetFine DEF ArraySet
    <2> QED
      BY <2>1, FineKeeps
  <1>14. ASSUME NEW item \in Items, NEW baseidx \in Indexes, NEW num \in Indexes,
                ArrayInsortRange(item, baseidx, num)
         PROVE  KeepsItems
    <2>1. PICK o \in InsortRange(a, item, baseidx, num) : Return("insort", o)
      BY <1>14 DEF ArrayInsortRange
    <2>2. Fine(a, o)
      BY <1>1, <1>2, InsortFine
    <2> QED
      BY <2>1, <2>2, FineKeeps
  <1>15. CASE UNCHANGED vars
    BY <1>15 DEF KeepsItems, vars
  <1> QED
    BY <1>3, <1>4, <1>5, <1>7, <1>8, <1>9, <1>10, <1>11, <1>12, <1>13, <1>14, <1>15 DEF Next

(* No call that reports failure changes an item, though it may have moved  *)
(* the block: for items of any size up to a chonk and arrays of any length.*)
THEOREM FailureKeepsItems ==
    ASSUME SmallItems
    PROVE  Spec => FailureChangesNothing
  <1>1. Inv /\ [Next]_vars => KeepsItems
    BY NextKeeps
  <1> QED
    BY <1>1, InvHolds, PTL DEF Spec, FailureChangesNothing, KeepsItems

----------------------------------------------------------------------------
(* Where array_insort_range() inserts into a sorted range of an array that *)
(* is what it says: left of all the items that are equal or greater.       *)
LEMMA InsortPlace ==
    ASSUME NEW arr, Honest(arr), ~arr.suspect, NEW item \in Items,
           NEW baseidx \in Nat, NEW num \in Nat, baseidx + num <= arr.count,
           SortedFrom(arr, baseidx, baseidx + num - 1),
           NEW idx \in InsortPlaces(arr, item, baseidx, num)
    PROVE  /\ idx \in baseidx .. baseidx + num
           /\ \A i \in baseidx .. baseidx + num - 1 :
                 /\ Cell(arr, i) \in Int
                 /\ i < idx => Cell(arr, i) < item
                 /\ i >= idx => Cell(arr, i) >= item
  <1>1. /\ Holds(arr) /\ arr.count \in Nat /\ arr.allocated \in Nat
        /\ arr.count <= arr.allocated
    BY DEF Honest, Holds, Arrays
  <1>2. ASSUME NEW i \in baseidx .. baseidx + num - 1
        PROVE  Cell(arr, i) \in Items /\ Cell(arr, i) \in Int /\ arr.data[i] = Cell(arr, i)
    <2>1. i \in 0 .. arr.count - 1 /\ i \in Block(arr.allocated)
      BY <1>1 DEF Block
    <2> QED
      BY <1>1, <2>1, ItemsAssumption DEF Holds, Written, Cell
  <1>3. idx \in baseidx .. baseidx + num
    BY PlacesInRange
  <1>4. CASE num = 0
    BY <1>3, <1>4
  <1>5. CASE num # 0
    <2> DEFINE w == <<baseidx, num>>
    <2>1. Written(arr, baseidx, baseidx + num - 1)
      BY <1>2 DEF Written
    <2>2. /\ w \in Windows /\ InWindow(w) = baseidx .. baseidx + num - 1
          /\ idx = BisectSearch(item, arr.data)[w]
      <3>1. idx = Bisect(item, arr.data, baseidx, baseidx + num)
        BY <1>5, <2>1 DEF InsortPlaces
      <3>2. w \in Windows /\ idx = BisectSearch(item, arr.data)[w]
        BY <3>1, Calls, ZenonT(60)
      <3>3. w[1] = baseidx /\ w[2] = num
        OBVIOUS
      <3> HIDE DEF w
      <3> QED
        BY <3>2, <3>3 DEF InWindow
    <2> HIDE DEF w
    <2>3. item \in Int
      BY ItemsAssumption
    <2>4. Leftmost(item, arr.data, w, idx)
      BY <2>2, <2>3, BisectIsExact
    <2>5. Ordered(arr.data, w)
      <3>1. ASSUME NEW i \in InWindow(w), NEW j \in InWindow(w), i <= j
            PROVE  arr.data[i] <= arr.data[j]
        <4>1. arr.data[i] = Cell(arr, i) /\ arr.data[j] = Cell(arr, j) /\ Cell(arr, i) \in Int
          BY <1>2, <2>2
        <4>2. i < j => Cell(arr, i) <= Cell(arr, j)
          BY <2>2 DEF SortedFrom
        <4>3. i < j \/ i = j
          BY <2>2, <3>1
        <4> QED
          BY <4>1, <4>2, <4>3
      <3> QED
        BY <1>2, <2>2, <3>1 DEF Ordered
    <2>6. ASSUME NEW i \in baseidx .. baseidx + num - 1
          PROVE  IF i < idx THEN Cell(arr, i) < item ELSE Cell(arr, i) >= item
      BY <1>2, <2>2, <2>4, <2>5 DEF Leftmost
    <2> QED
      BY <1>2, <1>3, <2>6
  <1> QED
    BY <1>4, <1>5

(* An item inserted at that place leaves the range in order. *)
LEMMA InsertedInOrder ==
    ASSUME NEW arr, arr.count \in Nat, NEW item \in Int, NEW b,
           NEW baseidx \in Nat, NEW num \in Nat, baseidx + num <= arr.count,
           SortedFrom(arr, baseidx, baseidx + num - 1), ~arr.suspect,
           NEW idx \in baseidx .. baseidx + num, Inserted(arr, item, idx, b),
           \A i \in baseidx .. baseidx + num - 1 :
              /\ Cell(arr, i) \in Int
              /\ i < idx => Cell(arr, i) < item
              /\ i >= idx => Cell(arr, i) >= item
    PROVE  /\ SortedFrom(b, baseidx, baseidx + num)
           /\ Cell(b, idx) = item
           /\ \A i \in baseidx .. idx - 1 : Cell(b, i) < item
  <1>1. b.count = arr.count + 1
    BY DEF Inserted
  <1>2. ASSUME NEW i \in baseidx .. baseidx + num
        PROVE  /\ i < idx => Cell(b, i) = Cell(arr, i) /\ i \in baseidx .. baseidx + num - 1
               /\ i = idx => Cell(b, i) = item
               /\ i > idx => Cell(b, i) = Cell(arr, i - 1) /\ i - 1 \in baseidx .. baseidx + num - 1
    <2>1. i \in Block(b.count)
      BY <1>1 DEF Block
    <2> QED
      BY <2>1 DEF Inserted
  <1>3. ASSUME NEW i \in baseidx .. baseidx + num, NEW j \in baseidx .. baseidx + num, i < j
        PROVE  Cell(b, i) <= Cell(b, j)
    <2>1. i \in Int /\ j \in Int /\ idx \in Int
      OBVIOUS
    <2>2. CASE j < idx
      <3>1. Cell(b, i) = Cell(arr, i) /\ Cell(b, j) = Cell(arr, j)
            /\ i \in baseidx .. baseidx + num - 1 /\ j \in baseidx .. baseidx + num - 1
        BY <1>2, <1>3, <2>1, <2>2
      <3> QED
        BY <1>3, <3>1 DEF SortedFrom
    <2>3. CASE j = idx
      BY <1>2, <1>3, <2>1, <2>3
    <2>4. CASE j > idx /\ i < idx
      <3>1. Cell(b, i) = Cell(arr, i) /\ i \in baseidx .. baseidx + num - 1
            /\ Cell(b, j) = Cell(arr, j - 1) /\ j - 1 \in baseidx .. baseidx + num - 1
        BY <1>2, <2>1, <2>4
      <3>2. j - 1 >= idx
        BY <2>1, <2>4
      <3> QED
        BY <2>1, <2>4, <3>1, <3>2
    <2>5. CASE j > idx /\ i = idx
      <3>1. Cell(b, j) = Cell(arr, j - 1) /\ j - 1 \in baseidx .. baseidx + num - 1 /\ Cell(b, i) = item
        BY <1>2, <2>1, <2>5
      <3>2. j - 1 >= idx
        BY <2>1, <2>5
      <3> QED
        BY <2>1, <3>1, <3>2
    <2>6. CASE i > idx
      <3>1. /\ Cell(b, i) = Cell(arr, i - 1) /\ i - 1 \in baseidx .. baseidx + num - 1
            /\ Cell(b, j) = Cell(arr, j - 1) /\ j - 1 \in baseidx .. baseidx + num - 1
        BY <1>2, <1>3, <2>1, <2>6
      <3>2. i - 1 < j - 1
        BY <1>3, <2>1
      <3> QED
        BY <3>1, <3>2 DEF SortedFrom
    <2> QED
      BY <1>3, <2>1, <2>2, <2>3, <2>4, <2>5, <2>6
  <1>4. ASSUME NEW i \in baseidx .. idx - 1 PROVE Cell(b, i) < item
    <2>1. i \in baseidx .. baseidx + num /\ i < idx
      OBVIOUS
    <2> QED
      BY <1>2, <2>1
  <1>5. Cell(b, idx) = item
    BY <1>2
  <1> QED
    BY <1>3, <1>4, <1>5 DEF SortedFrom

(* array_insort_range() keeps a sorted range of an array sorted, and says  *)
(* where the item is, for ranges of any length.                            *)
THEOREM InsortKeepsRangeSorted ==
    ASSUME SmallItems
    PROVE  Spec => InsortKeepsOrder
  <1> DEFINE Kept ==
        \A item \in Items, baseidx, num \in Indexes :
          (/\ call' = "insort" /\ ret' # -1 /\ ~a.suspect
           /\ baseidx + num <= a.count
           /\ SortedFrom(a, baseidx, baseidx + num - 1)
           /\ ArrayInsortRange(item, baseidx, num)) =>
              /\ a'.count = a.count + 1
              /\ SortedFrom(a', baseidx, baseidx + num)
              /\ ret' \in baseidx .. baseidx + num
              /\ Cell(a', ret') = item
              /\ \A i \in baseidx .. ret' - 1 : Cell(a', i) < item
  <1>1. ASSUME Inv PROVE Kept
    <2> SUFFICES ASSUME NEW item \in Items, NEW baseidx \in Indexes, NEW num \in Indexes,
                        ret' # -1, ~a.suspect, baseidx + num <= a.count,
                        SortedFrom(a, baseidx, baseidx + num - 1),
                        ArrayInsortRange(item, baseidx, num)
                 PROVE  /\ a'.count = a.count + 1
                        /\ SortedFrom(a', baseidx, baseidx + num)
                        /\ ret' \in baseidx .. baseidx + num
                        /\ Cell(a', ret') = item
                        /\ \A i \in baseidx .. ret' - 1 : Cell(a', i) < item
      OBVIOUS
    <2>1. baseidx \in Nat /\ num \in Nat /\ item \in Int /\ Honest(a) /\ a.count \in Nat
      BY <1>1, BoundsAssumption, ItemsAssumption DEF Indexes, Inv, Honest, Arrays
    <2>2. PICK o \in InsortRange(a, item, baseidx, num) : a' = o.arr /\ ret' = o.ret
      BY DEF ArrayInsortRange, Return
    <2>3. InsortEnds(a, item, baseidx, num, o)
      BY <2>1, InsortCases
    <2>4. PICK s \in EnsureSpace(a) :
             /\ s.ret
             /\ \E idx \in InsortPlaces(s.arr, item, baseidx, num) :
                   \E p \in InsertItem(s.arr, item, idx) : o.arr = p.arr /\ o.ret = idx
      BY <2>2, <2>3 DEF InsortEnds
    <2>5. PICK idx \in InsortPlaces(s.arr, item, baseidx, num) :
             \E p \in InsertItem(s.arr, item, idx) : o.arr = p.arr /\ o.ret = idx
      BY <2>4
    <2>6. PICK p \in InsertItem(s.arr, item, idx) : o.arr = p.arr /\ o.ret = idx
      BY <2>5
    <2>7. /\ Honest(s.arr) /\ SameItemsIn(a, s.arr)
          /\ s.arr.count < s.arr.allocated
      BY <2>1, <2>4, SpaceIsThere
    <2>8. s.arr.count = a.count /\ ~s.arr.suspect
      BY <2>7 DEF SameItemsIn
    <2>9. SortedFrom(s.arr, baseidx, baseidx + num - 1)
      <3>1. \A i \in baseidx .. baseidx + num - 1 : i \in Block(a.count)
        BY <2>1 DEF Block
      <3> QED
        BY <2>7, <3>1 DEF SortedFrom, SameItemsIn
    <2>10. /\ idx \in baseidx .. baseidx + num
           /\ \A i \in baseidx .. baseidx + num - 1 :
                 /\ Cell(s.arr, i) \in Int
                 /\ i < idx => Cell(s.arr, i) < item
                 /\ i >= idx => Cell(s.arr, i) >= item
      BY <2>1, <2>7, <2>8, <2>9, InsortPlace
    <2>11. idx \in Nat /\ idx <= s.arr.count
      BY <2>1, <2>8, <2>10
    <2>12. Inserted(s.arr, item, idx, p.arr)
      BY <2>7, <2>8, <2>11, InsertFine
    <2>13. /\ SortedFrom(p.arr, baseidx, baseidx + num)
           /\ Cell(p.arr, idx) = item
           /\ \A i \in baseidx .. idx - 1 : Cell(p.arr, i) < item
      BY <2>1, <2>8, <2>9, <2>10, <2>12, InsertedInOrder
    <2>14. p.arr.count = a.count + 1
      BY <2>8, <2>12 DEF Inserted
    <2> QED
      BY <2>2, <2>6, <2>10, <2>13, <2>14
  <1>2. Inv /\ [Next]_vars => Kept
    BY <1>1
  <1> QED
    BY <1>2, InvHolds, PTL DEF Spec, InsortKeepsOrder

----------------------------------------------------------------------------
(* The abstract state that an array stands for. *)
Ex(arr) == Exists(arr) /\ ~arr.suspect
Its(arr) == IF arr.suspect THEN << >> ELSE Seen(arr)

(* A function on 1..n is a sequence of length n. *)
LEMMA SeqOf ==
    ASSUME NEW S, NEW n \in Nat, NEW s \in [1 .. n -> S]
    PROVE  s \in Seq(S) /\ Len(s) = n
  OBVIOUS

(* What a caller sees of a true block is a sequence of items. *)
LEMMA SeenType ==
    ASSUME NEW arr, Honest(arr), ~arr.suspect
    PROVE  /\ Seen(arr) \in Seq(Items) /\ Len(Seen(arr)) = arr.count /\ arr.count \in Nat
           /\ DOMAIN Seen(arr) = 1 .. arr.count
           /\ \A i \in 1 .. arr.count : Seen(arr)[i] = Cell(arr, i - 1)
  <1>1. Holds(arr) /\ arr.count \in Nat
    BY DEF Honest, Arrays
  <1>2. \A i \in 1 .. arr.count : Cell(arr, i - 1) \in Items
    <2>1. \A i \in 1 .. arr.count : i - 1 \in 0 .. arr.count - 1
      BY <1>1
    <2> QED
      BY <1>1, <2>1 DEF Holds, Written
  <1>3. Seen(arr) \in [1 .. arr.count -> Items]
    BY <1>2 DEF Seen
  <1>4. \A i \in 1 .. arr.count : Seen(arr)[i] = Cell(arr, i - 1)
    BY DEF Seen
  <1> HIDE DEF Seen
  <1> QED
    BY <1>1, <1>3, <1>4, SeqOf

(* An array without items is the empty sequence. *)
LEMMA EmptySeen ==
    ASSUME NEW arr, arr.count = 0
    PROVE  Seen(arr) = << >>
  <1>1. 1 .. 0 = {}
    OBVIOUS
  <1> QED
    BY <1>1 DEF Seen

(* A call that changes no item changes nothing that the caller can see.    *)
LEMMA SameAbstract ==
    ASSUME NEW arr, NEW b, Honest(arr), SameItemsIn(arr, b)
    PROVE  Ex(b) = Ex(arr) /\ Its(b) = Its(arr)
  <1>1. arr.count \in Nat
    BY DEF Honest, Arrays
  <1>2. Seen(b) = Seen(arr)
    BY <1>1, SameSeen
  <1> QED
    BY <1>2 DEF Ex, Its, Exists, SameItemsIn

(* Inserting in the block is inserting in the sequence. *)
LEMMA InsertedSeen ==
    ASSUME NEW arr, NEW b, Honest(arr), Honest(b), ~arr.suspect,
           NEW item \in Items, NEW idx \in 0 .. arr.count, Inserted(arr, item, idx, b)
    PROVE  Seen(b) = Abstract!InsertAt(Seen(arr), idx + 1, item)
  <1> DEFINE s == Seen(arr)
             n == arr.count
             left == SubSeq(s, 1, idx)
             right == SubSeq(s, idx + 1, n)
             all == left \o <<item>> \o right
  <1>1. /\ s \in Seq(Items) /\ Len(s) = n /\ n \in Nat
        /\ \A i \in 1 .. n : s[i] = Cell(arr, i - 1) /\ s[i] \in Items
    BY SeenType, ElementOfSeq
  <1>2. b.count = n + 1 /\ ~b.suspect
    BY DEF Inserted
  <1>3. /\ Seen(b) \in Seq(Items) /\ Len(Seen(b)) = n + 1
        /\ \A i \in 1 .. n + 1 : Seen(b)[i] = Cell(b, i - 1)
    BY <1>2, SeenType
  <1>4. idx \in Int /\ idx + 1 \in Int /\ n \in Int
    BY <1>1
  <1> HIDE DEF s, n
  <1>5. /\ left \in Seq(Items) /\ Len(left) = idx
        /\ \A i \in 1 .. idx : left[i] = s[i]
    <2>1. \A i \in 1 .. idx : s[i] \in Items
      BY <1>1, <1>4 DEF n
    <2>2. /\ left \in Seq(Items) /\ Len(left) = IF 1 <= idx THEN idx - 1 + 1 ELSE 0
          /\ \A i \in 1 .. idx - 1 + 1 : left[i] = s[1 + i - 1]
      BY <1>4, <2>1, SubSeqProperties
    <2> QED
      BY <1>4, <2>2 DEF n
  <1>6. /\ right \in Seq(Items) /\ Len(right) = n - idx
        /\ \A i \in 1 .. n - idx : right[i] = s[idx + i]
    <2>1. \A i \in idx + 1 .. n : s[i] \in Items
      BY <1>1, <1>4
    <2>2. /\ right \in Seq(Items) /\ Len(right) = IF idx + 1 <= n THEN n - (idx + 1) + 1 ELSE 0
          /\ \A i \in 1 .. n - (idx + 1) + 1 : right[i] = s[(idx + 1) + i - 1]
      BY <1>4, <2>1, SubSeqProperties
    <2> QED
      BY <1>1, <1>4, <2>2 DEF n
  <1> HIDE DEF left, right
  <1>7. <<item>> \in Seq(Items) /\ Len(<<item>>) = 1 /\ <<item>>[1] = item
    OBVIOUS
  <1>8. /\ left \o <<item>> \in Seq(Items) /\ Len(left \o <<item>>) = idx + 1
        /\ \A i \in 1 .. idx + 1 : (left \o <<item>>)[i] = IF i <= idx THEN left[i] ELSE item
    <2>1. /\ left \o <<item>> \in Seq(Items) /\ Len(left \o <<item>>) = Len(left) + Len(<<item>>)
          /\ \A i \in 1 .. Len(left) + Len(<<item>>) : (left \o <<item>>)[i]
                = IF i <= Len(left) THEN left[i] ELSE <<item>>[i - Len(left)]
      BY <1>5, <1>7, ConcatProperties
    <2> QED
      BY <1>4, <1>5, <1>7, <2>1
  <1>9. /\ all \in Seq(Items) /\ Len(all) = n + 1
        /\ \A i \in 1 .. n + 1 : all[i] = IF i <= idx THEN s[i]
                                          ELSE IF i = idx + 1 THEN item ELSE s[i - 1]
    <2> DEFINE l == left \o <<item>>
    <2>1. l \in Seq(Items) /\ Len(l) = idx + 1
      BY <1>8
    <2> HIDE DEF l
    <2>2. /\ l \o right \in Seq(Items) /\ Len(l \o right) = Len(l) + Len(right)
          /\ \A i \in 1 .. Len(l) + Len(right) : (l \o right)[i]
                = IF i <= Len(l) THEN l[i] ELSE right[i - Len(l)]
      BY <1>6, <2>1, ConcatProperties
    <2>3. Len(l) + Len(right) = n + 1
      BY <1>1, <1>4, <1>6, <2>1
    <2>4. ASSUME NEW i \in 1 .. n + 1
          PROVE  (l \o right)[i] = IF i <= idx THEN s[i]
                                   ELSE IF i = idx + 1 THEN item ELSE s[i - 1]
      <3>1. i \in Nat /\ i >= 1 /\ i <= n + 1
        BY <1>4
      <3>2. CASE i <= idx + 1
        <4>1. (l \o right)[i] = l[i]
          BY <2>1, <2>2, <2>3, <3>2
        <4>2. l[i] = IF i <= idx THEN left[i] ELSE item
          BY <1>4, <1>8, <3>1, <3>2 DEF l
        <4>3. i <= idx => left[i] = s[i]
          BY <1>4, <1>5, <3>1
        <4> QED
          BY <1>4, <3>1, <3>2, <4>1, <4>2, <4>3
      <3>3. CASE ~(i <= idx + 1)
        <4>1. (l \o right)[i] = right[i - (idx + 1)]
          BY <2>1, <2>2, <2>3, <3>3
        <4>2. i - (idx + 1) \in 1 .. n - idx /\ idx + (i - (idx + 1)) = i - 1
          BY <1>4, <3>1, <3>3
        <4>3. right[i - (idx + 1)] = s[i - 1]
          BY <1>6, <4>2
        <4> QED
          BY <1>4, <3>1, <3>3, <4>1, <4>3
      <3> QED
        BY <3>2, <3>3
    <2> QED
      BY <2>2, <2>3, <2>4 DEF l
  <1>10. ASSUME NEW i \in 1 .. n + 1 PROVE Seen(b)[i] = all[i]
    <2>1. i - 1 \in Block(b.count)
      BY <1>1, <1>2 DEF Block
    <2>2. Cell(b, i - 1) = IF i - 1 < idx THEN Cell(arr, i - 1)
                           ELSE IF i - 1 = idx THEN item ELSE Cell(arr, (i - 1) - 1)
      BY <2>1 DEF Inserted
    <2>3. /\ i <= idx => s[i] = Cell(arr, i - 1)
          /\ i > idx + 1 => s[i - 1] = Cell(arr, (i - 1) - 1)
      BY <1>1, <1>4 DEF n
    <2>4. /\ i \in Int /\ Seen(b)[i] = Cell(b, i - 1)
          /\ all[i] = IF i <= idx THEN s[i] ELSE IF i = idx + 1 THEN item ELSE s[i - 1]
      BY <1>3, <1>4, <1>9
    <2> HIDE DEF all
    <2>5. CASE i <= idx
      BY <1>4, <2>2, <2>3, <2>4, <2>5
    <2>6. CASE i = idx + 1
      BY <1>4, <2>2, <2>4, <2>6
    <2>7. CASE i > idx + 1
      BY <1>4, <2>2, <2>3, <2>4, <2>7
    <2> QED
      BY <1>4, <2>4, <2>5, <2>6, <2>7
  <1>11. Seen(b) = all
    BY <1>3, <1>9, <1>10, SeqEqual
  <1>12. (idx + 1) - 1 = idx /\ Len(s) = n
    BY <1>1, <1>4
  <1>13. Abstract!InsertAt(Seen(arr), idx + 1, item) = all
    BY <1>12 DEF Abstract!InsertAt, all, left, right, s
  <1> QED
    BY <1>11, <1>13

(* array_set() replaces one item. *)
LEMMA SetSeen ==
    ASSUME NEW arr, Honest(arr), ~arr.suspect, NEW item \in Items, NEW idx \in Nat,
           NEW b, b = SetItem(arr, item, idx).arr
    PROVE  \/ SameItemsIn(arr, b)
           \/ /\ idx < arr.count /\ b.isize = arr.isize /\ b.suspect = arr.suspect
              /\ Seen(b) = [Seen(arr) EXCEPT ![idx + 1] = item]
  <1> DEFINE data == [i \in DOMAIN arr.data |-> IF i = idx THEN item ELSE arr.data[i]]
             over == arr.overrun \/ idx \notin DOMAIN arr.data
             set == [arr EXCEPT !.data = data, !.overrun = over]
  <1>1. /\ arr \in Arrays /\ arr.count \in Nat /\ arr.allocated \in Nat
        /\ DOMAIN arr.data = Block(arr.allocated) /\ arr.count <= arr.allocated
    BY DEF Honest, Arrays, Holds
  <1>2. CASE idx >= arr.count
    <2>1. b = arr
      BY <1>2 DEF SetItem, Outcome
    <2> QED
      BY <2>1 DEF SameItemsIn
  <1>3. CASE ~(idx >= arr.count)
    <2>1. SetItem(arr, item, idx) = Outcome(set, OK)
      BY <1>1, <1>3 DEF SetItem, Arrays
    <2>2. b = set
      BY <2>1 DEF Outcome
    <2>3. DOMAIN data = DOMAIN arr.data
          /\ \A i \in DOMAIN arr.data : data[i] = IF i = idx THEN item ELSE arr.data[i]
      OBVIOUS
    <2> HIDE DEF data, over
    <2>4. /\ b.data = data /\ b.count = arr.count /\ b.isize = arr.isize
          /\ b.suspect = arr.suspect
      BY <1>1, <2>2 DEF Arrays
    <2> HIDE DEF set
    <2>5. ASSUME NEW i \in 1 .. arr.count
          PROVE  Cell(b, i - 1) = IF i = idx + 1 THEN item ELSE Cell(arr, i - 1)
      <3>1. i - 1 \in Block(arr.allocated) /\ (i - 1 = idx <=> i = idx + 1)
        BY <1>1 DEF Block
      <3> QED
        BY <1>1, <2>3, <2>4, <3>1 DEF Cell
    <2>6. Seen(b) = [i \in 1 .. arr.count |-> IF i = idx + 1 THEN item ELSE Cell(arr, i - 1)]
      BY <2>4, <2>5 DEF Seen
    <2>7. Seen(b) = [Seen(arr) EXCEPT ![idx + 1] = item]
      BY <2>6 DEF Seen
    <2> QED
      BY <1>1, <1>3, <2>4, <2>7
  <1> QED
    BY <1>2, <1>3

(* array_clear() *)
LEMMA ClearSeen ==
    ASSUME NEW arr, arr \in Arrays
    PROVE  /\ Clear(arr).count = 0 /\ Clear(arr).isize = arr.isize
           /\ Clear(arr).suspect = arr.suspect
  BY DEF Clear, Arrays

(* array_load(): the items are those of the file, or those it had, or the  *)
(* array is gone, or nobody knows.                                         *)
Loads(arr, count, file, b) ==
    \/ SameItemsIn(arr, b)
    \/ b = NoArray
    \/ b.suspect
    \/ /\ ~arr.suspect /\ Exists(arr) /\ Exists(b) /\ ~b.suspect
       /\ Seen(b) = [i \in 1 .. count |-> file[i - 1]]

(* array_load(): the sequence is the file's, or as much as was asked for. *)
LEMMA LoadSeen ==
    ASSUME NEW arr, Honest(arr), NEW count \in Nat, NEW file \in [Block(count) -> Items],
           NEW o \in Load(arr, file, count)
    PROVE  Loads(arr, count, file, o.arr)
  <1>1. CASE ~Exists(arr)
    <2>1. o = [arr |-> arr, ret |-> -1]
      BY <1>1 DEF Load, Outcome, Null
    <2> QED
      BY <2>1 DEF SameItemsIn, Loads
  <1>2. CASE Exists(arr)
    <2>1. LoadEnds(arr, count, file, o)
      BY <1>2, LoadCases
    <2>2. PICK p \in Realloc(arr, count) :
              \/ p.ret # count /\ o = Outcome(p.arr, Null)
              \/ /\ p.ret = count
                 /\ \/ o = ReadAll(p.arr, file, count)
                    \/ o = Outcome(NoArray, Null)
                    \/ \E k \in 0 .. count - 1 :
                          o = Outcome([p.arr EXCEPT !.data = ReadInto(p.arr, file, k),
                                                    !.count = count, !.suspect = TRUE], OK)
      BY <2>1 DEF LoadEnds
    <2>3. /\ Honest(p.arr) /\ SameItemsIn(arr, p.arr)
          /\ p.ret > 0 => p.arr.allocated = p.ret
      BY ReallocHonest
    <2>4. p.arr \in Arrays /\ p.arr.suspect \in BOOLEAN /\ p.arr.allocated \in Nat
      BY <2>3 DEF Honest, Arrays
    <2>5. CASE o = Outcome(p.arr, Null)
      BY <2>3, <2>5 DEF Outcome, Loads
    <2>6. CASE o = Outcome(NoArray, Null)
      BY <2>6 DEF Outcome, Loads
    <2>7. CASE p.ret = count /\ o = ReadAll(p.arr, file, count)
      <3> DEFINE data == ReadInto(p.arr, file, count)
      <3>1. o.arr = [p.arr EXCEPT !.data = data, !.count = count]
        BY <2>7 DEF ReadAll, Outcome
      <3>2. DOMAIN data = DOMAIN p.arr.data
            /\ \A i \in DOMAIN p.arr.data : i < count => data[i] = file[i]
        BY DEF ReadInto
      <3> HIDE DEF data
      <3>3. /\ o.arr.data = data /\ o.arr.count = count
            /\ o.arr.isize = p.arr.isize /\ o.arr.suspect = p.arr.suspect
        BY <2>4, <3>1 DEF Arrays
      <3>4. Exists(o.arr) /\ o.arr.suspect = arr.suspect
        BY <1>2, <2>3, <3>3 DEF SameItemsIn, Exists
      <3>5. ASSUME ~arr.suspect
            PROVE  Seen(o.arr) = [i \in 1 .. count |-> file[i - 1]]
        <4>1. DOMAIN p.arr.data = Block(p.arr.allocated) /\ count <= p.arr.allocated
          BY <2>3, <2>4, <2>7, <3>3, <3>4, <3>5 DEF Honest, Holds
        <4>2. ASSUME NEW i \in 1 .. count PROVE Cell(o.arr, i - 1) = file[i - 1]
          <5>1. i - 1 \in Block(p.arr.allocated) /\ i - 1 < count
            BY <2>4, <4>1 DEF Block
          <5> QED
            BY <3>2, <3>3, <4>1, <5>1 DEF Cell
        <4> QED
          BY <3>3, <4>2 DEF Seen
      <3>6. o.arr.suspect \in BOOLEAN
        BY <2>4, <3>3
      <3> QED
        BY <1>2, <3>4, <3>5, <3>6 DEF Loads
    <2>8. ASSUME NEW k \in 0 .. count - 1,
                 o = Outcome([p.arr EXCEPT !.data = ReadInto(p.arr, file, k),
                                           !.count = count, !.suspect = TRUE], OK)
          PROVE  o.arr.suspect
      BY <2>4, <2>8 DEF Outcome, Arrays
    <2> QED
      BY <2>2, <2>5, <2>6, <2>7, <2>8 DEF Loads
  <1> QED
    BY <1>1, <1>2

(* array_load() whose read failed: the array is suspect. *)
LEMMA LoadSuspect ==
    ASSUME NEW arr, Honest(arr), arr.suspect, NEW count \in Nat,
           NEW file \in [Block(count) -> Items], NEW o \in Load(arr, file, count)
    PROVE  o.arr.suspect \/ o.arr = NoArray
  <1>1. arr.suspect = TRUE
    BY DEF Honest, Arrays
  <1>2. SameItemsIn(arr, o.arr) => o.arr.suspect
    BY <1>1 DEF SameItemsIn
  <1> QED
    BY <1>1, <1>2, LoadSeen DEF Loads

(* The functions that make an array make an empty one, or none. *)
LEMMA NewSeen ==
    ASSUME NEW isize \in Nat, isize <= ChonkSize, NEW arr \in New(isize)
    PROVE  Honest(arr) /\ arr.count = 0 /\ ~arr.suspect
  <1>1. \A n : Empty(n).count = 0 /\ Empty(n).suspect = FALSE
    BY DEF Empty, NoArray
  <1>2. NoArray.count = 0 /\ NoArray.suspect = FALSE
    BY DEF NoArray
  <1>3. arr = NoArray \/ arr = Empty(isize)
    BY DEF New
  <1> QED
    BY <1>1, <1>2, <1>3, NewHonest

(* array_init() makes an empty sequence. *)
LEMMA InitSeen ==
    ASSUME NEW isize \in Nat, isize <= ChonkSize, NEW arr \in InitArray(isize)
    PROVE  arr.count = 0 /\ ~arr.suspect
  <1>1. PICK b \in New(isize) : arr \in {o.arr : o \in Grow(b)}
    BY DEF InitArray
  <1>2. PICK o \in Grow(b) : arr = o.arr
    BY <1>1
  <1>3. SameItemsIn(b, arr)
    BY <1>2, NewSeen, GrowHonest
  <1> QED
    BY <1>3, NewSeen DEF SameItemsIn

(* array_with_capacity() makes an empty sequence, or no array. *)
LEMMA CapacitySeen ==
    ASSUME NEW isize \in Nat, isize <= ChonkSize, NEW n \in Nat,
           NEW arr \in WithCapacity(isize, n)
    PROVE  arr.count = 0 /\ ~arr.suspect
  <1>1. PICK b \in New(isize) :
           arr \in {IF Unsigned(o.ret) < n THEN NoArray ELSE o.arr : o \in Realloc(b, n)}
    BY DEF WithCapacity
  <1>2. PICK o \in Realloc(b, n) : arr = IF Unsigned(o.ret) < n THEN NoArray ELSE o.arr
    BY <1>1
  <1>3. SameItemsIn(b, o.arr)
    BY NewSeen, ReallocHonest
  <1>4. o.arr.count = 0 /\ ~o.arr.suspect
    BY <1>3, NewSeen DEF SameItemsIn
  <1> QED
    BY <1>2, <1>4 DEF NoArray

----------------------------------------------------------------------------
(* How often a sequence and a block hold a value. *)
InSeq(s, n, v) == Cardinality({i \in 1 .. n : s[i] = v})
InBlock(g, n, v) == Cardinality({i \in Block(n) : g[i] = v})

(* SeqArray counts as this module does. *)
LEMMA SameCardinality == \A S : Abstract!Cardinality(S) = Cardinality(S)
  BY DEF Abstract!Cardinality, Cardinality

(* The 0-based cells of a block and the 1-based places of its sequence. *)
LEMMA Shift ==
    ASSUME NEW n \in Nat, NEW g, NEW s, NEW v, \A i \in 1 .. n : s[i] = g[i - 1]
    PROVE  InSeq(s, n, v) = InBlock(g, n, v)
  <1> DEFINE S == {i \in 1 .. n : s[i] = v}
             T == {i \in Block(n) : g[i] = v}
             f == [i \in S |-> i - 1]
  <1>1. IsFiniteSet(S)
    <2>1. IsFiniteSet(1 .. n) /\ S \in SUBSET (1 .. n)
      BY FS_Interval
    <2> HIDE DEF S
    <2> QED
      BY <2>1, FS_Subset
  <1>2. \A i \in S : i \in Int /\ i - 1 \in T
    BY DEF Block
  <1>3. \A j \in T : j \in Int /\ j + 1 \in S /\ (j + 1) - 1 = j
    <2>1. ASSUME NEW j \in T PROVE j \in Int /\ j + 1 \in S /\ (j + 1) - 1 = j
      <3>1. j \in Int /\ j + 1 \in 1 .. n /\ (j + 1) - 1 = j
        BY DEF Block
      <3>2. s[j + 1] = g[(j + 1) - 1]
        BY <3>1
      <3> QED
        BY <3>1, <3>2
    <2> QED
      BY <2>1
  <1> HIDE DEF S, T
  <1>4. f \in [S -> T] /\ (\A i, j \in S : f[i] = f[j] => i = j)
        /\ (\A t \in T : \E i \in S : f[i] = t)
    <2>1. f \in [S -> T]
      BY <1>2
    <2>2. ASSUME NEW i \in S, NEW j \in S, f[i] = f[j] PROVE i = j
      BY <1>2, <2>2
    <2>3. ASSUME NEW t \in T PROVE \E i \in S : f[i] = t
      BY <1>3
    <2> QED
      BY <2>1, <2>2, <2>3
  <1> HIDE DEF f
  <1>5. f \in Bijection(S, T)
    BY <1>4 DEF Bijection, Injection, Surjection, IsInjective
  <1>6. ExistsBijection(S, T)
    BY <1>5 DEF ExistsBijection
  <1> QED
    BY <1>1, <1>6, FS_Bijection DEF S, T, InSeq, InBlock

(* array_sort(): the same items, in order. *)
LEMMA SortSeen ==
    ASSUME NEW arr, Honest(arr), ~arr.suspect, NEW b \in Sort(arr)
    PROVE  /\ b.isize = arr.isize /\ b.suspect = arr.suspect
           /\ Seen(b) \in [DOMAIN Seen(arr) -> Abstract!Range(Seen(arr))]
           /\ Abstract!InOrder(Seen(b))
           /\ \A item \in Items :
                 Abstract!Occurrences(Seen(b), item) = Abstract!Occurrences(Seen(arr), item)
  <1> DEFINE n == arr.count
             cells == [i \in Block(n) |-> Cell(arr, i)]
  <1>1. PICK f \in Orders(arr) :
           b = [arr EXCEPT !.data = [i \in DOMAIN arr.data |->
                                        IF i < arr.count THEN f[i] ELSE arr.data[i]]]
    BY DEF Sort
  <1>2. /\ f \in [Block(n) -> {cells[i] : i \in Block(n)}]
        /\ InOrder(f, n) /\ SameItems(f, cells, n)
    BY DEF Orders
  <1>3. /\ arr \in Arrays /\ n \in Nat /\ arr.allocated \in Nat
        /\ Holds(arr) /\ DOMAIN arr.data = Block(arr.allocated) /\ n <= arr.allocated
    BY DEF Honest, Arrays, Holds
  <1>4. b.count = n /\ b.isize = arr.isize /\ b.suspect = arr.suspect
        /\ b.data = [i \in DOMAIN arr.data |-> IF i < n THEN f[i] ELSE arr.data[i]]
    BY <1>1, <1>3 DEF Arrays
  <1>5. ASSUME NEW i \in Block(n) PROVE Cell(b, i) = f[i]
    <2>1. i \in Block(arr.allocated) /\ i < n
      BY <1>3 DEF Block
    <2> QED
      BY <1>3, <1>4, <2>1 DEF Cell
  <1>6. ASSUME NEW i \in Block(n) PROVE Cell(arr, i) \in Items /\ cells[i] = Cell(arr, i)
    BY <1>3 DEF Holds, Written, Block
  <1> HIDE DEF cells
  <1>7. \A i \in 1 .. n : i - 1 \in Block(n)
    BY <1>3 DEF Block
  <1>8. /\ DOMAIN Seen(arr) = 1 .. n /\ DOMAIN Seen(b) = 1 .. n
        /\ \A i \in 1 .. n : Seen(arr)[i] = cells[i - 1] /\ Seen(b)[i] = f[i - 1]
    BY <1>4, <1>5, <1>6, <1>7 DEF Seen
  <1>9. Seen(b) \in [1 .. n -> Abstract!Range(Seen(arr))]
    <2>1. ASSUME NEW i \in 1 .. n PROVE Seen(b)[i] \in Abstract!Range(Seen(arr))
      <3>1. PICK j \in Block(n) : f[i - 1] = cells[j]
        BY <1>2, <1>7
      <3>2. j + 1 \in 1 .. n /\ (j + 1) - 1 = j
        BY <1>3 DEF Block
      <3>3. Seen(b)[i] = Seen(arr)[j + 1]
        BY <1>8, <3>1, <3>2
      <3> QED
        BY <1>8, <3>2, <3>3 DEF Abstract!Range
    <2>2. Seen(b) = [i \in 1 .. n |-> Seen(b)[i]]
      BY <1>4 DEF Seen
    <2> QED
      BY <2>1, <2>2
  <1>10. Abstract!InOrder(Seen(b))
    <2>1. \A i \in Block(n) : f[i] \in Items
      BY <1>2, <1>6
    <2>2. ASSUME NEW i \in 1 .. n, NEW j \in 1 .. n, i < j PROVE Seen(b)[i] <= Seen(b)[j]
      <3>1. i - 1 \in Block(n) /\ j - 1 \in Block(n) /\ i - 1 < j - 1
        BY <1>7, <2>2
      <3>2. f[i - 1] # Garbage /\ f[j - 1] # Garbage
        BY <2>1, <3>1, ItemsAssumption
      <3>3. f[i - 1] <= f[j - 1]
        BY <1>2, <3>1, <3>2 DEF InOrder
      <3> QED
        BY <1>8, <3>3
    <2> QED
      BY <1>8, <2>2 DEF Abstract!InOrder
  <1>11. ASSUME NEW item \in Items
         PROVE  Abstract!Occurrences(Seen(b), item) = Abstract!Occurrences(Seen(arr), item)
    <2> DEFINE s == Seen(b)
               t == Seen(arr)
    <2>1. \A i \in 1 .. n : s[i] = f[i - 1] /\ t[i] = cells[i - 1]
      BY <1>8
    <2>2. DOMAIN s = 1 .. n /\ DOMAIN t = 1 .. n
      BY <1>8
    <2> HIDE DEF s, t
    <2>3. InSeq(s, n, item) = InBlock(f, n, item) /\ InSeq(t, n, item) = InBlock(cells, n, item)
      BY <1>3, <2>1, Shift
    <2>4. InBlock(f, n, item) = InBlock(cells, n, item)
      BY <1>2 DEF SameItems, InBlock
    <2>5. {i \in DOMAIN s : s[i] = item} = {i \in 1 .. n : s[i] = item}
          /\ {i \in DOMAIN t : t[i] = item} = {i \in 1 .. n : t[i] = item}
      BY <2>2
    <2>6. /\ Abstract!Occurrences(s, item) = InSeq(s, n, item)
          /\ Abstract!Occurrences(t, item) = InSeq(t, n, item)
      BY <2>5, SameCardinality DEF Abstract!Occurrences, InSeq
    <2>7. Abstract!Occurrences(s, item) = Abstract!Occurrences(t, item)
      BY <2>3, <2>4, <2>6
    <2> QED
      BY <2>7 DEF s, t
  <1> QED
    BY <1>4, <1>8, <1>9, <1>10, <1>11

(* Appending to the block is appending to the sequence. *)
LEMMA AppendedSeen ==
    ASSUME NEW s \in Seq(Items), NEW item \in Items
    PROVE  Abstract!InsertAt(s, Len(s) + 1, item) = s \o <<item>>
  <1>1. Len(s) \in Nat /\ (Len(s) + 1) - 1 = Len(s)
    BY LenProperties
  <1>2. SubSeq(s, 1, Len(s)) = s
    BY SubSeqFull
  <1>3. SubSeq(s, Len(s) + 1, Len(s)) = << >>
    BY <1>1, SubSeqEmpty
  <1>4. s \o <<item>> \in Seq(Items)
    BY ConcatProperties
  <1>5. (s \o <<item>>) \o << >> = s \o <<item>>
    BY <1>4, ConcatEmptySeq
  <1> QED
    BY <1>1, <1>2, <1>3, <1>5 DEF Abstract!InsertAt

----------------------------------------------------------------------------
(* Steps of Array, by what they do to the sequence.  An array that is not  *)
(* there stands for no items.                                              *)
NoneIsEmpty == ~Ex(a) => Its(a) = << >>

(* Steps of the sequence, by what they do to its items: none is touched, *)
LEMMA StepNothing ==
    ASSUME call' \in Abstract!Calls, Ex(a') = Ex(a), Its(a') = Its(a)
    PROVE  Abstract!Next
  BY DEF Abstract!Next, Abstract!Nothing, Ex, Its

(* a new sequence is made, *)
LEMMA StepNew ==
    ASSUME ~Ex(a), Ex(a'), Its(a') = << >>, call' = "new"
    PROVE  Abstract!Next
  BY DEF Abstract!Next, Abstract!New, Ex, Its

(* one is read from a file, *)
LEMMA StepLoad ==
    ASSUME Ex(a'), Its(a') \in Abstract!Files, call' = "load"
    PROVE  Abstract!Next
  BY DEF Abstract!Next, Abstract!Load, Ex, Its

(* it is freed, *)
LEMMA StepFree ==
    ASSUME Ex(a), ~Ex(a'), Its(a') = << >>, call' \in {"free", "load"}
    PROVE  Abstract!Next
  BY DEF Abstract!Next, Abstract!Free, Ex, Its

(* emptied, *)
LEMMA StepClear ==
    ASSUME Ex(a), Ex(a'), Its(a') = << >>, call' = "clear"
    PROVE  Abstract!Next
  BY DEF Abstract!Next, Abstract!Clear, Ex, Its

(* one item is appended, *)
LEMMA StepPush ==
    ASSUME NEW item \in Items, Ex(a), Ex(a'), Len(Its(a)) < MaxCount,
           Its(a') = Its(a) \o <<item>>, call' = "append"
    PROVE  Abstract!Next
  <1>1. Abstract!Push(item)
    BY DEF Abstract!Push, Ex, Its
  <1> QED
    BY <1>1 DEF Abstract!Next

(* inserted, *)
LEMMA StepInsert ==
    ASSUME NEW item \in Items, NEW i \in 1 .. Len(Its(a)) + 1,
           Ex(a), Ex(a'), Len(Its(a)) < MaxCount,
           Its(a') = Abstract!InsertAt(Its(a), i, item), call' \in {"insert", "insort"}
    PROVE  Abstract!Next
  <1>1. Abstract!Insert(item, i) \/ Abstract!Insort(item, i)
    BY DEF Abstract!Insert, Abstract!Insort, Ex, Its
  <1> QED
    BY <1>1 DEF Abstract!Next, Its

(* replaced, *)
LEMMA StepSet ==
    ASSUME NEW item \in Items, NEW i \in 1 .. Len(Its(a)), Ex(a), Ex(a'),
           Its(a') = [Its(a) EXCEPT ![i] = item], call' = "set"
    PROVE  Abstract!Next
  <1>1. Abstract!Set(item, i)
    BY DEF Abstract!Set, Ex, Its
  <1> QED
    BY <1>1 DEF Abstract!Next, Its

(* or all of them are sorted. *)
LEMMA StepSort ==
    ASSUME Ex(a), Ex(a'), call' = "sort",
           Its(a') \in [DOMAIN Its(a) -> Abstract!Range(Its(a))],
           Abstract!InOrder(Its(a')),
           \A item \in Items : Abstract!Occurrences(Its(a'), item) = Abstract!Occurrences(Its(a), item)
    PROVE  Abstract!Next
  <1>1. Abstract!Sort
    BY DEF Abstract!Sort, Ex, Its
  <1> QED
    BY <1>1 DEF Abstract!Next

----------------------------------------------------------------------------
(* What no call can see of an array that is not there, or that is suspect. *)
LEMMA Unseen ==
    ASSUME NEW arr, arr.suspect \/ arr = NoArray
    PROVE  ~Ex(arr) /\ Its(arr) = << >>
  <1>1. NoArray.count = 0 /\ NoArray.isize = 0 /\ NoArray.suspect = FALSE
    BY DEF NoArray
  <1>2. Seen(NoArray) = << >>
    BY <1>1, EmptySeen
  <1> QED
    BY <1>1, <1>2 DEF Ex, Its, Exists

(* Of an array that is there and not suspect, the items are what is seen. *)
LEMMA Visible ==
    ASSUME NEW arr, Honest(arr), Ex(arr)
    PROVE  /\ ~arr.suspect /\ Exists(arr) /\ Its(arr) = Seen(arr)
           /\ Len(Its(arr)) = arr.count /\ Its(arr) \in Seq(Items) /\ arr.count \in Nat
  BY SeenType DEF Ex, Its

(* The calls that make an array. *)
LEMMA StepMake ==
    ASSUME NoneIsEmpty, ~Exists(a), NEW arr, arr.suspect \/ arr.count = 0, Make(arr)
    PROVE  Abstract!Next
  <1>1. a' = arr /\ call' = "new"
    BY DEF Make, Return, Outcome
  <1>2. ~Ex(a) /\ Its(a) = << >>
    BY DEF NoneIsEmpty, Ex
  <1>3. Its(arr) = << >>
    BY EmptySeen DEF Its
  <1>4. CASE Ex(arr)
    BY <1>1, <1>2, <1>3, <1>4, StepNew
  <1>5. CASE ~Ex(arr)
    <2>1. Ex(a') = Ex(a) /\ Its(a') = Its(a)
      BY <1>1, <1>2, <1>3, <1>5 DEF Ex
    <2> QED
      BY <1>1, <2>1, StepNothing DEF Abstract!Calls
  <1> QED
    BY <1>4, <1>5

(* The calls that change no item. *)
LEMMA StepSame ==
    ASSUME Inv, NEW name \in Abstract!Calls, NEW o, SameItemsIn(a, o.arr), Return(name, o)
    PROVE  Abstract!Next
  <1>1. a' = o.arr /\ call' = name
    BY DEF Return
  <1>2. Ex(o.arr) = Ex(a) /\ Its(o.arr) = Its(a)
    BY SameAbstract DEF Inv
  <1> QED
    BY <1>1, <1>2, StepNothing

(* The calls on an array that is suspect, or on none. *)
LEMMA StepSuspect ==
    ASSUME ~Ex(a), Its(a) = << >>, call' \in Abstract!Calls, a'.suspect \/ a' = NoArray
    PROVE  Abstract!Next
  <1>1. ~Ex(a') /\ Its(a') = << >>
    BY Unseen
  <1>2. Ex(a') = Ex(a)
    BY <1>1 DEF Ex
  <1> QED
    BY <1>1, <1>2, StepNothing

(* A file is a sequence of items. *)
LEMMA FileType ==
    ASSUME NEW count \in 0 .. MaxCount, NEW file \in [Block(count) -> Items]
    PROVE  [i \in 1 .. count |-> file[i - 1]] \in Abstract!Files
  <1>1. \A i \in 1 .. count : i - 1 \in Block(count)
    BY DEF Block
  <1>2. [i \in 1 .. count |-> file[i - 1]] \in [1 .. count -> Items]
    BY <1>1
  <1> QED
    BY <1>2 DEF Abstract!Files

(* An empty file is a file. *)
LEMMA NoFile == << >> \in Abstract!Files
  <1>1. 1 .. 0 = {} /\ << >> \in [1 .. 0 -> Items] /\ 0 \in 0 .. MaxCount
    BY BoundsAssumption
  <1> QED
    BY <1>1 DEF Abstract!Files

(* array_load() of an array that holds the file. *)
LEMMA StepRead ==
    ASSUME SmallItems, NoneIsEmpty, ArrayRead
    PROVE  Abstract!Next
  <1> USE BoundsAssumption
  <1>1. PICK isize \in ISizes, count \in 0 .. MaxCount :
           \E arr \in New(isize), file \in [Block(count) -> Items] :
              \E o \in Load(arr, file, count) : Return("load", o)
    BY DEF ArrayRead
  <1>2. PICK arr \in New(isize), file \in [Block(count) -> Items] :
              \E o \in Load(arr, file, count) : Return("load", o)
    BY <1>1
  <1>3. PICK o \in Load(arr, file, count) : Return("load", o)
    BY <1>2
  <1>4. a' = o.arr /\ call' = "load" /\ call' \in Abstract!Calls
    BY <1>3 DEF Return, Abstract!Calls
  <1>5. ~Ex(a) /\ Its(a) = << >>
    BY DEF ArrayRead, NoneIsEmpty, Ex
  <1>6. isize \in Nat /\ isize <= ChonkSize /\ count \in Nat
    BY DEF SmallItems
  <1>7. Honest(arr) /\ arr.count = 0 /\ ~arr.suspect
    BY <1>6, NewSeen
  <1>8. \/ SameItemsIn(arr, o.arr)
        \/ o.arr = NoArray
        \/ o.arr.suspect
        \/ Exists(o.arr) /\ ~o.arr.suspect
           /\ Seen(o.arr) = [i \in 1 .. count |-> file[i - 1]]
    <2>1. Loads(arr, count, file, o.arr)
      BY <1>6, <1>7, LoadSeen
    <2> QED
      BY <2>1 DEF Loads
  <1>9. CASE SameItemsIn(arr, o.arr)
    <2>1. Its(o.arr) = << >>
      BY <1>7, <1>9, EmptySeen DEF SameItemsIn, Its
    <2>2. CASE Ex(a')
      BY <1>4, <2>1, <2>2, NoFile, StepLoad
    <2>3. CASE ~Ex(a')
      <3>1. Ex(a') = Ex(a) /\ Its(a') = Its(a)
        BY <1>4, <1>5, <2>1, <2>3 DEF Ex
      <3> QED
        BY <1>4, <3>1, StepNothing
    <2> QED
      BY <2>2, <2>3
  <1>10. CASE o.arr = NoArray \/ o.arr.suspect
    BY <1>4, <1>5, <1>10, StepSuspect
  <1>11. CASE Exists(o.arr) /\ ~o.arr.suspect
              /\ Seen(o.arr) = [i \in 1 .. count |-> file[i - 1]]
    <2>1. Ex(a') /\ Its(a') = [i \in 1 .. count |-> file[i - 1]]
      BY <1>4, <1>11 DEF Ex, Its
    <2> QED
      BY <1>4, <2>1, FileType, StepLoad
  <1> QED
    BY <1>8, <1>9, <1>10, <1>11

(* array_load(), however it ends. *)
LEMMA StepLoaded ==
    ASSUME Inv, NEW count \in 0 .. MaxCount, ArrayLoad(count)
    PROVE  Abstract!Next
  <1>1. PICK file \in [Block(count) -> Items] : \E o \in Load(a, file, count) : Return("load", o)
    BY DEF ArrayLoad
  <1>2. PICK o \in Load(a, file, count) : Return("load", o)
    BY <1>1
  <1>3. a' = o.arr /\ call' = "load" /\ call' \in Abstract!Calls
    BY <1>2 DEF Return, Abstract!Calls
  <1>4. Honest(a) /\ count \in Nat /\ Exists(a)
    BY BoundsAssumption DEF Inv, ArrayLoad
  <1>5. CASE a.suspect
    <2>1. o.arr.suspect \/ o.arr = NoArray
      BY <1>4, <1>5, LoadSuspect
    <2>2. ~Ex(a) /\ Its(a) = << >>
      BY <1>5, Unseen
    <2> QED
      BY <1>3, <2>1, <2>2, StepSuspect
  <1>6. CASE ~a.suspect
    <2>1. Ex(a)
      BY <1>4, <1>6 DEF Ex
    <2>2. \/ SameItemsIn(a, o.arr)
          \/ o.arr = NoArray
          \/ o.arr.suspect
          \/ Exists(o.arr) /\ ~o.arr.suspect
             /\ Seen(o.arr) = [i \in 1 .. count |-> file[i - 1]]
      <3>1. Loads(a, count, file, o.arr)
        BY <1>4, LoadSeen
      <3> QED
        BY <3>1 DEF Loads
    <2>3. CASE SameItemsIn(a, o.arr)
      BY <1>2, <2>3, StepSame DEF Abstract!Calls
    <2>4. CASE o.arr = NoArray \/ o.arr.suspect
      <3>1. ~Ex(a') /\ Its(a') = << >>
        BY <1>3, <2>4, Unseen
      <3> QED
        BY <1>3, <2>1, <3>1, StepFree
    <2>5. CASE Exists(o.arr) /\ ~o.arr.suspect
               /\ Seen(o.arr) = [i \in 1 .. count |-> file[i - 1]]
      <3>1. Ex(a') /\ Its(a') = [i \in 1 .. count |-> file[i - 1]]
        BY <1>3, <2>5 DEF Ex, Its
      <3> QED
        BY <1>3, <3>1, FileType, StepLoad
    <2> QED
      BY <2>2, <2>3, <2>4, <2>5
  <1> QED
    BY <1>5, <1>6

(* An insertion, wherever it is. *)
LEMMA InsertedStep ==
    ASSUME Inv, Inv', Exists(a), a.count < MaxCount, call' \in {"append", "insert", "insort"},
           NEW item \in Items, NEW idx \in 0 .. a.count, Inserted(a, item, idx, a'),
           call' = "append" => idx = a.count
    PROVE  Abstract!Next
  <1>1. Honest(a) /\ Honest(a') /\ call' \in Abstract!Calls
    BY DEF Inv, Abstract!Calls
  <1>2. a'.suspect = a.suspect /\ a'.isize = a.isize
    BY DEF Inserted
  <1>3. CASE a.suspect
    <2>1. ~Ex(a) /\ Its(a) = << >>
      BY <1>3, Unseen
    <2> QED
      BY <1>1, <1>2, <1>3, <2>1, StepSuspect
  <1>4. CASE ~a.suspect
    <2>1. Ex(a) /\ Ex(a')
      BY <1>2, <1>4 DEF Ex, Exists
    <2>2. Its(a') = Abstract!InsertAt(Its(a), idx + 1, item)
      BY <1>1, <1>2, <1>4, InsertedSeen DEF Its
    <2>3. Len(Its(a)) = a.count /\ Its(a) \in Seq(Items) /\ a.count \in Nat
      BY <1>1, <2>1, Visible
    <2>4. CASE call' = "append"
      <3>1. Its(a') = Its(a) \o <<item>>
        BY <2>2, <2>3, <2>4, AppendedSeen
      <3> QED
        BY <2>1, <2>3, <2>4, <3>1, StepPush
    <2>5. CASE call' \in {"insert", "insort"}
      <3>1. idx + 1 \in 1 .. Len(Its(a)) + 1
        BY <2>3
      <3> QED
        BY <2>1, <2>2, <2>3, <2>5, <3>1, StepInsert
    <2> QED
      BY <2>4, <2>5
  <1> QED
    BY <1>3, <1>4

(* array_set(). *)
LEMMA StepSetItem ==
    ASSUME Inv, Inv', NEW item \in Items, NEW idx \in Indexes, ArraySet(item, idx)
    PROVE  Abstract!Next
  <1> DEFINE o == SetItem(a, item, idx)
  <1>1. Return("set", o) /\ a' = o.arr /\ call' = "set" /\ Exists(a)
    BY DEF ArraySet, Return
  <1>2. Honest(a) /\ idx \in Nat /\ call' \in Abstract!Calls
    BY <1>1, BoundsAssumption DEF Inv, Indexes, Abstract!Calls
  <1>3. CASE a.suspect
    <2>1. ~Ex(a) /\ Its(a) = << >>
      BY <1>3, Unseen
    <2>2. a'.suspect = a.suspect
      BY <1>1, <1>2 DEF SetItem, Outcome, Honest, Arrays
    <2> QED
      BY <1>2, <1>3, <2>1, <2>2, StepSuspect
  <1>4. CASE ~a.suspect
    <2>1. \/ SameItemsIn(a, o.arr)
          \/ /\ idx < a.count /\ o.arr.isize = a.isize /\ o.arr.suspect = a.suspect
             /\ Seen(o.arr) = [Seen(a) EXCEPT ![idx + 1] = item]
      BY <1>2, <1>4, SetSeen
    <2>2. CASE SameItemsIn(a, o.arr)
      BY <1>1, <2>2, StepSame DEF Abstract!Calls
    <2>3. CASE /\ idx < a.count /\ o.arr.isize = a.isize /\ o.arr.suspect = a.suspect
               /\ Seen(o.arr) = [Seen(a) EXCEPT ![idx + 1] = item]
      <3>1. Ex(a) /\ Ex(a') /\ Its(a') = [Its(a) EXCEPT ![idx + 1] = item]
        BY <1>1, <1>4, <2>3 DEF Ex, Its, Exists
      <3>2. idx + 1 \in 1 .. Len(Its(a))
        BY <1>2, <2>3, <3>1, Visible
      <3> QED
        BY <1>1, <3>1, <3>2, StepSet
    <2> QED
      BY <2>1, <2>2, <2>3
  <1> QED
    BY <1>3, <1>4

(* array_sort(). *)
LEMMA StepSorted ==
    ASSUME Inv, ArraySort
    PROVE  Abstract!Next
  <1>1. PICK b \in Sort(a) : Return("sort", Outcome(b, OK))
    BY DEF ArraySort
  <1>2. a' = b /\ call' = "sort" /\ call' \in Abstract!Calls /\ Exists(a) /\ Honest(a)
    BY <1>1 DEF Return, Outcome, Abstract!Calls, ArraySort, Inv
  <1>3. CASE a.suspect
    <2>1. ~Ex(a) /\ Its(a) = << >>
      BY <1>3, Unseen
    <2>2. b.suspect = a.suspect
      BY <1>2 DEF Sort, Honest, Arrays
    <2> QED
      BY <1>2, <1>3, <2>1, <2>2, StepSuspect
  <1>4. CASE ~a.suspect
    <2>1. /\ b.isize = a.isize /\ b.suspect = a.suspect
          /\ Seen(b) \in [DOMAIN Seen(a) -> Abstract!Range(Seen(a))]
          /\ Abstract!InOrder(Seen(b))
          /\ \A item \in Items :
                Abstract!Occurrences(Seen(b), item) = Abstract!Occurrences(Seen(a), item)
      BY <1>2, <1>4, SortSeen
    <2>2. Ex(a) /\ Ex(a') /\ Its(a) = Seen(a) /\ Its(a') = Seen(b)
      BY <1>2, <1>4, <2>1 DEF Ex, Its, Exists
    <2> QED
      BY <1>2, <2>1, <2>2, StepSort
  <1> QED
    BY <1>3, <1>4

(* Each call of Array's functions is a call that the sequence allows.      *)
LEMMA NextRefines ==
    ASSUME SmallItems, Inv, Inv', NoneIsEmpty, Next
    PROVE  Abstract!Next
  <1> USE BoundsAssumption
  <1>1. Honest(a) /\ a.count \in Nat /\ a \in Arrays
    BY DEF Inv, Honest, Arrays
  <1>2. ASSUME NEW n \in Indexes PROVE n \in Nat
    BY DEF Indexes
  <1>3. CASE ArrayNew
    <2>1. PICK isize \in ISizes : \E arr \in New(isize) : Make(arr)
      BY <1>3 DEF ArrayNew
    <2>2. isize \in Nat /\ isize <= ChonkSize
      BY DEF SmallItems
    <2> QED
      BY <1>3, <2>1, <2>2, NewSeen, StepMake DEF ArrayNew
  <1>4. CASE ArrayInit
    <2>1. PICK isize \in ISizes : \E arr \in InitArray(isize) : Make(arr)
      BY <1>4 DEF ArrayInit
    <2>2. isize \in Nat /\ isize <= ChonkSize
      BY DEF SmallItems
    <2> QED
      BY <1>4, <2>1, <2>2, InitSeen, StepMake DEF ArrayInit
  <1>5. CASE ArrayFromBuf
    <2>1. PICK isize \in ISizes \ {0}, count \in 0 .. MaxCount :
             \E buf \in [Block(count) -> Items] : Make(FromBuf(isize, buf, count))
      BY <1>5 DEF ArrayFromBuf
    <2>2. PICK buf \in [Block(count) -> Items] : Make(FromBuf(isize, buf, count))
      BY <2>1
    <2>3. FromBuf(isize, buf, count).suspect = TRUE
      BY DEF FromBuf, Empty, NoArray
    <2> QED
      BY <1>5, <2>2, <2>3, StepMake DEF ArrayFromBuf
  <1>6. CASE ArrayRead
    BY <1>6, StepRead
  <1>7. ASSUME NEW isize \in ISizes, NEW n \in 0 .. MaxAlloc, ArrayWithCapacity(isize, n)
        PROVE  Abstract!Next
    <2>1. isize \in Nat /\ isize <= ChonkSize /\ n \in Nat
      BY DEF SmallItems
    <2> QED
      BY <1>7, <2>1, CapacitySeen, StepMake DEF ArrayWithCapacity
  <1>8. ASSUME NEW count \in 0 .. MaxCount, ArrayLoad(count)
        PROVE  Abstract!Next
    BY <1>8, StepLoaded
  <1>9. ASSUME NEW n \in Nat, NEW o \in Realloc(a, n), Return("resize", o)
        PROVE  Abstract!Next
    BY <1>1, <1>9, ReallocHonest, StepSame DEF Abstract!Calls
  <1>10. CASE ArrayRealloc
    <2>1. PICK n \in 0 .. MaxAlloc : \E o \in Realloc(a, n) : Return("resize", o)
      BY <1>10 DEF ArrayRealloc
    <2> QED
      BY <1>9, <2>1
  <1>11. CASE ArrayGrow
    <2>1. PICK o \in Grow(a) : Return("resize", o)
      BY <1>11 DEF ArrayGrow
    <2>2. SameItemsIn(a, o.arr)
      BY <1>1, GrowHonest
    <2> QED
      BY <2>1, <2>2, StepSame DEF Abstract!Calls
  <1>12. CASE ArrayShrink
    BY <1>1, <1>9, <1>12 DEF ArrayShrink, Shrink
  <1>13. CASE ArrayClear
    <2>1. a' = Clear(a) /\ call' = "clear" /\ call' \in Abstract!Calls /\ Exists(a)
      BY <1>13 DEF ArrayClear, Return, Outcome, Abstract!Calls
    <2>2. a'.count = 0 /\ a'.isize = a.isize /\ a'.suspect = a.suspect
      BY <1>1, <2>1, ClearSeen
    <2>3. CASE a.suspect
      BY <2>1, <2>2, <2>3, Unseen, StepSuspect
    <2>4. CASE ~a.suspect
      <3>1. Ex(a) /\ Ex(a') /\ Its(a') = << >>
        BY <2>1, <2>2, <2>4, EmptySeen DEF Ex, Its, Exists
      <3> QED
        BY <2>1, <3>1, StepClear
    <2> QED
      BY <2>3, <2>4
  <1>14. CASE ArrayFree
    <2>1. a' = NoArray /\ call' = "free" /\ call' \in Abstract!Calls /\ Exists(a)
      BY <1>14 DEF ArrayFree, Return, Outcome, Free, Abstract!Calls
    <2>2. CASE a.suspect
      BY <2>1, <2>2, Unseen, StepSuspect
    <2>3. CASE ~a.suspect
      <3>1. Ex(a) /\ ~Ex(a') /\ Its(a') = << >>
        BY <2>1, <2>3, Unseen DEF Ex
      <3> QED
        BY <2>1, <3>1, StepFree
    <2> QED
      BY <2>2, <2>3
  <1>15. ASSUME NEW item \in Items, ArrayAppend(item)
         PROVE  Abstract!Next
    <2>1. PICK o \in AppendItem(a, item) : Return("append", o)
      BY <1>15 DEF ArrayAppend
    <2>2. SameItemsIn(a, o.arr) \/ Inserted(a, item, a.count, o.arr)
      BY <1>1, AppendFine
    <2>3. a' = o.arr /\ call' = "append" /\ Exists(a) /\ a.count < MaxCount
      BY <1>15, <2>1 DEF Return, ArrayAppend
    <2>4. a.count \in 0 .. a.count
      BY <1>1
    <2>5. CASE SameItemsIn(a, o.arr)
      BY <2>1, <2>5, StepSame DEF Abstract!Calls
    <2>6. CASE Inserted(a, item, a.count, o.arr)
      BY <2>3, <2>4, <2>6, InsertedStep
    <2> QED
      BY <2>2, <2>5, <2>6
  <1>16. ASSUME NEW item \in Items, NEW idx \in Indexes, ArrayInsert(item, idx)
         PROVE  Abstract!Next
    <2>1. PICK o \in InsertItem(a, item, idx) : Return("insert", o)
      BY <1>16 DEF ArrayInsert
    <2>2. \/ SameItemsIn(a, o.arr)
          \/ idx <= a.count /\ Inserted(a, item, idx, o.arr)
      BY <1>1, <1>2, InsertFine
    <2>3. a' = o.arr /\ call' = "insert" /\ Exists(a) /\ a.count < MaxCount
      BY <1>16, <2>1 DEF Return, ArrayInsert
    <2>4. CASE SameItemsIn(a, o.arr)
      BY <2>1, <2>4, StepSame DEF Abstract!Calls
    <2>5. CASE idx <= a.count /\ Inserted(a, item, idx, o.arr)
      <3>1. idx \in 0 .. a.count
        BY <1>1, <1>2, <2>5
      <3> QED
        BY <2>3, <2>5, <3>1, InsertedStep
    <2> QED
      BY <2>2, <2>4, <2>5
  <1>17. ASSUME NEW item \in Items, NEW idx \in Indexes, ArraySet(item, idx)
         PROVE  Abstract!Next
    BY <1>17, StepSetItem
  <1>18. ASSUME NEW item \in Items, NEW baseidx \in Indexes, NEW num \in Indexes,
                ArrayInsortRange(item, baseidx, num)
         PROVE  Abstract!Next
    <2>1. PICK o \in InsortRange(a, item, baseidx, num) : Return("insort", o)
      BY <1>18 DEF ArrayInsortRange
    <2>2. \/ SameItemsIn(a, o.arr)
          \/ \E idx \in 0 .. a.count : Inserted(a, item, idx, o.arr)
      BY <1>1, <1>2, InsortFine
    <2>3. a' = o.arr /\ call' = "insort" /\ Exists(a) /\ a.count < MaxCount
      BY <1>18, <2>1 DEF Return, ArrayInsortRange
    <2>4. CASE SameItemsIn(a, o.arr)
      BY <2>1, <2>4, StepSame DEF Abstract!Calls
    <2>5. ASSUME NEW idx \in 0 .. a.count, Inserted(a, item, idx, o.arr)
          PROVE  Abstract!Next
      BY <2>3, <2>5, InsertedStep
    <2> QED
      BY <2>2, <2>4, <2>5
  <1>19. CASE ArraySort
    BY <1>19, StepSorted
  <1> QED
    BY <1>3, <1>4, <1>5, <1>6, <1>7, <1>8, <1>10, <1>11, <1>12, <1>13, <1>14, <1>15, <1>16,
       <1>17, <1>18, <1>19 DEF Next

(* No array is no sequence. *)
LEMMA InitRefines ==
    ASSUME Init
    PROVE  Abstract!Init /\ NoneIsEmpty
  <1>1. ~Ex(NoArray) /\ Its(NoArray) = << >>
    BY Unseen
  <1> QED
    BY <1>1 DEF Init, Abstract!Init, NoneIsEmpty, Ex, Its

(* The sequence keeps no items of an array that is not there.              *)
LEMMA NoneStaysEmpty ==
    ASSUME NoneIsEmpty, [Abstract!Next]_(Abstract!vars)
    PROVE  NoneIsEmpty'
  BY DEF NoneIsEmpty, Ex, Its, Abstract!Next, Abstract!vars, Abstract!Nothing, Abstract!New,
         Abstract!Load, Abstract!Sort, Abstract!Clear, Abstract!Free, Abstract!Push,
         Abstract!Insert, Abstract!Insort, Abstract!Set

(* An Array is a sequence of items, whatever calls are made and whichever  *)
(* of them fail: every step of Array's is a step of SeqArray's, for items  *)
(* of any size up to a chonk and for arrays of any length.                 *)
THEOREM ArrayIsSequence ==
    ASSUME SmallItems
    PROVE  Spec => IsSequence
  <1>1. Init => Abstract!Init /\ NoneIsEmpty
    BY InitRefines
  <1>2. Inv /\ Inv' /\ NoneIsEmpty /\ [Next]_vars => [Abstract!Next]_(Abstract!vars)
    <2>1. UNCHANGED vars => UNCHANGED Abstract!vars
      BY DEF vars, Abstract!vars
    <2> QED
      BY <2>1, NextRefines
  <1>3. NoneIsEmpty /\ [Abstract!Next]_(Abstract!vars) => NoneIsEmpty'
    BY NoneStaysEmpty
  <1>4. Spec => []Inv
    BY InvHolds
  <1> QED
    BY <1>1, <1>2, <1>3, <1>4, PTL DEF Spec, IsSequence, Abstract!Spec
=============================================================================
