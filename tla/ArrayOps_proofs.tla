------------------------------ MODULE ArrayOps_proofs ----------------------
(***************************************************************************)
(* What the functions of array.c leave of an array of items of any size,   *)
(* whichever of them fail: what the code believes of the block is true.    *)
(* For the proofs about Array and about Index, which has two arrays.       *)
(***************************************************************************)
EXTENDS ArrayOps, Bsearchn_proofs, TLAPS

(* The values of a struct Array, and those whose fields tell the truth.    *)
(* The block is never larger than what malloc() can give: that keeps the   *)
(* sizes that array_grow() computes from wrapping.                         *)
Blocks == UNION {[Block(n) -> Items \cup {Garbage}] : n \in Nat}

Arrays == [isize : Nat, count : Nat, allocated : Nat, data : Blocks,
           overrun : BOOLEAN, suspect : BOOLEAN]

Holds(arr) ==
    /\ ~arr.overrun
    /\ DOMAIN arr.data = Block(arr.allocated)
    /\ arr.count <= arr.allocated
    /\ Written(arr, 0, arr.count - 1)
    /\ arr.allocated * arr.isize <= Heap
    /\ arr.isize <= ChonkSize

Honest(arr) == arr \in Arrays /\ (~arr.suspect => Holds(arr))

(* b has the items of arr, though its block may be another. *)
SameItemsIn(arr, b) ==
    /\ b.isize = arr.isize /\ b.count = arr.count /\ b.suspect = arr.suspect
    /\ \A i \in Block(arr.count) : Cell(b, i) = Cell(arr, i)

----------------------------------------------------------------------------
(* No array: nothing to be untrue. *)
LEMMA NoArrayHonest == Honest(NoArray)
  <1>1. Block(0) = {} /\ <<>> \in [Block(0) -> Items \cup {Garbage}]
    BY DEF Block
  <1>2. <<>> \in Blocks
    BY <1>1 DEF Blocks
  <1>3. NoArray \in Arrays
    BY <1>2 DEF NoArray, Arrays
  <1>4. Holds(NoArray)
    BY <1>1, SizesAssumption DEF NoArray, Holds, Written
  <1> QED
    BY <1>3, <1>4 DEF Honest

(* What the cell of a block can hold. *)
LEMMA CellType ==
    ASSUME NEW arr \in Arrays, NEW i
    PROVE  Cell(arr, i) \in Items \cup {Garbage}
  BY DEF Arrays, Blocks, Cell

(* The three ways array_realloc() ends. *)
LEMMA ReallocCases ==
    ASSUME NEW arr \in Arrays, NEW alloc_count \in Nat, NEW o \in Realloc(arr, alloc_count)
    PROVE  \/ o.arr = arr /\ o.ret = -1
           \/ o.arr = arr /\ o.ret = 0 /\ alloc_count = 0
           \/ /\ alloc_count # 0 /\ Exists(arr)
              /\ o.ret = MAX(alloc_count, arr.count)
              /\ o.ret * arr.isize <= Heap
              /\ o.arr = [arr EXCEPT !.allocated = o.ret,
                                     !.data = [i \in Block(o.ret) |-> Cell(arr, i)]]
  <1> DEFINE n == MAX(alloc_count, arr.count)
             moved == [i \in Block(n) |-> Cell(arr, i)]
             big == [arr EXCEPT !.allocated = n, !.data = moved]
  <1>1. CASE ~Exists(arr)
    <2>1. o = [arr |-> arr, ret |-> -1]
      BY <1>1 DEF Realloc, Outcome
    <2> QED
      BY <2>1
  <1>2. CASE Exists(arr) /\ alloc_count = 0
    <2>1. o = [arr |-> arr, ret |-> 0]
      BY <1>2 DEF Realloc, Outcome
    <2> QED
      BY <1>2, <2>1
  <1>3. CASE Exists(arr) /\ alloc_count # 0
    <2>1. o \in {Outcome(arr, -1)} \cup
                (IF n * arr.isize <= Heap THEN {Outcome(big, n)} ELSE {})
      BY <1>3 DEF Realloc
    <2> HIDE DEF n, big
    <2>2. CASE o = Outcome(arr, -1)
      BY <2>2 DEF Outcome
    <2>3. CASE o = Outcome(big, n) /\ n * arr.isize <= Heap
      <3>1. o.ret = n /\ o.arr = big
        BY <2>3 DEF Outcome
      <3> QED
        BY <1>3, <2>3, <3>1 DEF n, big
    <2> QED
      BY <2>1, <2>2, <2>3
  <1> QED
    BY <1>1, <1>2, <1>3

(* array_realloc() leaves a true block with all its items. *)
LEMMA ReallocHonest ==
    ASSUME NEW arr, Honest(arr), NEW alloc_count \in Nat, NEW o \in Realloc(arr, alloc_count)
    PROVE  /\ Honest(o.arr) /\ o.ret \in Int
           /\ SameItemsIn(arr, o.arr)
           /\ o.ret = -1 => o.arr = arr
           /\ o.ret >= -1
           /\ o.ret > 0 => o.arr.allocated = o.ret /\ o.ret >= alloc_count /\ o.ret >= arr.count
           /\ o.ret > 0 => DOMAIN o.arr.data = Block(o.ret)
  <1>1. arr \in Arrays /\ arr.count \in Nat /\ arr.isize \in Nat
    BY DEF Honest, Arrays
  <1>3. ASSUME /\ alloc_count # 0 /\ Exists(arr)
               /\ o.ret = MAX(alloc_count, arr.count)
               /\ o.ret * arr.isize <= Heap
               /\ o.arr = [arr EXCEPT !.allocated = o.ret,
                                      !.data = [i \in Block(o.ret) |-> Cell(arr, i)]]
        PROVE  /\ Honest(o.arr) /\ o.ret \in Nat
               /\ SameItemsIn(arr, o.arr)
               /\ o.arr.allocated = o.ret /\ o.ret >= alloc_count /\ o.ret >= arr.count
               /\ DOMAIN o.arr.data = Block(o.ret)
    <2>1. o.ret \in Nat /\ o.ret >= alloc_count /\ o.ret >= arr.count
      BY <1>1, <1>3 DEF MAX
    <2> DEFINE b == o.arr
               data == [i \in Block(o.ret) |-> Cell(arr, i)]
    <2>2. data \in Blocks
      <3>1. data \in [Block(o.ret) -> Items \cup {Garbage}]
        BY <1>1, CellType
      <3> HIDE DEF data
      <3> QED
        BY <2>1, <3>1 DEF Blocks
    <2>3. b \in Arrays
      <3> HIDE DEF data
      <3> QED
        BY <1>1, <1>3, <2>1, <2>2 DEF Arrays, data
    <2>4. /\ b.isize = arr.isize /\ b.count = arr.count /\ b.overrun = arr.overrun
          /\ b.suspect = arr.suspect /\ b.allocated = o.ret /\ b.data = data
      BY <1>1, <1>3 DEF Arrays
    <2>5. Block(arr.count) \subseteq Block(o.ret)
      BY <1>1, <2>1 DEF Block
    <2>6. \A i \in Block(o.ret) : Cell(b, i) = Cell(arr, i)
      BY <2>4 DEF Cell
    <2>7. SameItemsIn(arr, b)
      BY <2>4, <2>5, <2>6 DEF SameItemsIn
    <2>8. ASSUME ~arr.suspect PROVE Holds(b)
      <3>1. Holds(arr)
        BY <2>8 DEF Honest
      <3>2. Written(b, 0, b.count - 1)
        BY <2>4, <2>5, <2>6, <3>1 DEF Holds, Written, Block
      <3> QED
        BY <1>3, <2>1, <2>4, <3>1, <3>2 DEF Holds
    <2> QED
      BY <2>1, <2>3, <2>4, <2>7, <2>8 DEF Honest
  <1>4. o.arr = arr /\ (o.ret = -1 \/ o.ret = 0)
           => /\ Honest(o.arr) /\ SameItemsIn(arr, o.arr)
              /\ o.ret \in Int /\ o.ret >= -1 /\ ~(o.ret > 0)
    BY DEF SameItemsIn
  <1>5. \/ o.arr = arr /\ (o.ret = -1 \/ o.ret = 0)
        \/ /\ Honest(o.arr) /\ o.ret \in Nat
           /\ SameItemsIn(arr, o.arr)
           /\ o.arr.allocated = o.ret /\ o.ret >= alloc_count /\ o.ret >= arr.count
           /\ DOMAIN o.arr.data = Block(o.ret)
    BY <1>1, <1>3, ReallocCases
  <1>6. o.ret = -1 => o.arr = arr
    BY <1>1, <1>5
  <1> QED
    BY <1>4, <1>5, <1>6

----------------------------------------------------------------------------
(* The sizes that array_grow() computes do not wrap.                       *)
LEMMA NoWrap ==
    ASSUME NEW x \in Nat, x <= SizeMax
    PROVE  Unsigned(x) = x
  BY SizesAssumption DEF Unsigned

(* A non-negative number stays one as a size_t. *)
LEMMA UnsignedType == \A x \in Nat : Unsigned(x) \in Nat
  BY SizesAssumption DEF Unsigned

(* Items of at least a byte are no fewer bytes than items. *)
LEMMA AtLeastOne == \A x \in Nat, y \in Nat \ {0} : x <= x * y /\ x * y \in Nat
  <1> SUFFICES ASSUME NEW x \in Nat, NEW y \in Nat \ {0} PROVE x <= x * y /\ x * y \in Nat
    OBVIOUS
  <1>1. x * y = x + x * (y - 1) /\ y - 1 \in Nat
    OBVIOUS
  <1>2. x * (y - 1) \in Nat
    BY <1>1
  <1> QED
    BY <1>1, <1>2

(* A chonk has room for at least one item that is no larger. *)
LEMMA Quotient ==
    ASSUME NEW x \in Nat, NEW y \in Nat \ {0}
    PROVE  x \div y \in Nat /\ (y <= x => x \div y >= 1)
  OBVIOUS

(* A block that malloc() can return, of items no larger than a chonk *)
InHeap(arr) == arr.isize <= ChonkSize /\ arr.allocated * arr.isize <= Heap

(* array_grow() asks for more than there is, while an item is no larger    *)
(* than a chonk.                                                           *)
LEMMA GrowCases ==
    ASSUME NEW arr \in Arrays, Exists(arr), NEW o \in Grow(arr)
    PROVE  \E n \in Nat : o \in Realloc(arr, n) /\ (InHeap(arr) => n > arr.allocated)
  <1> DEFINE isize == arr.isize
             all == arr.allocated
  <1>1. isize \in Nat \ {0} /\ all \in Nat
    BY DEF Arrays, Exists
  <1>2. InHeap(arr) => isize <= ChonkSize /\ all * isize <= Heap
    BY DEF InHeap
  <1>3. InHeap(arr) => all <= Heap
    BY <1>1, <1>2, AtLeastOne, SizesAssumption
  <1>4. CASE all = 0
    <2>1. o \in Realloc(arr, MAX(4, PageSize \div isize))
      BY <1>4 DEF Grow
    <2>2. MAX(4, PageSize \div isize) \in Nat /\ MAX(4, PageSize \div isize) > 0
      BY <1>1, Quotient, SizesAssumption DEF MAX
    <2> QED
      BY <1>4, <2>1, <2>2
  <1>5. CASE all # 0 /\ Unsigned(all * isize) < ChonkSize
    <2>1. o \in Realloc(arr, Unsigned(2 * all))
      BY <1>5 DEF Grow
    <2>2. Unsigned(2 * all) \in Nat
      BY <1>1, UnsignedType
    <2>3. ASSUME InHeap(arr) PROVE Unsigned(2 * all) > all
      <3>1. 2 * all \in Nat /\ 2 * all <= SizeMax
        BY <1>1, <1>3, <2>3, SizesAssumption
      <3>2. Unsigned(2 * all) = 2 * all
        BY <3>1, NoWrap
      <3> QED
        BY <1>1, <1>5, <3>2
    <2> QED
      BY <2>1, <2>2, <2>3
  <1>6. CASE all # 0 /\ ~(Unsigned(all * isize) < ChonkSize)
    <2> DEFINE q == ChonkSize \div isize
    <2>1. o \in Realloc(arr, Unsigned(all + q))
      BY <1>6 DEF Grow
    <2>2. q \in Nat /\ (isize <= ChonkSize => q >= 1)
      BY <1>1, Quotient, SizesAssumption
    <2>3. q <= ChonkSize
      BY <1>1, SizesAssumption
    <2> HIDE DEF q
    <2>4. Unsigned(all + q) \in Nat
      BY <1>1, <2>2, UnsignedType
    <2>5. ASSUME InHeap(arr) PROVE Unsigned(all + q) > all
      <3>1. all + q \in Nat /\ all + q <= SizeMax
        BY <1>1, <1>3, <2>2, <2>3, <2>5, SizesAssumption
      <3>2. Unsigned(all + q) = all + q
        BY <3>1, NoWrap
      <3> QED
        BY <1>1, <1>2, <2>2, <2>5, <3>2
    <2> QED
      BY <2>1, <2>4, <2>5
  <1> QED
    BY <1>4, <1>5, <1>6

(* array_grow() leaves a true block with all its items. *)
LEMMA GrowHonest ==
    ASSUME NEW arr, Honest(arr), NEW o \in Grow(arr)
    PROVE  /\ Honest(o.arr) /\ SameItemsIn(arr, o.arr)
           /\ o.ret \in Int
           /\ ~arr.suspect /\ arr.count >= arr.allocated /\ o.ret > 0
                 => o.arr.count < o.arr.allocated
  <1>1. CASE ~Exists(arr)
    <2>1. o = [arr |-> arr, ret |-> -1]
      BY <1>1 DEF Grow, Outcome
    <2> QED
      BY <2>1 DEF SameItemsIn
  <1>2. CASE Exists(arr)
    <2>1. PICK n \in Nat : o \in Realloc(arr, n) /\ (~arr.suspect => n > arr.allocated)
      BY <1>2, GrowCases DEF Honest, Holds, InHeap
    <2>2. /\ Honest(o.arr) /\ o.ret \in Int /\ SameItemsIn(arr, o.arr)
          /\ o.ret > 0 => o.arr.allocated = o.ret /\ o.ret >= n
      BY <2>1, ReallocHonest
    <2>3. /\ arr.count \in Nat /\ arr.allocated \in Nat
          /\ ~arr.suspect => arr.count <= arr.allocated
      BY DEF Honest, Arrays, Holds
    <2>4. o.arr.count = arr.count
      BY <2>2 DEF SameItemsIn
    <2> QED
      BY <2>1, <2>2, <2>3, <2>4
  <1> QED
    BY <1>1, <1>2

(* ARRAY_ENSURE_SPACE: there is room for one more item if it says so.      *)
LEMMA SpaceIsThere ==
    ASSUME NEW arr, Honest(arr), NEW o \in EnsureSpace(arr)
    PROVE  /\ Honest(o.arr) /\ SameItemsIn(arr, o.arr)
           /\ o.ret \in BOOLEAN
           /\ o.ret /\ ~arr.suspect => o.arr.count < o.arr.allocated
  <1>1. arr.count \in Nat /\ arr.allocated \in Nat
    BY DEF Honest, Arrays
  <1>2. CASE arr.allocated > arr.count
    <2>1. o = [arr |-> arr, ret |-> TRUE]
      BY <1>2 DEF EnsureSpace, Outcome
    <2> QED
      BY <1>1, <1>2, <2>1 DEF SameItemsIn
  <1>3. CASE ~(arr.allocated > arr.count)
    <2>1. PICK p \in Grow(arr) : o = [arr |-> p.arr, ret |-> p.ret > 0]
      BY <1>3 DEF EnsureSpace, Outcome
    <2>2. o.arr = p.arr /\ o.ret = (p.ret > 0)
      BY <2>1
    <2>3. arr.count >= arr.allocated
      BY <1>1, <1>3
    <2>4. /\ Honest(p.arr) /\ SameItemsIn(arr, p.arr)
          /\ ~arr.suspect /\ arr.count >= arr.allocated /\ p.ret > 0
                => p.arr.count < p.arr.allocated
      BY GrowHonest
    <2>5. (p.ret > 0) \in BOOLEAN
      OBVIOUS
    <2>6. o.ret \in BOOLEAN
      BY <2>2, <2>5
    <2>7. o.ret /\ ~arr.suspect => o.arr.count < o.arr.allocated
      BY <2>2, <2>3, <2>4
    <2> QED
      BY <2>2, <2>4, <2>6, <2>7
  <1> QED
    BY <1>2, <1>3

(* An item put in a block with room for it leaves the block's story true.  *)
LEMMA PutHonest ==
    ASSUME NEW b, Honest(b), NEW item \in Items, NEW idx \in Nat, idx <= b.count,
           ~b.suspect => b.count < b.allocated
    PROVE  /\ Honest(PutAt(b, item, idx))
           /\ PutAt(b, item, idx).count = b.count + 1
           /\ PutAt(b, item, idx).isize = b.isize
           /\ PutAt(b, item, idx).suspect = b.suspect
           /\ ~b.suspect => \A i \in Block(b.count + 1) :
                 Cell(PutAt(b, item, idx), i) =
                    IF i < idx THEN Cell(b, i) ELSE IF i = idx THEN item ELSE Cell(b, i - 1)
  <1> DEFINE put == PutAt(b, item, idx)
             data == [i \in DOMAIN b.data |->
                         CASE i = idx                 -> item
                           [] idx < i /\ i <= b.count -> b.data[i - 1]
                           [] OTHER                   -> b.data[i]]
             over == b.overrun \/ b.count \notin DOMAIN b.data
  <1>1. /\ b \in Arrays /\ b.count \in Nat /\ b.allocated \in Nat /\ b.isize \in Nat
        /\ b.data \in Blocks /\ b.overrun \in BOOLEAN /\ b.suspect \in BOOLEAN
    BY DEF Honest, Arrays
  <1>2. PICK n \in Nat : b.data \in [Block(n) -> Items \cup {Garbage}]
    BY <1>1 DEF Blocks
  <1>3. DOMAIN b.data = Block(n)
    BY <1>2
  <1>4. \A i \in Block(n) : b.data[i] \in Items \cup {Garbage}
    BY <1>2
  <1>5. ASSUME NEW i \in Block(n) PROVE data[i] \in Items \cup {Garbage}
    <2>1. i \in Nat /\ (idx < i => i - 1 \in Block(n))
      BY DEF Block
    <2> QED
      BY <1>3, <1>4, <2>1
  <1>6. data \in [Block(n) -> Items \cup {Garbage}]
    <2>1. data = [i \in Block(n) |-> data[i]]
      BY <1>3
    <2> HIDE DEF data
    <2> QED
      BY <1>5, <2>1
  <1>7. put = [b EXCEPT !.data = data, !.count = b.count + 1, !.overrun = over]
    BY <1>1 DEF PutAt, Arrays
  <1> HIDE DEF data
  <1>8. data \in Blocks /\ over \in BOOLEAN
    BY <1>1, <1>6 DEF Blocks
  <1> HIDE DEF over, put
  <1>9. /\ put \in Arrays /\ put.data = data /\ put.count = b.count + 1 /\ put.overrun = over
        /\ put.isize = b.isize /\ put.allocated = b.allocated /\ put.suspect = b.suspect
    <2>1. put \in Arrays
      <3> DEFINE count == b.count + 1
      <3>1. count \in Nat
        BY <1>1
      <3>2. put = [b EXCEPT !.data = data, !.count = count, !.overrun = over]
        BY <1>7
      <3> HIDE DEF count
      <3> QED
        BY <1>1, <1>8, <3>1, <3>2 DEF Arrays
    <2>2. /\ put.data = data /\ put.count = b.count + 1 /\ put.overrun = over
      BY <1>1, <1>7 DEF Arrays
    <2>3. put.isize = b.isize /\ put.allocated = b.allocated /\ put.suspect = b.suspect
      BY <1>1, <1>7 DEF Arrays
    <2> QED
      BY <2>1, <2>2, <2>3
  <1>10. ASSUME ~b.suspect
         PROVE  /\ Holds(put)
                /\ \A i \in Block(b.count + 1) :
                      Cell(put, i) =
                         IF i < idx THEN Cell(b, i) ELSE IF i = idx THEN item ELSE Cell(b, i - 1)
    <2>1. Holds(b) /\ b.count < b.allocated
      BY <1>10 DEF Honest
    <2>2. DOMAIN b.data = Block(b.allocated) /\ DOMAIN data = Block(b.allocated)
      BY <1>3, <1>6, <2>1 DEF Holds
    <2>3. over = FALSE
      BY <1>1, <2>1, <2>2 DEF over, Holds, Block
    <2>4. ASSUME NEW i \in Block(b.count + 1)
          PROVE  Cell(put, i) =
                    IF i < idx THEN Cell(b, i) ELSE IF i = idx THEN item ELSE Cell(b, i - 1)
      <3>1. i \in Nat /\ i <= b.count /\ i \in Block(b.allocated)
            /\ (i > idx => i - 1 \in Block(b.allocated))
        BY <1>1, <2>1 DEF Block
      <3>2. Cell(put, i) = data[i]
        BY <1>9, <2>2, <3>1 DEF Cell
      <3>3. data[i] = IF i = idx THEN item
                      ELSE IF i > idx THEN b.data[i - 1] ELSE b.data[i]
        BY <2>2, <3>1 DEF data
      <3> QED
        BY <2>2, <3>1, <3>2, <3>3 DEF Cell
    <2>5. Written(put, 0, put.count - 1)
      <3>1. ASSUME NEW i \in 0 .. put.count - 1 PROVE Cell(put, i) \in Items
        <4>1. i \in Block(b.count + 1) /\ i \in Nat /\ i <= b.count
          BY <1>1, <1>9, <3>1 DEF Block
        <4>2. (i < idx => Cell(b, i) \in Items) /\ (i > idx => Cell(b, i - 1) \in Items)
          BY <1>1, <2>1, <4>1 DEF Holds, Written
        <4> QED
          BY <2>4, <4>1, <4>2
      <3> QED
        BY <3>1 DEF Written
    <2> QED
      BY <1>1, <1>9, <2>1, <2>2, <2>3, <2>4, <2>5 DEF Holds
  <1>11. Honest(put)
    BY <1>9, <1>10 DEF Honest
  <1> QED
    BY <1>9, <1>10, <1>11 DEF put

----------------------------------------------------------------------------
(* What the functions promise that work on an array: what is left is an    *)
(* array whose fields tell the truth, and a failure changes no item.       *)
Fine(arr, o) ==
    /\ Honest(o.arr) /\ o.ret \in Int
    /\ o.ret = -1 /\ Exists(o.arr) => SameItemsIn(arr, o.arr)

(* b is arr with item inserted at idx. *)
Inserted(arr, item, idx, b) ==
    /\ b.count = arr.count + 1 /\ b.isize = arr.isize /\ b.suspect = arr.suspect
    /\ ~arr.suspect => \A i \in Block(b.count) :
          Cell(b, i) = IF i < idx THEN Cell(arr, i)
                       ELSE IF i = idx THEN item ELSE Cell(arr, i - 1)

(* An item is put where array_append() and array_insert() want it once     *)
(* there is space, or nothing is.                                          *)
LEMMA SpacePut ==
    ASSUME NEW arr, Honest(arr), NEW item \in Items, NEW idx \in Nat, idx <= arr.count,
           NEW s \in EnsureSpace(arr)
    PROVE  /\ Honest(s.arr) /\ SameItemsIn(arr, s.arr)
           /\ s.ret \in BOOLEAN
           /\ ~arr.suspect /\ arr.count < arr.allocated => s.ret
           /\ s.ret => /\ Honest(PutAt(s.arr, item, idx))
                       /\ Inserted(arr, item, idx, PutAt(s.arr, item, idx))
  <1>1. /\ Honest(s.arr) /\ SameItemsIn(arr, s.arr) /\ s.ret \in BOOLEAN
        /\ s.ret /\ ~arr.suspect => s.arr.count < s.arr.allocated
    BY SpaceIsThere
  <1>2. s.arr.count = arr.count /\ s.arr.suspect = arr.suspect /\ arr.count \in Nat
        /\ arr.allocated \in Nat
    BY <1>1 DEF SameItemsIn, Honest, Arrays
  <1>3. arr.count < arr.allocated => s.ret
    BY <1>2 DEF EnsureSpace, Outcome
  <1>4. ASSUME s.ret
        PROVE  /\ Honest(PutAt(s.arr, item, idx))
               /\ Inserted(arr, item, idx, PutAt(s.arr, item, idx))
    <2> DEFINE put == PutAt(s.arr, item, idx)
    <2>1. ~s.arr.suspect => s.arr.count < s.arr.allocated
      BY <1>1, <1>2, <1>4
    <2>2. /\ Honest(put) /\ put.count = s.arr.count + 1
          /\ put.isize = s.arr.isize /\ put.suspect = s.arr.suspect
          /\ ~s.arr.suspect => \A i \in Block(s.arr.count + 1) :
                Cell(put, i) = IF i < idx THEN Cell(s.arr, i)
                               ELSE IF i = idx THEN item ELSE Cell(s.arr, i - 1)
      BY <1>1, <1>2, <2>1, PutHonest
    <2> HIDE DEF put
    <2>3. Inserted(arr, item, idx, put)
      <3>1. ASSUME ~arr.suspect, NEW i \in Block(arr.count + 1)
            PROVE  Cell(put, i) = IF i < idx THEN Cell(arr, i)
                                  ELSE IF i = idx THEN item ELSE Cell(arr, i - 1)
        <4>1. /\ i < idx => i \in Block(arr.count)
              /\ i > idx => i - 1 \in Block(arr.count)
              /\ i \in Int
          BY <1>2 DEF Block
        <4>2. /\ i < idx => Cell(s.arr, i) = Cell(arr, i)
              /\ i > idx => Cell(s.arr, i - 1) = Cell(arr, i - 1)
          BY <1>1, <4>1 DEF SameItemsIn
        <4> QED
          BY <1>2, <2>2, <3>1, <4>1, <4>2
      <3> QED
        BY <1>1, <1>2, <2>2, <3>1 DEF Inserted, SameItemsIn
    <2> QED
      BY <2>2, <2>3 DEF put
  <1> QED
    BY <1>1, <1>3, <1>4

(* array_append() *)
LEMMA AppendFine ==
    ASSUME NEW arr, Honest(arr), NEW item \in Items, NEW o \in AppendItem(arr, item)
    PROVE  /\ Fine(arr, o)
           /\ SameItemsIn(arr, o.arr) \/ Inserted(arr, item, arr.count, o.arr)
           /\ ~arr.suspect /\ arr.count < arr.allocated
                 => Inserted(arr, item, arr.count, o.arr)
  <1>1. PICK s \in EnsureSpace(arr) :
            o = IF s.ret THEN Outcome(PutAt(s.arr, item, s.arr.count), s.arr.count)
                ELSE Outcome(s.arr, -1)
    BY DEF AppendItem
  <1>2. arr.count \in Nat
    BY DEF Honest, Arrays
  <1>3. /\ Honest(s.arr) /\ SameItemsIn(arr, s.arr)
        /\ ~arr.suspect /\ arr.count < arr.allocated => s.ret
        /\ s.ret => /\ Honest(PutAt(s.arr, item, arr.count))
                    /\ Inserted(arr, item, arr.count, PutAt(s.arr, item, arr.count))
    BY <1>2, SpacePut
  <1>4. s.arr.count = arr.count
    BY <1>3 DEF SameItemsIn
  <1>5. CASE s.ret
    <2>1. o.arr = PutAt(s.arr, item, arr.count) /\ o.ret = arr.count
      BY <1>1, <1>4, <1>5 DEF Outcome
    <2> QED
      BY <1>2, <1>3, <1>5, <2>1 DEF Fine
  <1>6. CASE ~s.ret
    <2>1. o.arr = s.arr /\ o.ret = -1
      BY <1>1, <1>6 DEF Outcome
    <2> QED
      BY <1>3, <1>6, <2>1 DEF Fine
  <1> QED
    BY <1>5, <1>6

(* array_insert() *)
LEMMA InsertFine ==
    ASSUME NEW arr, Honest(arr), NEW item \in Items, NEW idx \in Nat,
           NEW o \in InsertItem(arr, item, idx)
    PROVE  /\ Fine(arr, o)
           /\ SameItemsIn(arr, o.arr) \/ (idx <= arr.count /\ Inserted(arr, item, idx, o.arr))
           /\ ~arr.suspect /\ arr.count < arr.allocated /\ idx <= arr.count
                 => Inserted(arr, item, idx, o.arr)
  <1>1. arr.count \in Nat
    BY DEF Honest, Arrays
  <1>2. CASE idx = arr.count
    <2>1. o \in AppendItem(arr, item)
      BY <1>2 DEF InsertItem
    <2> QED
      BY <1>2, <2>1, AppendFine
  <1>3. CASE idx > arr.count
    <2>1. idx # arr.count /\ ~(idx < arr.count) /\ ~(idx <= arr.count)
      BY <1>1, <1>3
    <2>2. o \in {Outcome(arr, -1)}
      BY <1>3, <2>1, Zenon DEF InsertItem
    <2>3. o.arr = arr /\ o.ret = -1
      BY <2>2 DEF Outcome
    <2> QED
      BY <2>1, <2>3 DEF Fine, SameItemsIn
  <1>4. CASE idx < arr.count
    <2>1. idx # arr.count /\ ~(idx > arr.count) /\ idx <= arr.count
      BY <1>1, <1>4
    <2>2. o \in {IF s.ret THEN Outcome(PutAt(s.arr, item, idx), s.arr.count + 1)
                 ELSE Outcome(s.arr, -1) : s \in EnsureSpace(arr)}
      BY <1>4, <2>1, Zenon DEF InsertItem
    <2>3. PICK s \in EnsureSpace(arr) :
              o = IF s.ret THEN Outcome(PutAt(s.arr, item, idx), s.arr.count + 1)
                  ELSE Outcome(s.arr, -1)
      BY <2>2
    <2>4. /\ Honest(s.arr) /\ SameItemsIn(arr, s.arr)
          /\ ~arr.suspect /\ arr.count < arr.allocated => s.ret
          /\ s.ret => /\ Honest(PutAt(s.arr, item, idx))
                      /\ Inserted(arr, item, idx, PutAt(s.arr, item, idx))
      BY <2>1, SpacePut
    <2>5. s.arr.count = arr.count
      BY <2>4 DEF SameItemsIn
    <2>6. CASE s.ret
      <3>1. o.arr = PutAt(s.arr, item, idx) /\ o.ret = arr.count + 1
        BY <2>3, <2>5, <2>6 DEF Outcome
      <3> QED
        BY <1>1, <2>1, <2>4, <2>6, <3>1 DEF Fine
    <2>7. CASE ~s.ret
      <3>1. o.arr = s.arr /\ o.ret = -1
        BY <2>3, <2>7 DEF Outcome
      <3> QED
        BY <2>4, <2>7, <3>1 DEF Fine
    <2> QED
      BY <2>6, <2>7
  <1> QED
    BY <1>1, <1>2, <1>3, <1>4

(* Where array_insort_range() may insert is in the range. *)
LEMMA PlacesInRange ==
    ASSUME NEW arr, NEW item \in Items, NEW baseidx \in Nat, NEW num \in Nat,
           NEW idx \in InsortPlaces(arr, item, baseidx, num)
    PROVE  idx \in baseidx .. baseidx + num
  <1>1. CASE num = 0
    BY <1>1 DEF InsortPlaces
  <1>2. CASE num # 0 /\ Written(arr, baseidx, baseidx + num - 1)
    <2>1. idx = BisectSearch(item, arr.data)[<<baseidx, num>>] /\ <<baseidx, num>> \in Windows
      <3>1. idx = Bisect(item, arr.data, baseidx, baseidx + num)
        BY <1>2 DEF InsortPlaces
      <3> QED
        BY <3>1, Calls, ZenonT(60)
    <2>2. item \in Int
      BY ItemsAssumption
    <2>3. Leftmost(item, arr.data, <<baseidx, num>>, idx)
      BY <2>1, <2>2, BisectIsExact
    <2> QED
      BY <2>3 DEF Leftmost
  <1>3. CASE num # 0 /\ ~Written(arr, baseidx, baseidx + num - 1)
    BY <1>3 DEF InsortPlaces
  <1> QED
    BY <1>1, <1>2, <1>3

(* array_insort_range(): an insertion, or a failure. *)
InsortEnds(arr, item, baseidx, num, o) ==
    \E s \in EnsureSpace(arr) :
       \/ o.arr = s.arr /\ o.ret = -1
       \/ /\ s.ret
          /\ \E idx \in InsortPlaces(s.arr, item, baseidx, num) :
                \E p \in InsertItem(s.arr, item, idx) : o.arr = p.arr /\ o.ret = idx

(* array_insort_range() inserts in the range or fails. *)
LEMMA InsortCases ==
    ASSUME NEW arr, Honest(arr), NEW item \in Items, NEW baseidx \in Nat, NEW num \in Nat,
           NEW o \in InsortRange(arr, item, baseidx, num)
    PROVE  InsortEnds(arr, item, baseidx, num, o)
  <1>1. PICK s \in EnsureSpace(arr) :
          o \in IF ~s.ret \/ baseidx > s.arr.count THEN {Outcome(s.arr, -1)}
                ELSE UNION {{Outcome(p.arr, idx) : p \in InsertItem(s.arr, item, idx)} :
                               idx \in InsortPlaces(s.arr, item, baseidx, num)}
    BY DEF InsortRange
  <1>2. CASE ~s.ret \/ baseidx > s.arr.count
    <2>1. o = Outcome(s.arr, -1)
      BY <1>1, <1>2
    <2> QED
      BY <2>1 DEF Outcome, InsortEnds
  <1>3. CASE ~(~s.ret \/ baseidx > s.arr.count)
    <2>1. PICK idx \in InsortPlaces(s.arr, item, baseidx, num) :
             \E p \in InsertItem(s.arr, item, idx) : o = Outcome(p.arr, idx)
      BY <1>1, <1>3
    <2>2. PICK p \in InsertItem(s.arr, item, idx) : o = Outcome(p.arr, idx)
      BY <2>1
    <2>3. o.arr = p.arr /\ o.ret = idx
      BY <2>2 DEF Outcome
    <2>4. s.ret
      BY <1>3, SpaceIsThere
    <2> QED
      BY <2>2, <2>3, <2>4 DEF InsortEnds
  <1> QED
    BY <1>2, <1>3

(* array_insort() and array_insort_range() keep the block true. *)
LEMMA InsortFine ==
    ASSUME NEW arr, Honest(arr), NEW item \in Items, NEW baseidx \in Nat, NEW num \in Nat,
           NEW o \in InsortRange(arr, item, baseidx, num)
    PROVE  /\ Fine(arr, o)
           /\ \/ SameItemsIn(arr, o.arr)
              \/ \E idx \in 0 .. arr.count : Inserted(arr, item, idx, o.arr)
  <1>1. PICK s \in EnsureSpace(arr) :
              \/ o.arr = s.arr /\ o.ret = -1
              \/ /\ s.ret
                 /\ \E idx \in InsortPlaces(s.arr, item, baseidx, num) :
                       \E p \in InsertItem(s.arr, item, idx) : o.arr = p.arr /\ o.ret = idx
    <2>1. InsortEnds(arr, item, baseidx, num, o)
      BY InsortCases
    <2> QED
      BY <2>1 DEF InsortEnds
  <1>2. Honest(s.arr) /\ SameItemsIn(arr, s.arr)
    BY SpaceIsThere
  <1>3. CASE o.arr = s.arr /\ o.ret = -1
    BY <1>2, <1>3 DEF Fine
  <1>4. ASSUME NEW idx \in InsortPlaces(s.arr, item, baseidx, num),
               NEW p \in InsertItem(s.arr, item, idx), o.arr = p.arr, o.ret = idx
        PROVE  /\ Fine(arr, o)
               /\ \/ SameItemsIn(arr, o.arr)
                  \/ \E i \in 0 .. arr.count : Inserted(arr, item, i, o.arr)
    <2>1. idx \in Nat
      BY PlacesInRange
    <2>2. /\ Honest(p.arr)
          /\ \/ SameItemsIn(s.arr, p.arr)
             \/ idx <= s.arr.count /\ Inserted(s.arr, item, idx, p.arr)
      BY <1>2, <2>1, InsertFine DEF Fine
    <2>3. Fine(arr, o)
      BY <1>4, <2>1, <2>2 DEF Fine
    <2>4. s.arr.count = arr.count /\ arr.count \in Nat /\ s.arr.suspect = arr.suspect
      BY <1>2 DEF SameItemsIn, Honest, Arrays
    <2>5. CASE SameItemsIn(s.arr, p.arr)
      <3>1. SameItemsIn(arr, p.arr)
        BY <1>2, <2>5 DEF SameItemsIn
      <3> QED
        BY <1>4, <2>3, <3>1
    <2>6. CASE idx <= s.arr.count /\ Inserted(s.arr, item, idx, p.arr)
      <3>1. ASSUME ~arr.suspect, NEW i \in Block(arr.count + 1)
            PROVE  Cell(p.arr, i) = IF i < idx THEN Cell(arr, i)
                                    ELSE IF i = idx THEN item ELSE Cell(arr, i - 1)
        <4>1. Cell(p.arr, i) = IF i < idx THEN Cell(s.arr, i)
                               ELSE IF i = idx THEN item ELSE Cell(s.arr, i - 1)
          BY <2>4, <2>6, <3>1 DEF Inserted
        <4>2. /\ i < idx => i \in Block(arr.count)
              /\ i > idx => i - 1 \in Block(arr.count)
              /\ i \in Int
          BY <2>1, <2>4, <2>6 DEF Block
        <4>3. /\ i < idx => Cell(s.arr, i) = Cell(arr, i)
              /\ i > idx => Cell(s.arr, i - 1) = Cell(arr, i - 1)
          BY <1>2, <4>2 DEF SameItemsIn
        <4> QED
          BY <2>1, <4>1, <4>2, <4>3
      <3>2. /\ p.arr.count = arr.count + 1 /\ p.arr.isize = arr.isize
            /\ p.arr.suspect = arr.suspect
        BY <1>2, <2>6 DEF Inserted, SameItemsIn
      <3>3. Inserted(arr, item, idx, p.arr)
        BY <3>1, <3>2 DEF Inserted
      <3>4. idx \in 0 .. arr.count
        BY <2>1, <2>4, <2>6
      <3> QED
        BY <1>4, <2>3, <3>3, <3>4
    <2> QED
      BY <2>2, <2>5, <2>6
  <1> QED
    BY <1>1, <1>3, <1>4

(* array_set() *)
LEMMA SetFine ==
    ASSUME NEW arr, Honest(arr), NEW item \in Items, NEW idx \in Nat
    PROVE  Fine(arr, SetItem(arr, item, idx))
  <1> DEFINE o == SetItem(arr, item, idx)
             data == [i \in DOMAIN arr.data |-> IF i = idx THEN item ELSE arr.data[i]]
             over == arr.overrun \/ idx \notin DOMAIN arr.data
             set == [arr EXCEPT !.data = data, !.overrun = over]
  <1>1. /\ arr \in Arrays /\ arr.count \in Nat /\ arr.allocated \in Nat
        /\ arr.data \in Blocks /\ arr.overrun \in BOOLEAN /\ arr.suspect \in BOOLEAN
    BY DEF Honest, Arrays
  <1>2. CASE idx >= arr.count
    <2>1. o = [arr |-> arr, ret |-> -1]
      BY <1>2 DEF SetItem, Outcome, Null
    <2> QED
      BY <2>1 DEF Fine, SameItemsIn
  <1>3. CASE ~(idx >= arr.count)
    <2>1. o = Outcome(set, OK)
      BY <1>1, <1>3 DEF SetItem, Arrays
    <2>2. PICK n \in Nat : arr.data \in [Block(n) -> Items \cup {Garbage}]
      BY <1>1 DEF Blocks
    <2>3. data \in [Block(n) -> Items \cup {Garbage}]
      BY <2>2
    <2> HIDE DEF data
    <2>4. data \in Blocks /\ over \in BOOLEAN
      BY <1>1, <2>3 DEF Blocks
    <2> HIDE DEF over
    <2>5. set \in Arrays
      BY <1>1, <2>4 DEF Arrays
    <2>6. /\ set.data = data /\ set.count = arr.count /\ set.overrun = over
          /\ set.isize = arr.isize /\ set.allocated = arr.allocated /\ set.suspect = arr.suspect
      BY <1>1 DEF Arrays
    <2> HIDE DEF set
    <2>7. ASSUME ~arr.suspect PROVE Holds(set)
      <3>1. Holds(arr)
        BY <2>7 DEF Honest
      <3>2. DOMAIN arr.data = Block(arr.allocated) /\ DOMAIN data = Block(arr.allocated)
        BY <2>2, <2>3, <3>1 DEF Holds
      <3>3. over = FALSE
        BY <1>1, <1>3, <3>1, <3>2 DEF over, Holds, Block
      <3>4. Written(set, 0, set.count - 1)
        <4>1. ASSUME NEW i \in 0 .. arr.count - 1 PROVE Cell(set, i) \in Items
          <5>1. i \in Block(arr.allocated)
            BY <1>1, <3>1 DEF Holds, Block
          <5>2. Cell(arr, i) \in Items
            BY <3>1 DEF Holds, Written
          <5>3. data[i] \in Items
            BY <3>2, <5>1, <5>2 DEF data, Cell
          <5> QED
            BY <2>6, <3>2, <5>1, <5>3 DEF Cell
        <4> QED
          BY <2>6, <4>1 DEF Written
      <3> QED
        BY <2>6, <3>1, <3>2, <3>3, <3>4 DEF Holds
    <2>8. Honest(set)
      BY <2>5, <2>6, <2>7 DEF Honest
    <2>9. o.arr = set /\ o.ret = 0
      BY <2>1 DEF Outcome, OK
    <2> QED
      BY <2>8, <2>9 DEF Fine
  <1> QED
    BY <1>2, <1>3

(* array_clear(), array_free(), and array_new() *)
LEMMA EmptyHonest ==
    ASSUME NEW isize \in Nat, isize <= ChonkSize
    PROVE  Honest(Empty(isize))
  <1>1. /\ NoArray \in Arrays /\ Holds(NoArray)
        /\ NoArray.suspect = FALSE
    BY NoArrayHonest DEF Honest, NoArray
  <1>2. /\ Empty(isize) \in Arrays
        /\ Empty(isize).isize = isize /\ Empty(isize).count = 0 /\ Empty(isize).allocated = 0
        /\ Empty(isize).data = <<>> /\ Empty(isize).overrun = FALSE
        /\ Empty(isize).suspect = FALSE
    BY <1>1 DEF Empty, NoArray, Arrays
  <1>3. DOMAIN <<>> = Block(0) /\ Block(0) = {}
    BY DEF Block
  <1>4. Written(Empty(isize), 0, Empty(isize).count - 1)
    BY <1>2 DEF Written
  <1>5. 0 * isize = 0
    OBVIOUS
  <1>6. Holds(Empty(isize))
    BY <1>2, <1>3, <1>4, <1>5, SizesAssumption DEF Holds
  <1> QED
    BY <1>2, <1>6 DEF Honest

(* What array_clear() and array_free() leave is true. *)
LEMMA ClearHonest ==
    ASSUME NEW arr, Honest(arr)
    PROVE  Honest(Clear(arr))
  <1>1. arr \in Arrays /\ arr.isize \in Nat /\ arr.overrun \in BOOLEAN /\ arr.suspect \in BOOLEAN
    BY DEF Honest, Arrays
  <1>2. <<>> \in Blocks
    BY NoArrayHonest DEF Honest, NoArray, Arrays
  <1>3. /\ Clear(arr) \in Arrays
        /\ Clear(arr).isize = arr.isize /\ Clear(arr).count = 0 /\ Clear(arr).allocated = 0
        /\ Clear(arr).data = <<>> /\ Clear(arr).overrun = arr.overrun
        /\ Clear(arr).suspect = arr.suspect
    BY <1>1, <1>2 DEF Clear, Arrays
  <1>4. DOMAIN <<>> = Block(0) /\ Block(0) = {}
    BY DEF Block
  <1>5. Written(Clear(arr), 0, Clear(arr).count - 1)
    BY <1>3 DEF Written
  <1>6. 0 * arr.isize = 0
    BY <1>1
  <1>7. ~arr.suspect => Holds(Clear(arr))
    BY <1>3, <1>4, <1>5, <1>6, SizesAssumption DEF Honest, Holds
  <1> QED
    BY <1>3, <1>7 DEF Honest

(* array_load(): all of the file, or it is known or suspected that not.    *)
LEMMA LoadedHonest ==
    ASSUME NEW b, Honest(b), NEW count \in Nat, ~b.suspect => count <= b.allocated,
           NEW file \in [Block(count) -> Items], NEW k \in Nat, k <= count,
           NEW suspect \in BOOLEAN, b.suspect => suspect, ~suspect => k = count
    PROVE  Honest([b EXCEPT !.data = ReadInto(b, file, k), !.count = count,
                            !.suspect = suspect])
  <1> DEFINE data == ReadInto(b, file, k)
             load == [b EXCEPT !.data = data, !.count = count, !.suspect = suspect]
  <1>1. b \in Arrays /\ b.data \in Blocks /\ b.suspect \in BOOLEAN
    BY DEF Honest, Arrays
  <1>2. PICK n \in Nat : b.data \in [Block(n) -> Items \cup {Garbage}]
    BY <1>1 DEF Blocks
  <1>3. ASSUME NEW i \in Block(n)
        PROVE  (IF i < k THEN file[i] ELSE b.data[i]) \in Items \cup {Garbage}
    <2>1. i < k => i \in Block(count)
      BY DEF Block
    <2> QED
      BY <1>2, <2>1
  <1>4. data \in [Block(n) -> Items \cup {Garbage}]
    BY <1>2, <1>3 DEF ReadInto
  <1>5. \A i \in DOMAIN b.data : i < k => data[i] = file[i]
    BY DEF ReadInto
  <1> HIDE DEF data
  <1>6. data \in Blocks
    BY <1>4 DEF Blocks
  <1>7. /\ load \in Arrays
        /\ load.data = data /\ load.count = count /\ load.suspect = suspect
        /\ load.isize = b.isize /\ load.allocated = b.allocated /\ load.overrun = b.overrun
    BY <1>1, <1>6 DEF Arrays
  <1> HIDE DEF load
  <1>8. ASSUME ~suspect PROVE Holds(load)
    <2>1. Holds(b) /\ k = count /\ count <= b.allocated
      BY <1>8 DEF Honest
    <2>2. DOMAIN b.data = Block(b.allocated) /\ DOMAIN data = Block(b.allocated)
      BY <1>2, <1>4, <2>1 DEF Holds
    <2>3. ASSUME NEW i \in 0 .. count - 1 PROVE Cell(load, i) \in Items
      <3>1. i \in Block(b.allocated) /\ i \in Block(count) /\ i < k
        BY <1>1, <2>1 DEF Block, Arrays
      <3>2. data[i] = file[i] /\ file[i] \in Items
        BY <1>5, <2>2, <3>1
      <3> QED
        BY <1>7, <2>2, <3>1, <3>2 DEF Cell
    <2>4. Written(load, 0, load.count - 1)
      BY <1>7, <2>3 DEF Written
    <2> QED
      BY <1>7, <2>1, <2>2, <2>4 DEF Holds
  <1>9. Honest(load)
    BY <1>7, <1>8 DEF Honest
  <1> QED
    BY <1>9 DEF load, data

LoadEnds(arr, count, file, o) ==
    \E p \in Realloc(arr, count) :
       \/ p.ret # count /\ o = Outcome(p.arr, Null)
       \/ /\ p.ret = count
          /\ \/ o = ReadAll(p.arr, file, count)
             \/ o = Outcome(NoArray, Null)
             \/ \E k \in 0 .. count - 1 :
                   o = Outcome([p.arr EXCEPT !.data = ReadInto(p.arr, file, k),
                                             !.count = count, !.suspect = TRUE], OK)

(* The three ways array_load() ends. *)
LEMMA LoadCases ==
    ASSUME NEW arr, Exists(arr), NEW count \in Nat, NEW file, NEW o \in Load(arr, file, count)
    PROVE  LoadEnds(arr, count, file, o)
  <1>1. PICK p \in Realloc(arr, count) :
           o \in IF p.ret # count THEN {Outcome(p.arr, Null)}
                 ELSE {ReadAll(p.arr, file, count)} \cup
                      {ReadShort(p.arr) : k \in 0 .. count - 1} \cup
                      {ReadFailed(p.arr, file, k, count) : k \in 0 .. count - 1}
    BY DEF Load
  <1>2. CASE p.ret # count
    BY <1>1, <1>2 DEF LoadEnds
  <1>3. CASE p.ret = count
    <2>1. \/ o = ReadAll(p.arr, file, count)
          \/ o = ReadShort(p.arr)
          \/ \E k \in 0 .. count - 1 : o = ReadFailed(p.arr, file, k, count)
      BY <1>1, <1>3
    <2>2. ReadShort(p.arr) = Outcome(NoArray, Null)
      BY DEF ReadShort, Free
    <2>3. \A k : \/ ReadFailed(p.arr, file, k, count) = Outcome(NoArray, Null)
                 \/ ReadFailed(p.arr, file, k, count)
                       = Outcome([p.arr EXCEPT !.data = ReadInto(p.arr, file, k),
                                               !.count = count, !.suspect = TRUE], OK)
      BY DEF ReadFailed, Free
    <2> QED
      BY <1>3, <2>1, <2>2, <2>3 DEF LoadEnds
  <1> QED
    BY <1>2, <1>3

(* array_load() leaves a true block, or a suspect array. *)
LEMMA LoadFine ==
    ASSUME NEW arr, Honest(arr), NEW count \in Nat, NEW file \in [Block(count) -> Items],
           NEW o \in Load(arr, file, count)
    PROVE  Fine(arr, o)
  <1>1. CASE ~Exists(arr)
    <2>1. o = [arr |-> arr, ret |-> -1]
      BY <1>1 DEF Load, Outcome, Null
    <2> QED
      BY <2>1 DEF Fine, SameItemsIn
  <1>2. CASE Exists(arr)
    <2>1. PICK p \in Realloc(arr, count) :
              \/ p.ret # count /\ o = Outcome(p.arr, Null)
              \/ /\ p.ret = count
                 /\ \/ o = ReadAll(p.arr, file, count)
                    \/ o = Outcome(NoArray, Null)
                    \/ \E k \in 0 .. count - 1 :
                          o = Outcome([p.arr EXCEPT !.data = ReadInto(p.arr, file, k),
                                                    !.count = count, !.suspect = TRUE], OK)
      <3>1. LoadEnds(arr, count, file, o)
        BY <1>2, LoadCases
      <3> QED
        BY <3>1 DEF LoadEnds
    <2>2. /\ Honest(p.arr) /\ SameItemsIn(arr, p.arr)
          /\ p.ret > 0 => p.arr.allocated = p.ret
      BY ReallocHonest
    <2>3. p.arr \in Arrays /\ p.arr.suspect \in BOOLEAN /\ p.arr.allocated \in Nat
      BY <2>2 DEF Honest, Arrays
    <2>4. p.ret = count => count <= p.arr.allocated
      BY <2>2, <2>3
    <2>5. CASE o = Outcome(p.arr, Null)
      <3>1. o.arr = p.arr /\ o.ret = -1
        BY <2>5 DEF Outcome, Null
      <3> QED
        BY <2>2, <3>1 DEF Fine
    <2>6. CASE o = Outcome(NoArray, Null)
      <3>1. o.arr = NoArray /\ o.ret = -1
        BY <2>6 DEF Outcome, Null
      <3> QED
        BY <3>1, NoArrayHonest DEF Fine, Exists, NoArray
    <2>7. CASE p.ret = count /\ o = ReadAll(p.arr, file, count)
      <3>1. Honest([p.arr EXCEPT !.data = ReadInto(p.arr, file, count), !.count = count,
                                 !.suspect = p.arr.suspect])
        <4>1. count \in Nat /\ count <= count
          OBVIOUS
        <4>2. CASE p.arr.suspect = TRUE
          <5>1. Honest([p.arr EXCEPT !.data = ReadInto(p.arr, file, count),
                                     !.count = count, !.suspect = TRUE])
            BY <2>2, <4>1, <4>2, LoadedHonest
          <5> QED
            BY <4>2, <5>1
        <4>3. CASE p.arr.suspect = FALSE
          <5>1. Honest([p.arr EXCEPT !.data = ReadInto(p.arr, file, count),
                                     !.count = count, !.suspect = FALSE])
            BY <2>2, <2>4, <2>7, <4>1, <4>3, LoadedHonest
          <5> QED
            BY <4>3, <5>1
        <4> QED
          BY <2>3, <4>2, <4>3
      <3>2. [p.arr EXCEPT !.data = ReadInto(p.arr, file, count), !.count = count,
                          !.suspect = p.arr.suspect]
              = [p.arr EXCEPT !.data = ReadInto(p.arr, file, count), !.count = count]
        BY <2>3 DEF Arrays
      <3>3. o.arr = [p.arr EXCEPT !.data = ReadInto(p.arr, file, count), !.count = count]
            /\ o.ret = 0
        BY <2>7 DEF ReadAll, Outcome, OK
      <3> QED
        BY <3>1, <3>2, <3>3 DEF Fine
    <2>8. ASSUME p.ret = count, NEW k \in 0 .. count - 1,
                 o = Outcome([p.arr EXCEPT !.data = ReadInto(p.arr, file, k),
                                           !.count = count, !.suspect = TRUE], OK)
          PROVE  Fine(arr, o)
      <3>1. k \in Nat /\ k <= count
        OBVIOUS
      <3>2. Honest([p.arr EXCEPT !.data = ReadInto(p.arr, file, k), !.count = count,
                                 !.suspect = TRUE])
        BY <2>2, <2>4, <2>8, <3>1, LoadedHonest
      <3>3. o.arr = [p.arr EXCEPT !.data = ReadInto(p.arr, file, k), !.count = count,
                                  !.suspect = TRUE]
            /\ o.ret = 0
        BY <2>8 DEF Outcome, OK
      <3> QED
        BY <3>2, <3>3 DEF Fine
    <2> QED
      BY <2>1, <2>5, <2>6, <2>7, <2>8
  <1> QED
    BY <1>1, <1>2

(* array_from_buf(): the array is suspect from the start. *)
LEMMA FromBufHonest ==
    ASSUME NEW isize \in Nat, isize <= ChonkSize, NEW count \in Nat,
           NEW buf \in [Block(count) -> Items]
    PROVE  Honest(FromBuf(isize, buf, count))
  <1>1. Empty(isize) \in Arrays
    BY EmptyHonest DEF Honest
  <1>2. buf \in [Block(count) -> Items \cup {Garbage}]
    OBVIOUS
  <1>3. buf \in Blocks
    BY <1>2 DEF Blocks
  <1>4. FromBuf(isize, buf, count) \in Arrays /\ FromBuf(isize, buf, count).suspect = TRUE
    BY <1>1, <1>3, SizesAssumption DEF FromBuf, AllOnes, Arrays
  <1> QED
    BY <1>4 DEF Honest

(* array_sort(): the items in another order. *)
LEMMA SortHonest ==
    ASSUME NEW arr, Honest(arr), NEW b \in Sort(arr)
    PROVE  Honest(b)
  <1>1. PICK f \in Orders(arr) :
           b = [arr EXCEPT !.data = [i \in DOMAIN arr.data |->
                                        IF i < arr.count THEN f[i] ELSE arr.data[i]]]
    BY DEF Sort
  <1> DEFINE data == [i \in DOMAIN arr.data |-> IF i < arr.count THEN f[i] ELSE arr.data[i]]
             cells == [i \in Block(arr.count) |-> Cell(arr, i)]
  <1>2. arr \in Arrays /\ arr.count \in Nat /\ arr.data \in Blocks
    BY DEF Honest, Arrays
  <1>3. PICK n \in Nat : arr.data \in [Block(n) -> Items \cup {Garbage}]
    BY <1>2 DEF Blocks
  <1>4. f \in [Block(arr.count) -> {cells[i] : i \in Block(arr.count)}]
    BY DEF Orders
  <1>5. \A i \in Block(arr.count) : \E j \in Block(arr.count) : f[i] = Cell(arr, j)
    BY <1>4
  <1>6. ASSUME NEW i \in Block(n)
        PROVE  (IF i < arr.count THEN f[i] ELSE arr.data[i]) \in Items \cup {Garbage}
    <2>1. i < arr.count => i \in Block(arr.count)
      BY <1>2 DEF Block
    <2>2. i < arr.count => f[i] \in Items \cup {Garbage}
      BY <1>2, <1>5, <2>1, CellType
    <2> QED
      BY <1>3, <2>2
  <1>7. data \in [Block(n) -> Items \cup {Garbage}]
    BY <1>3, <1>6
  <1>8. \A i \in DOMAIN arr.data : i < arr.count => data[i] = f[i]
    OBVIOUS
  <1>9. b = [arr EXCEPT !.data = data]
    BY <1>1
  <1> HIDE DEF data
  <1>10. data \in Blocks
    BY <1>7 DEF Blocks
  <1>11. /\ b \in Arrays
         /\ b.data = data /\ b.count = arr.count /\ b.suspect = arr.suspect
         /\ b.isize = arr.isize /\ b.allocated = arr.allocated /\ b.overrun = arr.overrun
    BY <1>2, <1>9, <1>10 DEF Arrays
  <1>12. ASSUME ~arr.suspect PROVE Holds(b)
    <2>1. Holds(arr) /\ arr.count <= arr.allocated /\ arr.allocated \in Nat
      BY <1>2, <1>12 DEF Honest, Holds, Arrays
    <2>2. DOMAIN arr.data = Block(arr.allocated) /\ DOMAIN data = Block(arr.allocated)
      BY <1>3, <1>7, <2>1 DEF Holds
    <2>3. ASSUME NEW i \in 0 .. arr.count - 1 PROVE Cell(b, i) \in Items
      <3>1. i \in Block(arr.allocated) /\ i \in Block(arr.count) /\ i < arr.count
        BY <1>2, <2>1 DEF Block
      <3>2. PICK j \in Block(arr.count) : f[i] = Cell(arr, j)
        BY <1>5, <3>1
      <3>3. Cell(arr, j) \in Items
        BY <2>1, <3>2 DEF Holds, Written, Block
      <3>4. data[i] = f[i]
        BY <1>8, <2>2, <3>1
      <3> QED
        BY <1>11, <2>2, <3>1, <3>2, <3>3, <3>4 DEF Cell
    <2>4. Written(b, 0, b.count - 1)
      BY <1>11, <2>3 DEF Written
    <2> QED
      BY <1>11, <2>1, <2>2, <2>4 DEF Holds
  <1> QED
    BY <1>11, <1>12 DEF Honest

----------------------------------------------------------------------------
(* The functions that make an array. *)
LEMMA NewHonest ==
    ASSUME NEW isize \in Nat, isize <= ChonkSize, NEW arr \in New(isize)
    PROVE  Honest(arr)
  BY NoArrayHonest, EmptyHonest DEF New

(* array_init() makes a true block. *)
LEMMA InitHonest ==
    ASSUME NEW isize \in Nat, isize <= ChonkSize, NEW arr \in InitArray(isize)
    PROVE  Honest(arr)
  <1>1. PICK b \in New(isize) : arr \in {o.arr : o \in Grow(b)}
    BY DEF InitArray
  <1> QED
    BY <1>1, NewHonest, GrowHonest

(* array_with_capacity() makes a true block, whatever it can allocate. *)
LEMMA CapacityHonest ==
    ASSUME NEW isize \in Nat, isize <= ChonkSize, NEW n \in Nat,
           NEW arr \in WithCapacity(isize, n)
    PROVE  Honest(arr)
  <1>1. PICK b \in New(isize) :
           arr \in {IF Unsigned(o.ret) < n THEN NoArray ELSE o.arr : o \in Realloc(b, n)}
    BY DEF WithCapacity
  <1>2. PICK o \in Realloc(b, n) : arr = IF Unsigned(o.ret) < n THEN NoArray ELSE o.arr
    BY <1>1
  <1>3. Honest(o.arr)
    BY <1>1, NewHonest, ReallocHonest
  <1> QED
    BY <1>2, <1>3, NoArrayHonest

----------------------------------------------------------------------------
(* How many items the functions of array.c leave, whatever they are and    *)
(* however large.                                                          *)
Keeps(arr, b) == b \in Arrays /\ b.count = arr.count

(* array_realloc() *)
LEMMA ReallocKeeps ==
    ASSUME NEW arr \in Arrays, NEW n \in Nat, NEW o \in Realloc(arr, n)
    PROVE  Keeps(arr, o.arr) /\ o.ret \in Int
  <1>1. arr.count \in Nat
    BY DEF Arrays
  <1>2. ASSUME /\ o.ret = MAX(n, arr.count)
               /\ o.arr = [arr EXCEPT !.allocated = o.ret,
                                      !.data = [i \in Block(o.ret) |-> Cell(arr, i)]]
        PROVE  Keeps(arr, o.arr) /\ o.ret \in Int
    <2>1. o.ret \in Nat /\ o.ret >= arr.count
      BY <1>1, <1>2 DEF MAX
    <2> DEFINE data == [i \in Block(o.ret) |-> Cell(arr, i)]
    <2>2. data \in [Block(o.ret) -> Items \cup {Garbage}]
      BY CellType
    <2>3. data \in Blocks
      <3> HIDE DEF data
      <3> QED
        BY <2>1, <2>2 DEF Blocks
    <2>4. o.arr = [arr EXCEPT !.allocated = o.ret, !.data = data]
      BY <1>2
    <2> HIDE DEF data
    <2>5. o.arr \in Arrays /\ o.arr.count = arr.count
      BY <2>1, <2>3, <2>4 DEF Arrays
    <2> QED
      BY <2>1, <2>5 DEF Keeps
  <1>3. CASE o.arr = arr /\ o.ret \in Int
    BY <1>3 DEF Keeps
  <1>4. \/ o.arr = arr /\ o.ret \in Int
        \/ /\ o.ret = MAX(n, arr.count)
           /\ o.arr = [arr EXCEPT !.allocated = o.ret,
                                  !.data = [i \in Block(o.ret) |-> Cell(arr, i)]]
    <2>1. -1 \in Int /\ 0 \in Int
      OBVIOUS
    <2> QED
      BY <2>1, ReallocCases, Zenon
  <1> QED
    BY <1>2, <1>3, <1>4, Zenon

(* array_grow() *)
LEMMA GrowKeeps ==
    ASSUME NEW arr \in Arrays, NEW o \in Grow(arr)
    PROVE  Keeps(arr, o.arr)
  <1>1. arr.isize \in Nat /\ arr.allocated \in Nat
    BY DEF Arrays
  <1>2. CASE ~Exists(arr)
    <2>1. o = [arr |-> arr, ret |-> -1]
      BY <1>2 DEF Grow, Outcome
    <2> QED
      BY <2>1 DEF Keeps
  <1>3. CASE Exists(arr)
    <2> DEFINE q == ChonkSize \div arr.isize
               p == MAX(4, PageSize \div arr.isize)
    <2>1. q \in Nat /\ p \in Nat
      BY <1>1, <1>3, SizesAssumption DEF Exists, MAX
    <2>2. \/ o \in Realloc(arr, p)
          \/ o \in Realloc(arr, Unsigned(2 * arr.allocated))
          \/ o \in Realloc(arr, Unsigned(arr.allocated + q))
      <3>1. CASE arr.allocated = 0
        BY <1>3, <3>1 DEF Grow
      <3>2. CASE arr.allocated # 0 /\ Unsigned(arr.allocated * arr.isize) < ChonkSize
        BY <1>3, <3>2 DEF Grow
      <3>3. CASE arr.allocated # 0 /\ ~(Unsigned(arr.allocated * arr.isize) < ChonkSize)
        BY <1>3, <3>3 DEF Grow
      <3> QED
        BY <3>1, <3>2, <3>3
    <2> HIDE DEF p, q
    <2>3. Unsigned(2 * arr.allocated) \in Nat /\ Unsigned(arr.allocated + q) \in Nat
      BY <1>1, <2>1, UnsignedType
    <2> QED
      BY <2>1, <2>2, <2>3, ReallocKeeps
  <1> QED
    BY <1>2, <1>3

(* array_append(), array_insert() *)
LEMMA PutCounts ==
    ASSUME NEW arr \in Arrays, NEW item \in Items, NEW at \in Nat
    PROVE  PutAt(arr, item, at) \in Arrays /\ PutAt(arr, item, at).count = arr.count + 1
  <1> DEFINE data == [i \in DOMAIN arr.data |->
                         CASE i = at                    -> item
                           [] at < i /\ i <= arr.count -> arr.data[i - 1]
                           [] OTHER                     -> arr.data[i]]
             over == arr.overrun \/ arr.count \notin DOMAIN arr.data
  <1>1. arr.count \in Nat /\ arr.data \in Blocks /\ arr.overrun \in BOOLEAN
    BY DEF Arrays
  <1>2. PICK n \in Nat : arr.data \in [Block(n) -> Items \cup {Garbage}]
    BY <1>1 DEF Blocks
  <1>3. ASSUME NEW i \in Block(n) PROVE data[i] \in Items \cup {Garbage}
    <2>1. i \in Nat /\ (at < i => i - 1 \in Block(n))
      BY DEF Block
    <2> QED
      BY <1>2, <2>1
  <1>4. data \in Blocks
    <2>1. data = [i \in Block(n) |-> data[i]]
      BY <1>2
    <2> HIDE DEF data
    <2>2. data \in [Block(n) -> Items \cup {Garbage}]
      BY <1>3, <2>1
    <2> QED
      BY <2>2 DEF Blocks
  <1>5. PutAt(arr, item, at) = [arr EXCEPT !.data = data, !.count = arr.count + 1,
                                           !.overrun = over]
    BY <1>1 DEF PutAt, Arrays
  <1>6. over \in BOOLEAN
    OBVIOUS
  <1> DEFINE put == PutAt(arr, item, at)
  <1>7. put = [arr EXCEPT !.data = data, !.count = arr.count + 1, !.overrun = over]
    BY <1>5
  <1> HIDE DEF data, over, put
  <1>8. put \in Arrays /\ put.count = arr.count + 1
    <2> DEFINE count == arr.count + 1
    <2>1. count \in Nat
      BY <1>1
    <2>2. put = [arr EXCEPT !.data = data, !.count = count, !.overrun = over]
      BY <1>7
    <2> HIDE DEF count
    <2>3. put \in Arrays /\ put.count = count
      BY <1>1, <1>4, <1>6, <2>1, <2>2 DEF Arrays
    <2> QED
      BY <2>3 DEF count
  <1> QED
    BY <1>8 DEF put

(* array_insert() *)
LEMMA InsertCounts ==
    ASSUME NEW arr \in Arrays, NEW item \in Items, NEW at \in Nat,
           NEW o \in InsertItem(arr, item, at)
    PROVE  o.arr \in Arrays /\ o.arr.count \in {arr.count, arr.count + 1}
  <1>1. arr.count \in Nat
    BY DEF Arrays
  <1>2. ASSUME NEW s \in EnsureSpace(arr) PROVE Keeps(arr, s.arr)
    BY <1>2, GrowKeeps DEF EnsureSpace, Outcome, Keeps
  <1>3. ASSUME NEW s \in EnsureSpace(arr), NEW i \in Nat,
               o.arr = s.arr \/ o.arr = PutAt(s.arr, item, i)
        PROVE  o.arr \in Arrays /\ o.arr.count \in {arr.count, arr.count + 1}
    BY <1>2, <1>3, PutCounts DEF Keeps
  <1>4. CASE at = arr.count
    <2>1. o \in AppendItem(arr, item)
      BY <1>4 DEF InsertItem
    <2>2. PICK s \in EnsureSpace(arr) :
              o = IF s.ret THEN Outcome(PutAt(s.arr, item, s.arr.count), s.arr.count)
                  ELSE Outcome(s.arr, -1)
      BY <2>1 DEF AppendItem
    <2>3. s.arr.count \in Nat
      BY <1>1, <1>2 DEF Keeps
    <2>4. o.arr = s.arr \/ o.arr = PutAt(s.arr, item, s.arr.count)
      BY <2>2 DEF Outcome
    <2> QED
      BY <1>3, <2>3, <2>4
  <1>5. CASE at > arr.count
    <2>1. at # arr.count /\ ~(at < arr.count)
      BY <1>1, <1>5
    <2>2. o \in {Outcome(arr, -1)}
      BY <1>5, <2>1, Zenon DEF InsertItem
    <2> QED
      BY <2>2 DEF Outcome
  <1>6. CASE at < arr.count
    <2>1. at # arr.count /\ ~(at > arr.count)
      BY <1>1, <1>6
    <2>2. o \in {IF s.ret THEN Outcome(PutAt(s.arr, item, at), s.arr.count + 1)
                 ELSE Outcome(s.arr, -1) : s \in EnsureSpace(arr)}
      BY <1>6, <2>1, Zenon DEF InsertItem
    <2>3. PICK s \in EnsureSpace(arr) :
              o = IF s.ret THEN Outcome(PutAt(s.arr, item, at), s.arr.count + 1)
                  ELSE Outcome(s.arr, -1)
      BY <2>2
    <2>4. o.arr = s.arr \/ o.arr = PutAt(s.arr, item, at)
      BY <2>3 DEF Outcome
    <2> QED
      BY <1>3, <2>4
  <1> QED
    BY <1>1, <1>4, <1>5, <1>6

(* array_set() *)
LEMMA SetKeeps ==
    ASSUME NEW arr \in Arrays, NEW item \in Items, NEW at
    PROVE  Keeps(arr, SetItem(arr, item, at).arr)
  <1> DEFINE data == [i \in DOMAIN arr.data |-> IF i = at THEN item ELSE arr.data[i]]
             over == arr.overrun \/ at \notin DOMAIN arr.data
  <1>1. arr.data \in Blocks /\ arr.overrun \in BOOLEAN
    BY DEF Arrays
  <1>2. PICK n \in Nat : arr.data \in [Block(n) -> Items \cup {Garbage}]
    BY <1>1 DEF Blocks
  <1>3. data \in [Block(n) -> Items \cup {Garbage}]
    BY <1>2
  <1>4. data \in Blocks
    <2> HIDE DEF data
    <2> QED
      BY <1>2, <1>3 DEF Blocks
  <1>5. SetItem(arr, item, at).arr = arr \/
        SetItem(arr, item, at).arr = [arr EXCEPT !.data = data, !.overrun = over]
    BY <1>1 DEF SetItem, Outcome, Arrays
  <1>6. over \in BOOLEAN
    OBVIOUS
  <1> HIDE DEF data, over
  <1> QED
    BY <1>1, <1>4, <1>5, <1>6 DEF Arrays, Keeps

(* array_load(): the array has as many items as were asked for, or is      *)
(* reported not to be there.                                               *)
LEMMA LoadCounts ==
    ASSUME NEW arr \in Arrays, NEW count \in Nat, NEW file,
           \A i \in Block(count) : file[i] \in Items \cup {Garbage},
           NEW o \in Load(arr, file, count), o.ret # Null
    PROVE  o.arr \in Arrays /\ o.arr.count = count
  <1>1. Exists(arr)
    <2>1. ~Exists(arr) => o = Outcome(arr, Null)
      BY DEF Load
    <2> QED
      BY <2>1 DEF Outcome
  <1> DEFINE Full(p) == o = ReadAll(p.arr, file, count)
             Part(p) == \E k \in 0 .. count - 1 :
                           o = Outcome([p.arr EXCEPT !.data = ReadInto(p.arr, file, k),
                                                     !.count = count, !.suspect = TRUE], OK)
  <1>9. LoadEnds(arr, count, file, o)
    BY <1>1, LoadCases
  <1>2. PICK p \in Realloc(arr, count) : o.ret = Null \/ Full(p) \/ Part(p)
    <2>1. PICK p \in Realloc(arr, count) :
              \/ p.ret # count /\ o = Outcome(p.arr, Null)
              \/ /\ p.ret = count
                 /\ \/ Full(p)
                    \/ o = Outcome(NoArray, Null)
                    \/ Part(p)
      BY <1>9 DEF LoadEnds
    <2>2. \A b : Outcome(b, Null).ret = Null
      BY DEF Outcome
    <2> HIDE DEF Full, Part
    <2> QED
      BY <2>1, <2>2
  <1>3. p.arr \in Arrays
    BY ReallocKeeps DEF Keeps
  <1>4. p.arr.data \in Blocks /\ p.arr.suspect \in BOOLEAN
    BY <1>3 DEF Arrays
  <1>5. PICK n \in Nat : p.arr.data \in [Block(n) -> Items \cup {Garbage}]
    BY <1>4 DEF Blocks
  <1>6. ASSUME NEW k \in Nat, k <= count PROVE ReadInto(p.arr, file, k) \in Blocks
    <2> DEFINE data == ReadInto(p.arr, file, k)
    <2>1. ASSUME NEW i \in Block(n)
          PROVE  (IF i < k THEN file[i] ELSE p.arr.data[i]) \in Items \cup {Garbage}
      <3>1. i < k => i \in Block(count)
        BY <1>6 DEF Block
      <3> QED
        BY <1>5, <3>1
    <2>2. data \in [Block(n) -> Items \cup {Garbage}]
      BY <1>5, <2>1 DEF ReadInto
    <2> HIDE DEF data
    <2>3. data \in Blocks
      BY <2>2 DEF Blocks
    <2> QED
      BY <2>3 DEF data
  <1>7. CASE o = ReadAll(p.arr, file, count)
    <2>1. o.arr = [p.arr EXCEPT !.data = ReadInto(p.arr, file, count), !.count = count]
      BY <1>7 DEF ReadAll, Outcome
    <2>2. ReadInto(p.arr, file, count) \in Blocks
      BY <1>6
    <2> QED
      BY <1>3, <2>1, <2>2 DEF Arrays
  <1>8. ASSUME NEW k \in 0 .. count - 1,
               o = Outcome([p.arr EXCEPT !.data = ReadInto(p.arr, file, k),
                                         !.count = count, !.suspect = TRUE], OK)
        PROVE  o.arr \in Arrays /\ o.arr.count = count
    <2>1. o.arr = [p.arr EXCEPT !.data = ReadInto(p.arr, file, k),
                                !.count = count, !.suspect = TRUE]
      BY <1>8 DEF Outcome
    <2>2. ReadInto(p.arr, file, k) \in Blocks
      BY <1>6
    <2> QED
      BY <1>3, <2>1, <2>2 DEF Arrays
  <1>10. Part(p) => o.arr \in Arrays /\ o.arr.count = count
    BY <1>8
  <1> QED
    BY <1>2, <1>7, <1>10

(* array_new(), array_clear() *)
LEMMA NewCounts ==
    /\ NoArray \in Arrays /\ NoArray.count = 0
    /\ \A isize \in Nat : \A arr \in New(isize) : arr \in Arrays /\ arr.count = 0
    /\ \A arr \in Arrays : Clear(arr) \in Arrays /\ Clear(arr).count = 0
  <1>1. NoArray \in Arrays /\ NoArray.count = 0
    BY NoArrayHonest DEF Honest, NoArray
  <1>2. <<>> \in Blocks
    BY <1>1 DEF NoArray, Arrays
  <1> QED
    BY <1>1, <1>2 DEF New, Empty, Clear, Arrays

----------------------------------------------------------------------------
(* An array that may be suspect: if its items are not those of the file,   *)
(* its block still has room for all of them, and is one that malloc() can  *)
(* return.                                                                 *)
Sound(arr, S) ==
    /\ arr \in Arrays
    /\ DOMAIN arr.data = Block(arr.allocated)
    /\ \A c \in DOMAIN arr.data : arr.data[c] \in S \cup {Garbage}
    /\ arr.count <= arr.allocated
    /\ InHeap(arr)

SameCells(arr, b) ==
    /\ b.isize = arr.isize /\ b.count = arr.count
    /\ \A c \in Block(arr.count) : Cell(b, c) = Cell(arr, c)

Adds(arr, item, at, b) ==
    /\ b.isize = arr.isize /\ b.count = arr.count + 1
    /\ \A c \in Block(arr.count + 1) :
          Cell(b, c) = IF c < at THEN Cell(arr, c)
                       ELSE IF c = at THEN item ELSE Cell(arr, c - 1)

(* array_realloc() *)
LEMMA ReallocSound ==
    ASSUME NEW S, NEW arr, Sound(arr, S), NEW n \in Nat, NEW o \in Realloc(arr, n)
    PROVE  /\ Sound(o.arr, S) /\ SameCells(arr, o.arr) /\ o.ret \in Int
           /\ o.ret = n => n <= o.arr.allocated
           /\ o.ret > 0 => o.arr.allocated >= n
  <1>1. arr \in Arrays /\ arr.count \in Nat /\ arr.allocated \in Nat /\ arr.isize \in Nat
    BY DEF Sound, Arrays
  <1>2. o.arr \in Arrays /\ o.ret \in Int
    BY <1>1, ReallocKeeps DEF Keeps
  <1>3. ASSUME /\ o.ret = MAX(n, arr.count) /\ o.ret * arr.isize <= Heap
               /\ o.arr = [arr EXCEPT !.allocated = o.ret,
                                      !.data = [c \in Block(o.ret) |-> Cell(arr, c)]]
        PROVE  Sound(o.arr, S) /\ SameCells(arr, o.arr) /\ o.arr.allocated >= n
    <2> DEFINE b == o.arr
               m == o.ret
               data == [c \in Block(m) |-> Cell(arr, c)]
    <2>1. m \in Nat /\ m >= n /\ m >= arr.count
      BY <1>1, <1>3 DEF MAX
    <2>2. /\ b.isize = arr.isize /\ b.count = arr.count /\ b.allocated = m
          /\ b.data = data
      BY <1>1, <1>3 DEF Arrays
    <2>3. m * arr.isize <= Heap
      BY <1>3
    <2> HIDE DEF m
    <2>4. DOMAIN data = Block(m) /\ \A c \in Block(m) : data[c] = Cell(arr, c)
      OBVIOUS
    <2>5. \A c \in Block(m) : Cell(arr, c) \in S \cup {Garbage}
      BY DEF Cell, Sound
    <2>6. \A c \in Block(arr.count) : c \in Block(m)
      BY <1>1, <2>1 DEF Block
    <2> HIDE DEF data
    <2>7. Sound(b, S)
      BY <1>2, <2>1, <2>2, <2>3, <2>4, <2>5 DEF Sound, InHeap
    <2>8. SameCells(arr, b)
      <3>1. \A c \in Block(arr.count) : Cell(b, c) = Cell(arr, c)
        <4>1. \A c \in Block(m) : Cell(b, c) = data[c]
          BY <2>2, <2>4 DEF Cell
        <4> QED
          BY <2>4, <2>6, <4>1
      <3> QED
        BY <2>2, <3>1 DEF SameCells
    <2> QED
      BY <2>1, <2>2, <2>7, <2>8
  <1>4. CASE o.arr = arr /\ (o.ret = -1 \/ (o.ret = 0 /\ n = 0))
    BY <1>1, <1>4 DEF SameCells
  <1>5. \/ o.arr = arr /\ (o.ret = -1 \/ (o.ret = 0 /\ n = 0))
        \/ /\ o.ret = MAX(n, arr.count) /\ o.ret * arr.isize <= Heap
           /\ o.arr = [arr EXCEPT !.allocated = o.ret,
                                  !.data = [c \in Block(o.ret) |-> Cell(arr, c)]]
    BY <1>1, ReallocCases, Zenon
  <1>6. CASE Sound(o.arr, S) /\ SameCells(arr, o.arr) /\ o.arr.allocated >= n
    <2>1. o.arr.allocated \in Nat
      BY <1>2 DEF Arrays
    <2> QED
      BY <1>2, <1>6, <2>1
  <1> QED
    BY <1>3, <1>4, <1>5, <1>6, Zenon

(* array_grow() *)
LEMMA GrowSound ==
    ASSUME NEW S, NEW arr, Sound(arr, S), NEW o \in Grow(arr)
    PROVE  /\ Sound(o.arr, S) /\ SameCells(arr, o.arr)
           /\ arr.count >= arr.allocated /\ o.ret > 0 => o.arr.count < o.arr.allocated
  <1>1. arr \in Arrays /\ arr.count \in Nat /\ arr.allocated \in Nat
    BY DEF Sound, Arrays
  <1>2. CASE ~Exists(arr)
    <2>1. o = [arr |-> arr, ret |-> -1]
      BY <1>2 DEF Grow, Outcome
    <2> QED
      BY <2>1 DEF SameCells
  <1>3. CASE Exists(arr)
    <2>1. PICK n \in Nat : o \in Realloc(arr, n) /\ n > arr.allocated
      BY <1>1, <1>3, GrowCases DEF Sound
    <2>2. /\ Sound(o.arr, S) /\ SameCells(arr, o.arr)
          /\ o.ret > 0 => o.arr.allocated >= n
      BY <2>1, ReallocSound
    <2>3. o.arr.count = arr.count /\ arr.count <= arr.allocated /\ o.arr.allocated \in Nat
      BY <2>2 DEF SameCells, Sound, Arrays
    <2> QED
      BY <1>1, <2>1, <2>2, <2>3
  <1> QED
    BY <1>2, <1>3

(* ARRAY_ENSURE_SPACE *)
LEMMA SpaceSound ==
    ASSUME NEW S, NEW arr, Sound(arr, S), NEW o \in EnsureSpace(arr)
    PROVE  /\ Sound(o.arr, S) /\ SameCells(arr, o.arr)
           /\ o.ret => o.arr.count < o.arr.allocated
  <1>1. arr.count \in Nat /\ arr.allocated \in Nat
    BY DEF Sound, Arrays
  <1>2. CASE arr.allocated > arr.count
    <2>1. o = [arr |-> arr, ret |-> TRUE]
      BY <1>2 DEF EnsureSpace, Outcome
    <2> QED
      BY <1>1, <1>2, <2>1 DEF SameCells
  <1>3. CASE ~(arr.allocated > arr.count)
    <2>1. PICK p \in Grow(arr) : o = [arr |-> p.arr, ret |-> p.ret > 0]
      BY <1>3 DEF EnsureSpace, Outcome
    <2>2. o.arr = p.arr /\ o.ret = (p.ret > 0)
      BY <2>1
    <2>3. arr.count >= arr.allocated
      BY <1>1, <1>3
    <2>4. /\ Sound(p.arr, S) /\ SameCells(arr, p.arr)
          /\ p.ret > 0 => p.arr.count < p.arr.allocated
      BY <2>3, GrowSound
    <2> QED
      BY <2>2, <2>4
  <1> QED
    BY <1>2, <1>3

(* An item put in a block with room for it *)
LEMMA PutSound ==
    ASSUME NEW S \in SUBSET Items, NEW arr, Sound(arr, S), NEW item \in S, NEW at \in Nat,
           at <= arr.count, arr.count < arr.allocated
    PROVE  Sound(PutAt(arr, item, at), S) /\ Adds(arr, item, at, PutAt(arr, item, at))
  <1> DEFINE put == PutAt(arr, item, at)
             data == [c \in DOMAIN arr.data |->
                         CASE c = at                   -> item
                           [] at < c /\ c <= arr.count -> arr.data[c - 1]
                           [] OTHER                    -> arr.data[c]]
             count == arr.count + 1
             over == arr.overrun \/ arr.count \notin DOMAIN arr.data
             n == arr.allocated
  <1>1. /\ arr \in Arrays /\ arr.count \in Nat /\ n \in Nat /\ arr.isize \in Nat
        /\ DOMAIN arr.data = Block(n) /\ item \in Items
    BY DEF Sound, Arrays
  <1>2. put \in Arrays /\ put.count = count
    BY <1>1, PutCounts
  <1>3. put = [arr EXCEPT !.data = data, !.count = count, !.overrun = over]
    BY <1>1 DEF PutAt, Arrays
  <1> HIDE DEF put, over
  <1>4. /\ put.data = data /\ put.isize = arr.isize /\ put.allocated = n
    <2> HIDE DEF data, count
    <2> QED
      BY <1>1, <1>3 DEF Arrays
  <1>5. DOMAIN data = Block(n)
    BY <1>1
  <1>6. ASSUME NEW c \in Block(n)
        PROVE  /\ c < at => data[c] = arr.data[c]
               /\ c = at => data[c] = item
               /\ c > at /\ c <= arr.count => data[c] = arr.data[c - 1]
               /\ c > arr.count /\ c # at => data[c] = arr.data[c]
               /\ c > at => c - 1 \in Block(n)
               /\ c \in Nat
    BY <1>1 DEF Block
  <1> HIDE DEF data, n
  <1>7. \A c \in Block(n) : data[c] \in S \cup {Garbage}
    <2>1. \A c \in Block(n) : arr.data[c] \in S \cup {Garbage}
      BY <1>1 DEF Sound
    <2>2. SUFFICES ASSUME NEW c \in Block(n) PROVE data[c] \in S \cup {Garbage}
      OBVIOUS
    <2>3. c < at \/ c = at \/ (c > at /\ c <= arr.count) \/ (c > arr.count /\ c # at)
      BY <1>1, <1>6
    <2> QED
      BY <1>6, <2>1, <2>3
  <1>8. Sound(put, S)
    <2>1. put.count <= put.allocated
      BY <1>1, <1>2, <1>4 DEF n
    <2> HIDE DEF count
    <2> QED
      BY <1>1, <1>2, <1>4, <1>5, <1>7, <2>1 DEF Sound, InHeap, n
  <1>9. ASSUME NEW c \in Block(arr.count + 1)
        PROVE  Cell(put, c) = IF c < at THEN Cell(arr, c)
                              ELSE IF c = at THEN item ELSE Cell(arr, c - 1)
    <2>1. c \in Block(n) /\ c \in Nat /\ c <= arr.count
      BY <1>1 DEF Block, n
    <2>2. Cell(put, c) = data[c]
      BY <1>4, <1>5, <2>1 DEF Cell
    <2>3. Cell(arr, c) = arr.data[c] /\ (c > at => Cell(arr, c - 1) = arr.data[c - 1])
      BY <1>1, <1>6, <2>1 DEF Cell
    <2> QED
      BY <1>6, <2>1, <2>2, <2>3
  <1> QED
    BY <1>2, <1>4, <1>8, <1>9 DEF Adds, put

(* array_insert() *)
LEMMA InsertSound ==
    ASSUME NEW S \in SUBSET Items, NEW arr, Sound(arr, S), NEW item \in S, NEW at \in Nat,
           NEW o \in InsertItem(arr, item, at)
    PROVE  Sound(o.arr, S) /\ (SameCells(arr, o.arr) \/ Adds(arr, item, at, o.arr))
  <1>1. arr.count \in Nat
    BY DEF Sound, Arrays
  <1>2. ASSUME NEW s \in EnsureSpace(arr), at <= arr.count,
               \/ o.arr = s.arr
               \/ s.ret /\ o.arr = PutAt(s.arr, item, at)
        PROVE  Sound(o.arr, S) /\ (SameCells(arr, o.arr) \/ Adds(arr, item, at, o.arr))
    <2>1. /\ Sound(s.arr, S) /\ SameCells(arr, s.arr)
          /\ s.ret => s.arr.count < s.arr.allocated
      BY SpaceSound
    <2>2. CASE o.arr = s.arr
      BY <2>1, <2>2
    <2>3. CASE s.ret /\ o.arr = PutAt(s.arr, item, at)
      <3>1. s.arr.count = arr.count /\ s.arr.isize = arr.isize
        BY <2>1 DEF SameCells
      <3>2. Sound(o.arr, S) /\ Adds(s.arr, item, at, o.arr)
        BY <1>2, <2>1, <2>3, <3>1, PutSound
      <3>3. ASSUME NEW c \in Block(arr.count + 1)
            PROVE  Cell(o.arr, c) = IF c < at THEN Cell(arr, c)
                                    ELSE IF c = at THEN item ELSE Cell(arr, c - 1)
        <4>1. /\ c < at => c \in Block(arr.count)
              /\ c > at => c - 1 \in Block(arr.count)
              /\ c \in Int
          BY <1>1, <1>2 DEF Block
        <4>2. /\ c < at => Cell(s.arr, c) = Cell(arr, c)
              /\ c > at => Cell(s.arr, c - 1) = Cell(arr, c - 1)
          BY <2>1, <4>1 DEF SameCells
        <4>3. Cell(o.arr, c) = IF c < at THEN Cell(s.arr, c)
                               ELSE IF c = at THEN item ELSE Cell(s.arr, c - 1)
          BY <3>1, <3>2, <3>3 DEF Adds
        <4> QED
          BY <4>1, <4>2, <4>3
      <3> QED
        BY <3>1, <3>2, <3>3 DEF Adds
    <2> QED
      BY <1>2, <2>2, <2>3
  <1>3. CASE at = arr.count
    <2>1. o \in AppendItem(arr, item)
      BY <1>3 DEF InsertItem
    <2>2. PICK s \in EnsureSpace(arr) :
              o = IF s.ret THEN Outcome(PutAt(s.arr, item, s.arr.count), s.arr.count)
                  ELSE Outcome(s.arr, -1)
      BY <2>1 DEF AppendItem
    <2>3. s.arr.count = arr.count
      BY SpaceSound DEF SameCells
    <2>4. o.arr = s.arr \/ (s.ret /\ o.arr = PutAt(s.arr, item, at))
      BY <1>3, <2>2, <2>3 DEF Outcome
    <2> QED
      BY <1>1, <1>2, <1>3, <2>4
  <1>4. CASE at > arr.count
    <2>1. at # arr.count /\ ~(at < arr.count)
      BY <1>1, <1>4
    <2>2. o \in {Outcome(arr, -1)}
      BY <1>4, <2>1, Zenon DEF InsertItem
    <2>3. o.arr = arr
      BY <2>2 DEF Outcome
    <2> QED
      BY <2>3 DEF SameCells
  <1>5. CASE at < arr.count
    <2>1. at # arr.count /\ ~(at > arr.count) /\ at <= arr.count
      BY <1>1, <1>5
    <2>2. o \in {IF s.ret THEN Outcome(PutAt(s.arr, item, at), s.arr.count + 1)
                 ELSE Outcome(s.arr, -1) : s \in EnsureSpace(arr)}
      BY <1>5, <2>1, Zenon DEF InsertItem
    <2>3. PICK s \in EnsureSpace(arr) :
              o = IF s.ret THEN Outcome(PutAt(s.arr, item, at), s.arr.count + 1)
                  ELSE Outcome(s.arr, -1)
      BY <2>2
    <2>4. o.arr = s.arr \/ (s.ret /\ o.arr = PutAt(s.arr, item, at))
      BY <2>3 DEF Outcome
    <2> QED
      BY <1>2, <2>1, <2>4
  <1> QED
    BY <1>1, <1>3, <1>4, <1>5

(* array_set() *)
LEMMA SetSound ==
    ASSUME NEW S \in SUBSET Items, NEW arr, Sound(arr, S), NEW item \in S, NEW at
    PROVE  /\ Sound(SetItem(arr, item, at).arr, S)
           /\ SetItem(arr, item, at).arr.count = arr.count
           /\ SetItem(arr, item, at).arr.isize = arr.isize
  <1> DEFINE o == SetItem(arr, item, at)
             data == [c \in DOMAIN arr.data |-> IF c = at THEN item ELSE arr.data[c]]
             over == arr.overrun \/ at \notin DOMAIN arr.data
  <1>1. arr \in Arrays /\ item \in Items
    BY DEF Sound
  <1>2. o.arr \in Arrays
    BY <1>1, SetKeeps DEF Keeps
  <1>3. o.arr = arr \/ o.arr = [arr EXCEPT !.data = data, !.overrun = over]
    BY <1>1 DEF SetItem, Outcome, Arrays
  <1>4. DOMAIN data = DOMAIN arr.data /\ \A c \in DOMAIN data : data[c] \in S \cup {Garbage}
    BY DEF Sound
  <1> HIDE DEF o, data, over
  <1>5. CASE o.arr = [arr EXCEPT !.data = data, !.overrun = over]
    <2>1. /\ o.arr.data = data /\ o.arr.count = arr.count /\ o.arr.isize = arr.isize
          /\ o.arr.allocated = arr.allocated
      BY <1>1, <1>5 DEF Arrays
    <2> QED
      BY <1>2, <1>4, <2>1 DEF Sound, InHeap, o
  <1> QED
    BY <1>3, <1>5 DEF o

(* array_load(), unless it reports that there is no array *)
LEMMA LoadSound ==
    ASSUME NEW S \in SUBSET Items, NEW arr, Sound(arr, S), NEW count \in Nat, NEW file,
           \A c \in Block(count) : file[c] \in S \cup {Garbage},
           NEW o \in Load(arr, file, count), o.ret # Null
    PROVE  Sound(o.arr, S) /\ o.arr.count = count /\ o.arr.isize = arr.isize
  <1>1. Exists(arr)
    <2>1. ~Exists(arr) => o = Outcome(arr, Null)
      BY DEF Load
    <2> QED
      BY <2>1 DEF Outcome
  <1>2. \A c \in Block(count) : file[c] \in Items \cup {Garbage}
    OBVIOUS
  <1>3. o.arr \in Arrays /\ o.arr.count = count
    BY <1>2, LoadCounts DEF Sound
  <1> DEFINE Full(p) == o = ReadAll(p.arr, file, count)
             Part(p, k) == o = Outcome([p.arr EXCEPT !.data = ReadInto(p.arr, file, k),
                                                     !.count = count, !.suspect = TRUE], OK)
  <1>9. LoadEnds(arr, count, file, o)
    BY <1>1, LoadCases
  <1>4. PICK p \in Realloc(arr, count) :
            p.ret = count /\ (Full(p) \/ \E k \in 0 .. count - 1 : Part(p, k))
    <2>1. PICK p \in Realloc(arr, count) :
              \/ p.ret # count /\ o = Outcome(p.arr, Null)
              \/ /\ p.ret = count
                 /\ \/ Full(p)
                    \/ o = Outcome(NoArray, Null)
                    \/ \E k \in 0 .. count - 1 : Part(p, k)
      BY <1>9 DEF LoadEnds
    <2>2. \A b : Outcome(b, Null).ret = Null
      BY DEF Outcome
    <2> HIDE DEF Full, Part
    <2> QED
      BY <2>1, <2>2
  <1>5. /\ Sound(p.arr, S) /\ SameCells(arr, p.arr) /\ count <= p.arr.allocated
        /\ p.arr \in Arrays
    <2>1. p.ret = count
      BY <1>4
    <2>2. Sound(p.arr, S) /\ SameCells(arr, p.arr) /\ (p.ret = count => count <= p.arr.allocated)
      BY ReallocSound
    <2> QED
      BY <2>1, <2>2 DEF Sound
  <1>6. ASSUME NEW k \in Nat, k <= count, o.arr.data = ReadInto(p.arr, file, k),
               o.arr.allocated = p.arr.allocated, o.arr.isize = p.arr.isize
        PROVE  Sound(o.arr, S) /\ o.arr.isize = arr.isize
    <2> DEFINE data == ReadInto(p.arr, file, k)
    <2>1. DOMAIN data = DOMAIN p.arr.data /\ DOMAIN p.arr.data = Block(p.arr.allocated)
      BY <1>5 DEF ReadInto, Sound
    <2>2. ASSUME NEW c \in DOMAIN data PROVE data[c] \in S \cup {Garbage}
      <3>1. c \in Block(p.arr.allocated) /\ c < k => c \in Block(count)
        BY <1>6 DEF Block
      <3>2. p.arr.data[c] \in S \cup {Garbage}
        BY <1>5, <2>1 DEF Sound
      <3> QED
        BY <2>1, <3>1, <3>2 DEF ReadInto
    <2> HIDE DEF data
    <2>3. o.arr.isize = arr.isize
      BY <1>5, <1>6 DEF SameCells
    <2>4. o.arr.data = data
      BY <1>6 DEF data
    <2> QED
      BY <1>3, <1>5, <1>6, <2>1, <2>2, <2>3, <2>4 DEF Sound, InHeap
  <1>7. CASE Full(p)
    <2>1. o.arr = [p.arr EXCEPT !.data = ReadInto(p.arr, file, count), !.count = count]
      BY <1>7 DEF ReadAll, Outcome
    <2>2. /\ o.arr.data = ReadInto(p.arr, file, count)
          /\ o.arr.allocated = p.arr.allocated /\ o.arr.isize = p.arr.isize
      BY <1>5, <2>1 DEF Arrays
    <2> QED
      BY <1>3, <1>6, <2>2
  <1>8. ASSUME NEW k \in 0 .. count - 1, Part(p, k)
        PROVE  Sound(o.arr, S) /\ o.arr.isize = arr.isize
    <2>1. o.arr = [p.arr EXCEPT !.data = ReadInto(p.arr, file, k),
                                !.count = count, !.suspect = TRUE]
      BY <1>8 DEF Outcome
    <2>2. /\ o.arr.data = ReadInto(p.arr, file, k)
          /\ o.arr.allocated = p.arr.allocated /\ o.arr.isize = p.arr.isize
      BY <1>5, <2>1 DEF Arrays
    <2> QED
      BY <1>6, <2>2
  <1> HIDE DEF Full, Part
  <1> QED
    BY <1>3, <1>4, <1>7, <1>8

(* array_new(), array_clear() *)
LEMMA NewSound ==
    ASSUME NEW S
    PROVE  /\ Sound(NoArray, S) /\ NoArray.count = 0
           /\ \A isize \in Nat : isize <= ChonkSize =>
                 \A arr \in New(isize) : Sound(arr, S) /\ arr.count = 0
           /\ \A arr : Sound(arr, S) =>
                 /\ Sound(Clear(arr), S) /\ Clear(arr).count = 0
                 /\ Clear(arr).isize = arr.isize
  <1>1. Block(0) = {} /\ DOMAIN <<>> = {}
    BY DEF Block
  <1>2. ASSUME NEW b \in Arrays, b.count = 0, b.allocated = 0, b.data = <<>>,
               b.isize <= ChonkSize
        PROVE  Sound(b, S)
    <2>1. 0 * b.isize = 0 /\ 0 <= Heap
      BY <1>2, SizesAssumption DEF Arrays
    <2> QED
      BY <1>1, <1>2, <2>1 DEF Sound, InHeap
  <1>3. Sound(NoArray, S) /\ NoArray.count = 0
    <2>1. /\ NoArray.isize = 0 /\ NoArray.count = 0 /\ NoArray.allocated = 0
          /\ NoArray.data = <<>>
      BY DEF NoArray
    <2> QED
      BY <1>2, <2>1, NewCounts, SizesAssumption
  <1>4. ASSUME NEW isize \in Nat, isize <= ChonkSize, NEW arr \in New(isize)
        PROVE  Sound(arr, S) /\ arr.count = 0
    <2>1. arr \in Arrays
      BY NewCounts
    <2>2. /\ Empty(isize).isize = isize /\ Empty(isize).count = 0
          /\ Empty(isize).allocated = 0 /\ Empty(isize).data = <<>>
      BY DEF Empty, NoArray
    <2> QED
      BY <1>2, <1>3, <1>4, <2>1, <2>2 DEF New
  <1>5. ASSUME NEW arr, Sound(arr, S)
        PROVE  /\ Sound(Clear(arr), S) /\ Clear(arr).count = 0
               /\ Clear(arr).isize = arr.isize
    <2>1. arr \in Arrays /\ arr.isize <= ChonkSize
      BY <1>5 DEF Sound, InHeap
    <2>2. /\ Clear(arr).isize = arr.isize /\ Clear(arr).count = 0
          /\ Clear(arr).allocated = 0 /\ Clear(arr).data = <<>>
      BY <2>1 DEF Clear, Arrays
    <2> QED
      BY <1>2, <2>1, <2>2, NewCounts
  <1> QED
    BY <1>3, <1>4, <1>5
=============================================================================
