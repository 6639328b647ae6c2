------------------------------ MODULE ArrayOps ------------------------------
(***************************************************************************)
(* The functions of lib/array.c, as operators on the value of a struct     *)
(* Array, for the modules that keep one (Array) or two (Index).            *)
(*                                                                         *)
(* A function that allocates or reads a file may end in several ways: it   *)
(* is the set of its outcomes, each the array it leaves and what it        *)
(* returns.  Pointers returned are Null or OK.                             *)
(*                                                                         *)
(* The block that data points to is a function from the 0-based item       *)
(* numbers that fit in it; a NULL data is the empty function.  allocated   *)
(* is what the code believes the size of the block is.  Two fields are not *)
(* the code's: overrun says that a write went past the block, and suspect  *)
(* that the array is one whose count or allocated the code could not know  *)
(* to be wrong: it stands over a caller's buffer (array_from_buf()), or an *)
(* error in reading it was ignored (array_load()).  Once suspect, always.  *)
(***************************************************************************)
EXTENDS Integers, FiniteSets, Bsearchn

CONSTANTS Items,      \* the values of items
          Garbage,    \* what memory holds that was never written
          PageSize,   \* PAGESIZE and CHONKSIZE, in bytes
          ChonkSize,
          Heap,       \* the largest block that malloc() can return
          SizeMax     \* the largest size_t

ASSUME ItemsAssumption == Items \subseteq Int /\ Garbage \notin Items
ASSUME SizesAssumption ==
    /\ PageSize \in Nat /\ ChonkSize \in Nat /\ Heap \in Nat
    /\ SizeMax \in Nat /\ 2 * (Heap + ChonkSize) <= SizeMax

Null == -1       \* a NULL pointer, and -1 as the error of an ssize_t
OK == 0          \* a pointer that is not NULL
AllOnes == SizeMax  \* ~0

MAX(x, y) == IF x > y THEN x ELSE y

(* A number of type ssize_t, as C compares it with a size_t. *)
Unsigned(r) == r % (SizeMax + 1)

Outcome(arr, ret) == [arr |-> arr, ret |-> ret]

(* A pointer to no array.  array_new() allows no item size 0. *)
NoArray == [isize |-> 0, count |-> 0, allocated |-> 0, data |-> <<>>,
            overrun |-> FALSE, suspect |-> FALSE]

Exists(a) == a.isize # 0

Block(n) == 0 .. n - 1

Cell(a, i) == IF i \in DOMAIN a.data THEN a.data[i] ELSE Garbage

Written(a, lo, hi) == \A i \in lo .. hi : Cell(a, i) \in Items

----------------------------------------------------------------------------
Empty(isize) == [NoArray EXCEPT !.isize = isize]

(* array_new(): NULL for items of size 0, or if there is no memory.        *)
New(isize) == {NoArray, Empty(isize)}

(* array_realloc(): never below count.  reallocarray() may fail at any     *)
(* time, and must if the block is larger than any it can return.  The slip *)
(* stores the NULL of a failed reallocarray() in data.                     *)
ReallocLosingData(a, alloc_count) ==
    IF ~Exists(a) THEN {Outcome(a, -1)}
    ELSE IF alloc_count = 0 THEN {Outcome(a, 0)}
    ELSE {Outcome([a EXCEPT !.data = <<>>], -1)}

Realloc(a, alloc_count) ==
    LET n == MAX(alloc_count, a.count)
        moved == [i \in Block(n) |-> Cell(a, i)]
    IN  IF ~Exists(a) THEN {Outcome(a, -1)}
        ELSE IF alloc_count = 0 THEN {Outcome(a, 0)}
        ELSE {Outcome(a, -1)} \cup
             IF n * a.isize <= Heap
             THEN {Outcome([a EXCEPT !.allocated = n, !.data = moved], n)}
             ELSE {}

(* array_grow(): the first page, then twice the size, then by chonks.      *)
Grow(a) ==
    IF ~Exists(a) THEN {Outcome(a, -1)}
    ELSE CASE a.allocated = 0 ->
                Realloc(a, MAX(4, PageSize \div a.isize))
           [] a.allocated # 0 /\ Unsigned(a.allocated * a.isize) < ChonkSize ->
                Realloc(a, Unsigned(2 * a.allocated))
           [] OTHER ->
                Realloc(a, Unsigned(a.allocated + ChonkSize \div a.isize))

(* array_init(): an array, whether or not it could grow. *)
InitArray(isize) == UNION {{o.arr : o \in Grow(a)} : a \in New(isize)}

(* array_with_capacity(): the error -1, compared with a size_t, is not     *)
(* less than any.  NULL is returned only if array_new() does.              *)
WithCapacity(isize, alloc_count) ==
    UNION {{IF Unsigned(o.ret) < alloc_count THEN NoArray ELSE o.arr :
               o \in Realloc(a, alloc_count)} : a \in New(isize)}

(* array_from_buf(): the caller's buffer holds just the count items.  (The *)
(* NULL of array_new() would be dereferenced: the program ends.)           *)
FromBuf(isize, buf, count) ==
    [Empty(isize) EXCEPT !.count = count, !.allocated = AllOnes, !.data = buf,
                       !.suspect = TRUE]

(* array_shrink() *)
Shrink(a) == Realloc(a, a.count)

(* array_clear() *)
Clear(a) == [a EXCEPT !.count = 0, !.allocated = 0, !.data = <<>>]

(* array_free(); the outcomes of array_load() name it too. *)
Free(a) == NoArray

----------------------------------------------------------------------------
(* array_load(): file has the items to read.  The file may end, or reading *)
(* it fail, after only k of them.  A short read frees the array.  The -1   *)
(* of pread_retry() is not less than any size_t: after an error the k      *)
(* items that were read are taken for all of them.                         *)
ReadInto(a, file, k) ==
    [i \in DOMAIN a.data |-> IF i < k THEN file[i] ELSE a.data[i]]

ReadAll(a, file, count) ==
    Outcome([a EXCEPT !.data = ReadInto(a, file, count), !.count = count], OK)

ReadShort(a) == Outcome(Free(a), Null)

ReadFailed(a, file, k, count) ==
    IF Unsigned(-1) < count * a.isize THEN Outcome(Free(a), Null)
    ELSE Outcome([a EXCEPT !.data = ReadInto(a, file, k), !.count = count,
                           !.suspect = TRUE], OK)

Load(a, file, count) ==
    IF ~Exists(a) THEN {Outcome(a, Null)}
    ELSE UNION {IF o.ret # count THEN {Outcome(o.arr, Null)}
                ELSE {ReadAll(o.arr, file, count)} \cup
                     {ReadShort(o.arr) : k \in 0 .. count - 1} \cup
                     {ReadFailed(o.arr, file, k, count) : k \in 0 .. count - 1} :
                   o \in Realloc(a, count)}

----------------------------------------------------------------------------
(* ARRAY_ENSURE_SPACE: ret is whether there is room for one more item.     *)
(* The slip takes a full block for one with room.                          *)
EnsureSpaceOffByOne(a) ==
    IF a.allocated >= a.count THEN {Outcome(a, TRUE)}
    ELSE {Outcome(o.arr, o.ret > 0) : o \in Grow(a)}

EnsureSpace(a) ==
    IF a.allocated > a.count THEN {Outcome(a, TRUE)}
    ELSE {Outcome(o.arr, o.ret > 0) : o \in Grow(a)}

(* Put item at idx, after moving the items from idx on up by one.  The     *)
(* slip moves them as memcpy() may, over the items yet to be moved.        *)
PutAtByMemcpy(a, item, idx) ==
    [a EXCEPT !.data = [i \in DOMAIN a.data |->
                           CASE i = idx                -> item
                             [] idx < i /\ i <= a.count -> a.data[idx]
                             [] OTHER                  -> a.data[i]],
              !.count = a.count + 1,
              !.overrun = @ \/ a.count \notin DOMAIN a.data]

PutAt(a, item, idx) ==
    [a EXCEPT !.data = [i \in DOMAIN a.data |->
                           CASE i = idx                -> item
                             [] idx < i /\ i <= a.count -> a.data[i - 1]
                             [] OTHER                  -> a.data[i]],
              !.count = a.count + 1,
              !.overrun = @ \/ a.count \notin DOMAIN a.data]

(* array_append() *)
AppendItem(a, item) ==
    {IF o.ret THEN Outcome(PutAt(o.arr, item, o.arr.count), o.arr.count)
              ELSE Outcome(o.arr, -1) : o \in EnsureSpace(a)}

(* array_insert(): the new count is returned unless it appends. *)
InsertItem(a, item, idx) ==
    CASE idx = a.count -> AppendItem(a, item)
      [] idx > a.count -> {Outcome(a, -1)}
      [] idx < a.count ->
            {IF o.ret THEN Outcome(PutAt(o.arr, item, idx), o.arr.count + 1)
                      ELSE Outcome(o.arr, -1) : o \in EnsureSpace(a)}

(* array_set() *)
SetItem(a, item, idx) ==
    IF idx >= a.count THEN Outcome(a, Null)
    ELSE Outcome([a EXCEPT !.data = [i \in DOMAIN a.data |->
                                        IF i = idx THEN item ELSE a.data[i]],
                           !.overrun = @ \/ idx \notin DOMAIN a.data], OK)

(* The places where array_insort_range() may insert.  Comparing with       *)
(* memory that was never written, in the array or beyond it, may lead      *)
(* anywhere in the range.  The slip leaves the last item of the range out. *)
InsortPlacesShort(a, item, baseidx, num) ==
    IF num = 0 THEN {baseidx}
    ELSE IF Written(a, baseidx, baseidx + num - 1)
         THEN {Bisect(item, a.data, baseidx, baseidx + num - 1)}
         ELSE baseidx .. baseidx + num

InsortPlaces(a, item, baseidx, num) ==
    IF num = 0 THEN {baseidx}
    ELSE IF Written(a, baseidx, baseidx + num - 1)
         THEN {Bisect(item, a.data, baseidx, baseidx + num)}
         ELSE baseidx .. baseidx + num

(* array_insort_range(): it makes space before it looks at its arguments,  *)
(* and returns the place whatever array_insert() says.                     *)
InsortRange(a, item, baseidx, num) ==
    UNION {IF ~o.ret \/ baseidx > o.arr.count THEN {Outcome(o.arr, -1)}
           ELSE UNION {{Outcome(p.arr, idx) : p \in InsertItem(o.arr, item, idx)} :
                          idx \in InsortPlaces(o.arr, item, baseidx, num)} :
              o \in EnsureSpace(a)}

(* array_sort(): qsort_r() leaves the same items in order.  An item that   *)
(* was never written may end up anywhere.                                  *)
InOrder(data, n) ==
    \A i, j \in Block(n) :
        (i < j /\ data[i] # Garbage /\ data[j] # Garbage) => data[i] <= data[j]

SameItems(data1, data2, n) ==
    \A v \in Items : Cardinality({i \in Block(n) : data1[i] = v})
                   = Cardinality({i \in Block(n) : data2[i] = v})

(* The items that array_sort() may leave. *)
Orders(a) ==
    LET cells == [i \in Block(a.count) |-> Cell(a, i)]
    IN  {f \in [Block(a.count) -> {cells[i] : i \in Block(a.count)}] :
            InOrder(f, a.count) /\ SameItems(f, cells, a.count)}

Sort(a) ==
    {[a EXCEPT !.data = [i \in DOMAIN a.data |->
                            IF i < a.count THEN f[i] ELSE a.data[i]]] :
        f \in Orders(a)}
=============================================================================
