----------------------------- MODULE Index_proofs ---------------------------
(***************************************************************************)
(* An index of any size, in any order of its calls, whichever of them      *)
(* fail: its searches stay inside, and what was read from a file is a      *)
(* dictionary.                                                             *)
(***************************************************************************)
EXTENDS Index, ArrayOps_proofs, FiniteSetTheorems

----------------------------------------------------------------------------
(* Fanout tables *)
FirstBytes == 0 .. Bytes - 1

Tables == [FirstBytes -> Nat]

(* It counts at most n keys, and the more the greater the first byte.      *)
Fits(f, n) ==
    /\ f \in Tables
    /\ \A b \in FirstBytes : f[b] <= n
    /\ \A b, c \in FirstBytes : b <= c => f[b] <= f[c]

(* What the first byte of a key leaves of it *)
LEMMA Remainder ==
    ASSUME NEW k \in Nat
    PROVE  /\ FirstByte(k) \in Nat
           /\ PerByte * FirstByte(k) <= k /\ k < PerByte * FirstByte(k) + PerByte
  BY IndexAssumption, Division DEF FirstByte

(* The type of keys and of their first bytes                               *)
LEMMA FirstByteType ==
    ASSUME NEW k \in Keys
    PROVE  k \in Nat /\ FirstByte(k) \in FirstBytes
  <1>1. k \in Nat /\ k < Bytes * PerByte
    BY IndexAssumption DEF Keys
  <1>2. PerByte * Bytes = Bytes * PerByte /\ Bytes \in Nat /\ PerByte \in Nat
    BY IndexAssumption
  <1>3. ~(Bytes < FirstByte(k)) /\ FirstByte(k) # Bytes
    <2>1. FirstByte(k) \in Nat /\ PerByte * FirstByte(k) <= k
      BY <1>1, Remainder
    <2>2. PerByte * FirstByte(k) \in Nat /\ PerByte * Bytes \in Nat
      BY <1>2, <2>1
    <2>3. Bytes < FirstByte(k) => PerByte * Bytes + PerByte <= PerByte * FirstByte(k)
      BY <1>2, <2>1, Multiples
    <2> QED
      BY <1>1, <1>2, <2>1, <2>2, <2>3
  <1> QED
    BY <1>1, <1>2, <1>3, Remainder DEF FirstBytes

(* Keys in order have their first bytes in order. *)
LEMMA FirstByteOrder ==
    ASSUME NEW k \in Keys, NEW l \in Keys
    PROVE  k <= l => FirstByte(k) <= FirstByte(l)
  BY FirstByteType, IndexAssumption, QuotientOrder DEF FirstByte

(* The fanout table of a file *)
LEMMA FanoutFits ==
    ASSUME NEW keys, NEW n \in Nat, \A i \in 0 .. n - 1 : keys[i] \in Keys
    PROVE  Fits(FanoutOf(keys, n), n)
  <1> DEFINE upto(b) == {i \in 0 .. n - 1 : FirstByte(keys[i]) <= b}
             f == FanoutOf(keys, n)
  <1>1. f = [b \in FirstBytes |-> Cardinality(upto(b))]
    BY DEF FanoutOf, FirstBytes
  <1>2. IsFiniteSet(0 .. n - 1) /\ Cardinality(0 .. n - 1) = n
    BY FS_Interval
  <1>3. ASSUME NEW b PROVE Cardinality(upto(b)) \in Nat /\ Cardinality(upto(b)) <= n
                           /\ IsFiniteSet(upto(b))
    <2>1. upto(b) \in SUBSET (0 .. n - 1)
      OBVIOUS
    <2> QED
      BY <1>2, <2>1, FS_Subset, FS_CardinalityType
  <1>4. ASSUME NEW b \in FirstBytes, NEW c \in FirstBytes, b <= c
        PROVE  Cardinality(upto(b)) <= Cardinality(upto(c))
    <2>1. ASSUME NEW i \in 0 .. n - 1, FirstByte(keys[i]) <= b PROVE FirstByte(keys[i]) <= c
      <3>1. FirstByte(keys[i]) \in Nat /\ b \in Nat /\ c \in Nat
        BY FirstByteType DEF FirstBytes
      <3> QED
        BY <1>4, <2>1, <3>1
    <2>2. upto(b) \in SUBSET upto(c)
      BY <2>1
    <2> QED
      BY <1>3, <2>2, FS_Subset
  <1> HIDE DEF upto
  <1>5. f \in Tables /\ \A b \in FirstBytes : f[b] = Cardinality(upto(b))
    BY <1>1, <1>3 DEF Tables
  <1> HIDE DEF f
  <1>6. Fits(f, n)
    BY <1>3, <1>4, <1>5 DEF Fits
  <1> QED
    BY <1>6 DEF f

(* The table of an index that has just got one *)
LEMMA ZerosFit == \A n \in Nat : Fits(Zeros, n)
  BY DEF Fits, Zeros, Tables, FirstBytes

----------------------------------------------------------------------------
(* The parts of an index.  A fanout table that is there, and was read if   *)
(* it was to be read, never counts more keys than there are.               *)
Fanouts == {NoFanout, NeverRead} \cup Tables

Records == [count : Nat, fanout : Fanouts, keys : Arrays, vals : Arrays]

Searchable(i) == i.fanout \notin {NoFanout, NeverRead}

Shape(i) == i \in Records /\ (Searchable(i) => Fits(i.fanout, i.keys.count))

(* An index with other arrays, and with another table too. *)
WithArrays(i, k, v) == [i EXCEPT !.keys = k, !.vals = v]

WithParts(i, f, k, v) == [i EXCEPT !.fanout = f, !.keys = k, !.vals = v]

(* More keys than it counts are no matter to the table. *)
LEMMA FitsMore ==
    ASSUME NEW f, NEW n \in Nat, NEW m \in Nat, Fits(f, n), n <= m
    PROVE  Fits(f, m)
  <1>1. ASSUME NEW b \in FirstBytes PROVE f[b] <= m
    <2>1. f[b] \in Nat /\ f[b] <= n
      BY DEF Fits, Tables
    <2> QED
      BY <2>1
  <1> QED
    BY <1>1 DEF Fits

(* An index gets other arrays, *)
LEMMA OtherArrays ==
    ASSUME NEW i, Shape(i), NEW k \in Arrays, NEW v \in Arrays, i.keys.count <= k.count
    PROVE  Shape(WithArrays(i, k, v))
  <1> DEFINE j == WithArrays(i, k, v)
  <1>1. i \in Records
    BY DEF Shape
  <1>2. j \in Records /\ j.fanout = i.fanout /\ j.keys = k
    BY <1>1 DEF Records, WithArrays
  <1> HIDE DEF j
  <1>3. i.keys.count \in Nat /\ k.count \in Nat
    BY <1>1 DEF Records, Arrays
  <1>4. Shape(j)
    BY <1>2, <1>3, FitsMore DEF Shape, Searchable
  <1> QED
    BY <1>4 DEF j

(* and another table. *)
LEMMA OtherParts ==
    ASSUME NEW i \in Records, NEW f \in Fanouts, NEW k \in Arrays, NEW v \in Arrays,
           f \notin {NoFanout, NeverRead} => Fits(f, k.count)
    PROVE  Shape(WithParts(i, f, k, v))
  <1> DEFINE j == WithParts(i, f, k, v)
  <1>1. j \in Records /\ j.fanout = f /\ j.keys = k
    BY DEF Records, WithParts
  <1> HIDE DEF j
  <1>2. Shape(j)
    BY <1>1 DEF Shape, Searchable
  <1> QED
    BY <1>2 DEF j

(* No index *)
LEMMA NoIndexShape ==
    /\ Shape(NoIndex) /\ NoIndex.fanout = NoFanout /\ NoIndex \in Records
    /\ NoIndex.keys = NoArray /\ NoIndex.vals = NoArray
  <1>1. NoIndex.fanout = NoFanout /\ NoIndex.keys = NoArray /\ NoIndex.vals = NoArray
        /\ NoFanout \in Fanouts
    BY DEF NoIndex, Fanouts
  <1>2. NoIndex \in Records
    BY <1>1, NewCounts DEF Records, NoIndex
  <1> QED
    BY <1>1, <1>2 DEF Shape, Searchable

(* index_new() *)
MadeOf(k, v) == IF Exists(k) /\ Exists(v) THEN Alive(WithArrays(NoIndex, k, v))
                ELSE [idx |-> NoIndex, died |-> "index_free"]

(* It makes an index of two new arrays. *)
LEMMA NewParts ==
    ASSUME NEW keysize, NEW valsize
    PROVE  NewIndex(keysize, valsize) =
              IF keysize = 0 THEN {Alive(NoIndex)}
              ELSE {Alive(NoIndex)} \cup
                   {MadeOf(k, v) : k \in New(keysize), v \in New(valsize)}
  BY SMT DEF NewIndex, MadeOf, WithArrays

(* Either it is one, or there is none. *)
LEMMA NewShape ==
    ASSUME NEW keysize \in Nat, NEW valsize \in Nat, NEW n \in NewIndex(keysize, valsize)
    PROVE  /\ Shape(n.idx) /\ n.idx.fanout = NoFanout /\ n.idx.keys.count = 0
           /\ n.idx \in Records
  <1>1. \/ n.idx = NoIndex
        \/ \E k \in New(keysize), v \in New(valsize) :
              n.idx = WithArrays(NoIndex, k, v)
    <2>1. \A j : Alive(j).idx = j
      BY DEF Alive
    <2>2. ASSUME NEW k, NEW v
          PROVE  MadeOf(k, v).idx = NoIndex \/ MadeOf(k, v).idx = WithArrays(NoIndex, k, v)
      BY <2>1 DEF MadeOf
    <2>3. n = Alive(NoIndex) \/ \E k \in New(keysize), v \in New(valsize) : n = MadeOf(k, v)
      BY NewParts
    <2> QED
      BY <2>1, <2>2, <2>3
  <1>2. ASSUME NEW k \in New(keysize), NEW v \in New(valsize),
               n.idx = WithArrays(NoIndex, k, v)
        PROVE  /\ Shape(n.idx) /\ n.idx.fanout = NoFanout /\ n.idx.keys.count = 0
               /\ n.idx \in Records
    <2>1. k \in Arrays /\ k.count = 0 /\ v \in Arrays
      BY NewCounts
    <2>2. n.idx \in Records /\ n.idx.fanout = NoFanout /\ n.idx.keys = k
      BY <1>2, <2>1, NoIndexShape DEF Records, WithArrays
    <2> QED
      BY <2>1, <2>2 DEF Shape, Searchable
  <1> QED
    BY <1>1, <1>2, NoIndexShape, NewCounts

(* index_init() *)
LEMMA InitParts ==
    ASSUME NEW i
    PROVE  InitIndex(i) = {WithParts(i, f, k.arr, v.arr) :
                              f \in Callocs, k \in Grow(i.keys), v \in Grow(i.vals)}
  BY SMT DEF InitIndex, WithParts

(* It leaves an index. *)
LEMMA InitShape ==
    ASSUME NEW i \in Records, NEW j \in InitIndex(i)
    PROVE  Shape(j)
  <1>1. PICK f \in Callocs, k \in Grow(i.keys), v \in Grow(i.vals) :
           j = WithParts(i, f, k.arr, v.arr)
    BY InitParts
  <1>2. i.keys \in Arrays /\ i.vals \in Arrays
    BY DEF Records
  <1>3. k.arr \in Arrays /\ v.arr \in Arrays /\ k.arr.count \in Nat
    BY <1>2, GrowKeeps DEF Keeps, Arrays
  <1>4. f = NoFanout \/ f = Zeros
    BY <1>1 DEF Callocs
  <1>5. f \in Fanouts /\ (f \notin {NoFanout, NeverRead} => Fits(f, k.arr.count))
    BY <1>3, <1>4, ZerosFit DEF Fanouts, Fits
  <1> QED
    BY <1>1, <1>3, <1>5, OtherParts

(* index_realloc() keeps both arrays' items and the table, if there is one *)
Realloced(i, j, k, v) ==
    \/ j = WithArrays(i, k, v)
    \/ i.fanout = NoFanout /\ \E f \in Callocs : j = WithParts(i, f, k, v)

ReallocsTo(arr, b) == b = arr \/ \E n \in Nat : \E o \in Realloc(arr, n) : b = o.arr

ReallocStep(i, n, f, k, v) ==
    CASE Unsigned(k.ret) < n -> Outcome([i EXCEPT !.fanout = f, !.keys = k.arr], -1)
      [] Unsigned(k.ret) >= n /\ Unsigned(v.ret) < n ->
           Outcome([i EXCEPT !.fanout = f, !.keys = k.arr, !.vals = v.arr], -1)
      [] OTHER -> Outcome([i EXCEPT !.fanout = f, !.keys = k.arr, !.vals = v.arr], n)

(* The ways index_realloc() ends *)
LEMMA ReallocSteps ==
    ASSUME NEW i, NEW n
    PROVE  ReallocIndex(i, n) =
              {ReallocStep(i, n, f, k, v) :
                  f \in IF i.fanout = NoFanout THEN Callocs ELSE {i.fanout},
                  k \in Realloc(i.keys, n), v \in Realloc(i.vals, n)}
  BY SMT DEF ReallocIndex, ReallocStep

(* index_realloc() reallocates one array or both, or none. *)
LEMMA ReallocParts ==
    ASSUME NEW i \in Records, NEW n \in Nat, NEW o \in ReallocIndex(i, n)
    PROVE  \E k, v : /\ ReallocsTo(i.keys, k) /\ ReallocsTo(i.vals, v)
                     /\ Realloced(i, o.arr, k, v)
  <1> DEFINE F == IF i.fanout = NoFanout THEN Callocs ELSE {i.fanout}
             Step(f, k, v) == ReallocStep(i, n, f, k, v)
  <1>1. ASSUME NEW f, NEW k
        PROVE  [i EXCEPT !.fanout = f, !.keys = k] = WithParts(i, f, k, i.vals)
    BY DEF Records, WithParts
  <1>2. ReallocIndex(i, n) = {Step(f, k, v) : f \in F, k \in Realloc(i.keys, n),
                                               v \in Realloc(i.vals, n)}
    BY ReallocSteps
  <1>3. ASSUME NEW f, NEW k, NEW v
        PROVE  Step(f, k, v).arr \in {WithParts(i, f, k.arr, i.vals), WithParts(i, f, k.arr, v.arr)}
    <2>1. \A b, r : Outcome(b, r).arr = b
      BY DEF Outcome
    <2>2. [i EXCEPT !.fanout = f, !.keys = k.arr, !.vals = v.arr] = WithParts(i, f, k.arr, v.arr)
      BY DEF WithParts
    <2> QED
      BY <1>1, <2>1, <2>2 DEF ReallocStep
  <1> HIDE DEF Step
  <1>4. PICK f \in F, k \in Realloc(i.keys, n), v \in Realloc(i.vals, n) : o = Step(f, k, v)
    BY <1>2
  <1>5. PICK w \in {i.vals, v.arr} : o.arr = WithParts(i, f, k.arr, w)
    BY <1>3, <1>4
  <1>6. ReallocsTo(i.keys, k.arr) /\ ReallocsTo(i.vals, w)
    BY <1>4, <1>5 DEF ReallocsTo
  <1>7. CASE i.fanout = NoFanout
    BY <1>4, <1>5, <1>6, <1>7 DEF Realloced
  <1>8. CASE i.fanout # NoFanout
    <2>1. f = i.fanout
      BY <1>4, <1>8
    <2>2. WithParts(i, f, k.arr, w) = WithArrays(i, k.arr, w)
      BY <2>1 DEF Records, WithParts, WithArrays
    <2> QED
      BY <1>5, <1>6, <2>2 DEF Realloced
  <1> QED
    BY <1>7, <1>8

(* It leaves an index. *)
LEMMA ReallocShape ==
    ASSUME NEW i, Shape(i), NEW n \in Nat, NEW o \in ReallocIndex(i, n)
    PROVE  Shape(o.arr)
  <1>1. i \in Records /\ i.keys \in Arrays /\ i.vals \in Arrays
    BY DEF Shape, Records
  <1>2. PICK k, v : /\ ReallocsTo(i.keys, k) /\ ReallocsTo(i.vals, v)
                    /\ Realloced(i, o.arr, k, v)
    BY <1>1, ReallocParts
  <1>3. ASSUME NEW arr \in Arrays, NEW b, ReallocsTo(arr, b) PROVE Keeps(arr, b)
    BY <1>3, ReallocKeeps DEF ReallocsTo, Keeps
  <1>4. Keeps(i.keys, k) /\ Keeps(i.vals, v)
    BY <1>1, <1>2, <1>3
  <1>5. k \in Arrays /\ v \in Arrays /\ k.count \in Nat /\ i.keys.count <= k.count
    BY <1>1, <1>4 DEF Keeps, Arrays
  <1>6. ASSUME NEW f \in Callocs PROVE Shape(WithParts(i, f, k, v))
    <2>1. f = NoFanout \/ f = Zeros
      BY DEF Callocs
    <2>2. f \in Fanouts /\ (f \notin {NoFanout, NeverRead} => Fits(f, k.count))
      BY <1>5, <2>1, ZerosFit DEF Fanouts, Fits
    <2> QED
      BY <1>1, <1>5, <2>2, OtherParts
  <1> QED
    BY <1>2, <1>5, <1>6, OtherArrays DEF Realloced

(* index_clear() *)
LEMMA ClearShape ==
    ASSUME NEW i, Shape(i)
    PROVE  Shape(ClearIndex(i))
  <1> DEFINE j == ClearIndex(i)
  <1>1. i \in Records /\ Clear(i.keys) \in Arrays /\ Clear(i.vals) \in Arrays
    BY NewCounts DEF Shape, Records
  <1>2. NoFanout \in Fanouts
    BY DEF Fanouts
  <1>3. j \in Records /\ j.fanout = NoFanout
    BY <1>1, <1>2 DEF ClearIndex, Records
  <1> HIDE DEF j
  <1>4. Shape(j)
    BY <1>3 DEF Shape, Searchable
  <1> QED
    BY <1>4 DEF j

(* load_index_data(): the parts that were read, or no index. *)
Loaded(i, n, f, k, v) == WithArrays([i EXCEPT !.count = n, !.fanout = f], k, v)

LoadedFrom(i, file, o) ==
    \E f \in FanoutReads(file) :
       \E k \in Load(i.keys, At(f.ret, file.keys), file.count),
          v \in Load(i.vals, At(f.ret, file.vals), file.count) :
             /\ k.ret # Null /\ v.ret # Null
             /\ o = Outcome(Loaded(i, file.count, f.arr, k.arr, v.arr), f.ret)

(* The two array_load() of load_index_data() *)
LEMMA LoadSteps ==
    ASSUME NEW i, NEW file, NEW r
    PROVE  LoadArrays(i, file, r) =
              UNION {IF k.ret = Null THEN {Outcome(NoIndex, -EIO)}
                     ELSE {IF v.ret = Null THEN Outcome(NoIndex, -EIO)
                           ELSE Outcome(WithArrays(i, k.arr, v.arr), r) :
                              v \in Load(i.vals, At(r, file.vals), file.count)} :
                        k \in Load(i.keys, At(r, file.keys), file.count)}
  BY SMT DEF LoadArrays, WithArrays

(* The ways load_index_data() ends *)
LEMMA LoadParts ==
    ASSUME NEW i \in Records, NEW file, NEW o \in LoadIndexData(i, file)
    PROVE  o = Outcome(NoIndex, -EIO) \/ LoadedFrom(i, file, o)
  <1> DEFINE J(f) == [i EXCEPT !.count = file.count, !.fanout = f.arr]
  <1>1. PICK f \in FanoutReads(file) :
            o \in IF Unsigned(f.ret) < FANOUT_SIZE THEN {Outcome(NoIndex, -EIO)}
                  ELSE LoadArrays(J(f), file, f.ret)
    BY DEF LoadIndexData
  <1>2. J(f).keys = i.keys /\ J(f).vals = i.vals
    BY DEF Records
  <1>3. CASE o \in LoadArrays(J(f), file, f.ret)
    <2> DEFINE A(k, v) == WithArrays(J(f), k.arr, v.arr)
               Ks == Load(i.keys, At(f.ret, file.keys), file.count)
               Vs == Load(i.vals, At(f.ret, file.vals), file.count)
    <2>2. PICK k \in Ks :
             o \in IF k.ret = Null THEN {Outcome(NoIndex, -EIO)}
                   ELSE {IF v.ret = Null THEN Outcome(NoIndex, -EIO)
                         ELSE Outcome(A(k, v), f.ret) : v \in Vs}
      BY <1>2, <1>3, LoadSteps
    <2> HIDE DEF A
    <2>3. o = Outcome(NoIndex, -EIO) \/
          \E v \in Vs : k.ret # Null /\ v.ret # Null /\ o = Outcome(A(k, v), f.ret)
      BY <2>2
    <2> QED
      BY <1>1, <2>2, <2>3 DEF LoadedFrom, Loaded, A
  <1> QED
    BY <1>1, <1>3

(* A file is an index, and its table counts its keys. *)
LEMMA FileParts ==
    ASSUME NEW file \in Files
    PROVE  /\ file.count \in Nat /\ file.count <= MaxCount
           /\ file.keys \in SortedKeys(file.count) /\ file.vals \in [Block(file.count) -> Vals]
           /\ file.fanout = FanoutOf(file.keys, file.count)
           /\ Fits(file.fanout, file.count)
  <1> DEFINE R(n, keys, vals) == [count |-> n, fanout |-> FanoutOf(keys, n),
                                  keys |-> keys, vals |-> vals]
  <1>1. PICK n \in 0 .. MaxCount : file \in {R(n, keys, vals) :
                        keys \in SortedKeys(n), vals \in [Block(n) -> Vals]}
    BY DEF Files
  <1>2. PICK keys \in SortedKeys(n), vals \in [Block(n) -> Vals] : file = R(n, keys, vals)
    BY <1>1
  <1>3. \A i \in 0 .. n - 1 : keys[i] \in Keys
    BY <1>2 DEF SortedKeys, Block
  <1>4. n \in Nat /\ n <= MaxCount /\ Fits(FanoutOf(keys, n), n)
    BY <1>3, FanoutFits, IndexAssumption
  <1> QED
    BY <1>2, <1>4

(* What load_index_data() leaves is an index. *)
LEMMA LoadShape ==
    ASSUME NEW i \in Records, NEW file \in Files, NEW o \in LoadIndexData(i, file)
    PROVE  Shape(o.arr)
  <1>1. CASE o = Outcome(NoIndex, -EIO)
    BY <1>1, NoIndexShape DEF Outcome
  <1>2. CASE LoadedFrom(i, file, o)
    <2>1. PICK f \in FanoutReads(file) :
             \E k \in Load(i.keys, At(f.ret, file.keys), file.count),
                v \in Load(i.vals, At(f.ret, file.vals), file.count) :
                   /\ k.ret # Null /\ v.ret # Null
                   /\ o = Outcome(Loaded(i, file.count, f.arr, k.arr, v.arr), f.ret)
      BY <1>2 DEF LoadedFrom
    <2>2. PICK k \in Load(i.keys, At(f.ret, file.keys), file.count),
               v \in Load(i.vals, At(f.ret, file.vals), file.count) :
                   /\ k.ret # Null /\ v.ret # Null
                   /\ o = Outcome(Loaded(i, file.count, f.arr, k.arr, v.arr), f.ret)
      BY <2>1
    <2>3. i.keys \in Arrays /\ i.vals \in Arrays
      BY DEF Records
    <2>4. /\ file.count \in Nat /\ Fits(file.fanout, file.count)
          /\ file.keys \in [Block(file.count) -> Keys] /\ file.vals \in [Block(file.count) -> Vals]
      BY FileParts DEF SortedKeys
    <2>5. /\ \A j \in Block(file.count) : At(f.ret, file.keys)[j] \in Items \cup {Garbage}
          /\ \A j \in Block(file.count) : At(f.ret, file.vals)[j] \in Items \cup {Garbage}
      BY <2>4, IndexAssumption DEF At, Shifted
    <2>6. k.arr \in Arrays /\ k.arr.count = file.count /\ v.arr \in Arrays
      BY <2>2, <2>3, <2>4, <2>5, LoadCounts
    <2>7. f.arr \in {file.fanout, NeverRead, NoFanout}
      BY DEF FanoutReads, Outcome
    <2> DEFINE j == [i EXCEPT !.count = file.count, !.fanout = f.arr]
    <2>8. f.arr \in Fanouts /\ (f.arr \notin {NoFanout, NeverRead} => Fits(f.arr, file.count))
      BY <2>4, <2>7 DEF Fits, Fanouts
    <2>9. Loaded(i, file.count, f.arr, k.arr, v.arr) = WithParts(j, f.arr, k.arr, v.arr)
      BY DEF Loaded, WithArrays, WithParts, Records
    <2>10. j \in Records
      BY <2>4, <2>8 DEF Records
    <2> HIDE DEF j
    <2>11. Shape(WithParts(j, f.arr, k.arr, v.arr))
      BY <2>6, <2>8, <2>10, OtherParts
    <2> QED
      BY <2>2, <2>9, <2>11 DEF Outcome
  <1> QED
    BY <1>1, <1>2, LoadParts

(* The ways index_add() ends *)
LEMMA AddInserts ==
    ASSUME NEW i, NEW key, NEW val, NEW found
    PROVE  AddIndex(i, key, val, found) =
              IF found >= 0 THEN {[i EXCEPT !.vals = SetItem(i.vals, val, found).arr]}
              ELSE {WithArrays(i, k.arr, v.arr) :
                       k \in InsertItem(i.keys, key, Complement(found)),
                       v \in InsertItem(i.vals, val, Complement(found))}
  BY SMT DEF AddIndex, WithArrays

(* index_add() replaces a value, or inserts a key and a value, or one of   *)
(* them.                                                                   *)
LEMMA AddParts ==
    ASSUME NEW i \in Records, NEW key, NEW val, NEW found, NEW j \in AddIndex(i, key, val, found)
    PROVE  \/ found >= 0 /\ j = WithArrays(i, i.keys, SetItem(i.vals, val, found).arr)
           \/ /\ ~(found >= 0)
              /\ \E k \in InsertItem(i.keys, key, Complement(found)),
                    v \in InsertItem(i.vals, val, Complement(found)) :
                       j = WithArrays(i, k.arr, v.arr)
  <1>1. CASE found >= 0
    <2>1. j = [i EXCEPT !.vals = SetItem(i.vals, val, found).arr]
      BY <1>1, AddInserts
    <2> QED
      BY <1>1, <2>1 DEF WithArrays, Records
  <1>2. CASE ~(found >= 0)
    BY <1>2, AddInserts
  <1> QED
    BY <1>1, <1>2

(* It leaves an index with as many keys or one more. *)
LEMMA AddShape ==
    ASSUME NEW i, Shape(i), NEW key \in Items, NEW val \in Items, NEW found \in Int,
           NEW j \in AddIndex(i, key, val, found)
    PROVE  Shape(j)
  <1>1. i \in Records /\ i.keys \in Arrays /\ i.vals \in Arrays /\ i.keys.count \in Nat
    BY DEF Shape, Records, Arrays
  <1>2. CASE found >= 0 /\ j = WithArrays(i, i.keys, SetItem(i.vals, val, found).arr)
    BY <1>1, <1>2, SetKeeps, OtherArrays DEF Keeps
  <1>3. ASSUME ~(found >= 0), NEW k \in InsertItem(i.keys, key, Complement(found)),
               NEW v \in InsertItem(i.vals, val, Complement(found)),
               j = WithArrays(i, k.arr, v.arr)
        PROVE  Shape(j)
    <2>1. Complement(found) \in Nat
      BY <1>3 DEF Complement
    <2>2. k.arr \in Arrays /\ v.arr \in Arrays /\ i.keys.count <= k.arr.count
      BY <1>1, <2>1, InsertCounts
    <2> QED
      BY <1>3, <2>2, OtherArrays
  <1> QED
    BY <1>1, <1>2, <1>3, AddParts

----------------------------------------------------------------------------
(* The window that the table leaves to a search is within the keys. *)
LEMMA WindowInside ==
    ASSUME NEW f, NEW n \in Nat, Fits(f, n), NEW key \in Keys
    PROVE  /\ BaseOf(f, key) \in Nat /\ NumOf(f, key) \in Nat
           /\ BaseOf(f, key) + NumOf(f, key) = f[FirstByte(key)]
           /\ f[FirstByte(key)] \in Nat /\ f[FirstByte(key)] <= n
  <1> DEFINE b == FirstByte(key)
  <1>1. b \in FirstBytes /\ b \in Nat
    BY FirstByteType DEF FirstBytes
  <1>2. b # 0 => b - 1 \in FirstBytes /\ b - 1 <= b
    <2> HIDE DEF b
    <2> QED
      BY <1>1, IndexAssumption DEF FirstBytes
  <1> HIDE DEF b
  <1>3. f[b] \in Nat /\ f[b] <= n /\ (b # 0 => f[b - 1] \in Nat /\ f[b - 1] <= f[b])
    BY <1>1, <1>2 DEF Fits, Tables
  <1> QED
    BY <1>3 DEF BaseOf, NumOf, b

(* index_find() returns a place or the complement of one. *)
LEMMA FindType ==
    ASSUME NEW i, Shape(i), Searchable(i), NEW key \in Keys, NEW found \in Finds(i, key)
    PROVE  found \in Int
  <1> DEFINE base == BaseOf(i.fanout, key)
             num == NumOf(i.fanout, key)
  <1>1. base \in Nat /\ num \in Nat
    BY WindowInside DEF Shape, Records, Arrays
  <1>2. key \in Int
    BY FirstByteType
  <1>3. IndexFind(i, key) = IrSearch(key, i.keys.data)[<<base, num>>] /\ <<base, num>> \in Windows
    BY <1>1, Calls DEF IndexFind
  <1>4. IndexFind(i, key) \in Int
    BY <1>2, <1>3, IrIsExact DEF IrFound
  <1> HIDE DEF base, num
  <1>5. \A j \in base .. base + num : j \in Int /\ Complement(j) \in Int
    BY <1>1 DEF Complement
  <1>6. \/ found = IndexFind(i, key) \/ found \in base .. base + num - 1
        \/ \E j \in base .. base + num : found = Complement(j)
    BY DEF Finds, base, num
  <1> QED
    BY <1>1, <1>4, <1>5, <1>6

(* The functions that make an index leave the one they made, or none. *)
LEMMA MakeShape ==
    ASSUME NEW n, NEW i, Shape(i), Make(n, i)
    PROVE  Shape(idx')
  BY NoIndexShape DEF Make

(* Every call leaves an index, or none. *)
LEMMA NextShape ==
    ASSUME Shape(idx), [Next]_vars
    PROVE  Shape(idx')
  <1> USE IndexAssumption
  <1>1. idx \in Records
    BY DEF Shape
  <1>2. ASSUME NEW keysize \in {0, KeySize}, NEW valsize \in ValSizes,
               NEW n \in NewIndex(keysize, valsize)
        PROVE  Shape(n.idx) /\ n.idx \in Records
    BY NewShape
  <1>3. CASE IndexNew
    BY <1>2, <1>3, MakeShape DEF IndexNew
  <1>4. CASE IndexInit
    <2>1. PICK keysize \in {0, KeySize}, valsize \in ValSizes :
             \E n \in NewIndex(keysize, valsize) :
                \E i \in InitIndex(n.idx) : Make(n, i)
      BY <1>4 DEF IndexInit
    <2>2. PICK n \in NewIndex(keysize, valsize) : \E i \in InitIndex(n.idx) : Make(n, i)
      BY <2>1
    <2>4. PICK i \in InitIndex(n.idx) : Make(n, i)
      BY <2>2
    <2>3. Shape(i)
      BY <1>2, <2>4, InitShape
    <2> QED
      BY <2>3, <2>4, MakeShape
  <1>5. CASE IndexWithCapacity
    <2>1. PICK keysize \in {0, KeySize}, valsize \in ValSizes, alloc_count \in AllocCounts :
             \E n \in NewIndex(keysize, valsize) :
                IF alloc_count = 0 \/ ~Made(n.idx) THEN Make(n, n.idx)
                ELSE \E o \in ReallocIndex(n.idx, alloc_count) :
                        Make(n, IF o.ret > 0 THEN o.arr ELSE NoIndex)
      BY <1>5 DEF IndexWithCapacity
    <2>2. PICK n \in NewIndex(keysize, valsize) :
             \/ Make(n, n.idx)
             \/ \E o \in ReallocIndex(n.idx, alloc_count) : Make(n, o.arr) \/ Make(n, NoIndex)
      BY <2>1
    <2>3. Shape(n.idx) /\ Shape(NoIndex) /\ alloc_count \in Nat
      BY <1>2, NoIndexShape
    <2>4. ASSUME NEW o \in ReallocIndex(n.idx, alloc_count) PROVE Shape(o.arr)
      BY <2>3, ReallocShape
    <2> QED
      BY <2>2, <2>3, <2>4, MakeShape
  <1>6. CASE IndexLoad
    <2>1. PICK keysize \in {0, KeySize}, valsize \in ValSizes :
             \E n \in NewIndex(keysize, valsize) :
                \/ idx' = NoIndex
                \/ \E file \in Files : \E o \in LoadIndexData(n.idx, file) : idx' = o.arr
      BY <1>6 DEF IndexLoad
    <2>2. PICK n \in NewIndex(keysize, valsize) :
                \/ idx' = NoIndex
                \/ \E file \in Files : \E o \in LoadIndexData(n.idx, file) : idx' = o.arr
      BY <2>1
    <2> QED
      BY <1>2, <2>2, LoadShape, NoIndexShape
  <1>7. CASE IndexRealloc
    <2>1. PICK alloc_count \in AllocCounts : \E o \in ReallocIndex(idx, alloc_count) : idx' = o.arr
      BY <1>7 DEF IndexRealloc
    <2>2. PICK o \in ReallocIndex(idx, alloc_count) : idx' = o.arr
      BY <2>1
    <2> QED
      BY <2>2, ReallocShape
  <1>8. CASE IndexClear
    BY <1>8, ClearShape DEF IndexClear
  <1>9. CASE IndexFree \/ FindWithoutFanout
    BY <1>9, NoIndexShape DEF IndexFree, FindWithoutFanout
  <1>10. ASSUME NEW key \in Keys, NEW val \in Vals, IndexAdd(key, val) PROVE Shape(idx')
    <2>1. PICK found \in Finds(idx, key) : \E i \in AddIndex(idx, key, val, found) : idx' = i
      BY <1>10 DEF IndexAdd
    <2>2. Searchable(idx)
      BY <1>10 DEF IndexAdd, Searchable
    <2>3. found \in Int /\ key \in Items /\ val \in Items
      BY <2>2, FindType
    <2> QED
      BY <2>1, <2>3, AddShape
  <1>11. CASE UNCHANGED vars
    BY <1>11 DEF vars
  <1> QED
    BY <1>3, <1>4, <1>5, <1>6, <1>7, <1>8, <1>9, <1>10, <1>11 DEF Next

(* The index always is one. *)
LEMMA ShapeHolds == Spec => []Shape(idx)
  <1>1. Init => Shape(idx)
    BY NoIndexShape DEF Init
  <1>2. Shape(idx) /\ [Next]_vars => Shape(idx)'
    BY NextShape
  <1> QED
    BY <1>1, <1>2, PTL DEF Spec

(* No index_find() looks at a place past the last key, whatever was called *)
(* before and whichever calls failed (index.c:183-203).                    *)
THEOREM SearchesStayInside == Spec => []FindStaysInside
  <1>1. ASSUME Shape(idx) PROVE FindStaysInside
    <2>1. SUFFICES ASSUME Searchable(idx), NEW key \in Keys
                   PROVE  /\ NumOf(idx.fanout, key) >= 0
                          /\ BaseOf(idx.fanout, key) + NumOf(idx.fanout, key) <= idx.keys.count
      BY DEF FindStaysInside, Searchable
    <2>2. idx.keys.count \in Nat /\ Fits(idx.fanout, idx.keys.count)
      BY <1>1, <2>1 DEF Shape, Records, Arrays
    <2> QED
      BY <2>2, WindowInside
  <1> QED
    BY <1>1, ShapeHolds, PTL

----------------------------------------------------------------------------
(* What the functions of array.c leave in arrays that tell the truth.      *)

(* array_set() replaces one item. *)
LEMMA SetCells ==
    ASSUME NEW arr, Honest(arr), ~arr.suspect, NEW item \in Items,
           NEW at \in Nat, at < arr.count
    PROVE  LET b == SetItem(arr, item, at).arr
           IN  /\ Honest(b) /\ ~b.suspect /\ b.count = arr.count /\ b.isize = arr.isize
               /\ \A j \in Block(arr.count) :
                     Cell(b, j) = IF j = at THEN item ELSE Cell(arr, j)
  <1> DEFINE data == [i \in DOMAIN arr.data |-> IF i = at THEN item ELSE arr.data[i]]
             over == arr.overrun \/ at \notin DOMAIN arr.data
             o == SetItem(arr, item, at)
             b == o.arr
  <1>1. arr \in Arrays /\ arr.count \in Nat /\ arr.allocated \in Nat /\ Holds(arr)
    BY DEF Honest, Arrays
  <1>2. b = [arr EXCEPT !.data = data, !.overrun = over] /\ o.ret = OK
    BY <1>1 DEF SetItem, Outcome, Arrays
  <1>3. Honest(b)
    BY SetFine DEF Fine
  <1>4. DOMAIN data = DOMAIN arr.data /\ \A j \in DOMAIN arr.data :
           data[j] = IF j = at THEN item ELSE arr.data[j]
    OBVIOUS
  <1> HIDE DEF data, over, o
  <1>5. b.data = data /\ b.count = arr.count /\ b.isize = arr.isize /\ b.suspect = arr.suspect
    BY <1>1, <1>2 DEF Arrays
  <1>6. Block(arr.count) \subseteq DOMAIN arr.data
    BY <1>1 DEF Holds, Block
  <1>7. \A j \in Block(arr.count) : Cell(b, j) = IF j = at THEN item ELSE Cell(arr, j)
    BY <1>4, <1>5, <1>6 DEF Cell
  <1> QED
    BY <1>3, <1>5, <1>7 DEF o

(* array_load(): unless an error was ignored, what is there is the file.   *)
LEMMA LoadExact ==
    ASSUME NEW arr, Honest(arr), NEW count \in Nat, NEW file \in [Block(count) -> Items],
           NEW o \in Load(arr, file, count), o.ret # Null, ~o.arr.suspect
    PROVE  /\ Honest(o.arr) /\ o.arr.count = count /\ Exists(o.arr)
           /\ \A j \in Block(count) : Cell(o.arr, j) = file[j]
  <1>1. Honest(o.arr)
    BY LoadFine DEF Fine
  <1>2. Exists(arr)
    <2>1. ~Exists(arr) => o = Outcome(arr, Null)
      BY DEF Load
    <2> QED
      BY <2>1 DEF Outcome
  <1> DEFINE Full(p) == o = ReadAll(p.arr, file, count)
             Part(p) == \E k \in 0 .. count - 1 :
                           o = Outcome([p.arr EXCEPT !.data = ReadInto(p.arr, file, k),
                                                     !.count = count, !.suspect = TRUE], OK)
  <1>3. PICK p \in Realloc(arr, count) : o.ret = Null \/ Full(p) \/ Part(p)
    <2>1. PICK p \in Realloc(arr, count) :
              \/ p.ret # count /\ o = Outcome(p.arr, Null)
              \/ /\ p.ret = count
                 /\ \/ Full(p)
                    \/ o = Outcome(NoArray, Null)
                    \/ Part(p)
      <3>1. LoadEnds(arr, count, file, o)
        BY <1>2, LoadCases
      <3> QED
        BY <3>1 DEF LoadEnds
    <2>2. \A b : Outcome(b, Null).ret = Null
      BY DEF Outcome
    <2> HIDE DEF Full, Part
    <2> QED
      BY <2>1, <2>2
  <1>4. Honest(p.arr) /\ SameItemsIn(arr, p.arr) /\ p.arr \in Arrays
    BY ReallocHonest DEF Honest
  <1>5. ~Part(p)
    <2>1. ASSUME NEW k \in 0 .. count - 1,
                 o = Outcome([p.arr EXCEPT !.data = ReadInto(p.arr, file, k),
                                           !.count = count, !.suspect = TRUE], OK)
          PROVE  o.arr.suspect
      BY <1>4, <2>1 DEF Outcome, Arrays
    <2> QED
      BY <2>1
  <1>6. Full(p)
    BY <1>3, <1>5
  <1> DEFINE data == ReadInto(p.arr, file, count)
  <1>7. o.arr = [p.arr EXCEPT !.data = data, !.count = count]
    BY <1>6 DEF ReadAll, Outcome
  <1>8. DOMAIN data = DOMAIN p.arr.data
        /\ \A i \in DOMAIN p.arr.data : i < count => data[i] = file[i]
    BY DEF ReadInto
  <1> HIDE DEF data
  <1>9. o.arr.data = data /\ o.arr.count = count /\ o.arr.isize = p.arr.isize
    BY <1>4, <1>7 DEF Arrays
  <1>10. Exists(o.arr)
    BY <1>2, <1>4, <1>9 DEF SameItemsIn, Exists
  <1>11. ASSUME NEW j \in Block(count) PROVE Cell(o.arr, j) = file[j]
    <2>1. DOMAIN data = Block(o.arr.allocated) /\ count <= o.arr.allocated
      BY <1>1, <1>9 DEF Honest, Holds
    <2>2. o.arr.allocated \in Nat
      BY <1>1 DEF Honest, Arrays
    <2>3. j \in DOMAIN data /\ j < count
      BY <2>1, <2>2 DEF Block
    <2> QED
      BY <1>8, <1>9, <2>3 DEF Cell
  <1> QED
    BY <1>1, <1>9, <1>10, <1>11

----------------------------------------------------------------------------
(* An index whose keys and values are those of a file, or were.            *)
Whole(i) ==
    /\ Honest(i.keys) /\ Honest(i.vals) /\ ~i.keys.suspect /\ ~i.vals.suspect
    /\ Made(i) /\ Aligned(i) /\ i.fanout # NoFanout
    /\ \A j \in Places(i) : KeyAt(i, j) \in Keys /\ Cell(i.vals, j) \in Vals
    /\ \A j, k \in Places(i) : j < k => KeyAt(i, j) < KeyAt(i, k)

(* The fanout table splits the keys by their first bytes. *)
Splits(i) ==
    /\ Fits(i.fanout, i.keys.count)
    /\ \A b \in FirstBytes : \A j \in Places(i) :
          FirstByte(KeyAt(i, j)) <= b <=> j < i.fanout[b]

(* The fanout table of a file splits its keys. *)
LEMMA FanoutSplits ==
    ASSUME NEW n \in Nat, NEW keys \in SortedKeys(n), NEW b \in FirstBytes, NEW j \in Block(n)
    PROVE  FirstByte(keys[j]) <= b <=> j < FanoutOf(keys, n)[b]
  <1> DEFINE S == {i \in 0 .. n - 1 : FirstByte(keys[i]) <= b}
  <1>1. \A i \in 0 .. n - 1 : keys[i] \in Keys
    BY DEF SortedKeys, Block
  <1>2. \A i, k \in 0 .. n - 1 : i < k => keys[i] < keys[k]
    BY DEF SortedKeys, Block
  <1>3. ASSUME NEW k \in S, NEW l \in 0 .. k PROVE l \in S
    <2>1. k \in 0 .. n - 1 /\ FirstByte(keys[k]) <= b /\ l \in 0 .. n - 1
      OBVIOUS
    <2>2. keys[l] \in Nat /\ keys[k] \in Nat /\ FirstByte(keys[l]) \in Nat
          /\ FirstByte(keys[k]) \in Nat /\ b \in Nat
      BY <1>1, <2>1, FirstByteType DEF FirstBytes
    <2>3. keys[l] <= keys[k]
      BY <1>2, <2>1, <2>2
    <2>4. FirstByte(keys[l]) <= FirstByte(keys[k])
      BY <1>1, <2>1, <2>3, FirstByteOrder
    <2> QED
      BY <2>1, <2>2, <2>4
  <1>4. FanoutOf(keys, n)[b] = Cardinality(S)
    BY DEF FanoutOf, FirstBytes
  <1>5. S \in SUBSET (0 .. n - 1) /\ j \in 0 .. n - 1 /\ (j \in S <=> FirstByte(keys[j]) <= b)
    BY DEF Block
  <1> HIDE DEF S
  <1>6. j \in S <=> j < Cardinality(S)
    BY <1>3, <1>5, FirstPlaces
  <1> QED
    BY <1>4, <1>5, <1>6

----------------------------------------------------------------------------
(* An index_find() of such an index finds the key that it returns the      *)
(* place of; and if the table splits the keys, it finds every key.         *)
Found(i, key, found) ==
    /\ found \in Int
    /\ found >= 0 => found \in Places(i) /\ KeyAt(i, found) = key
    /\ found < 0 /\ Splits(i) =>
         /\ Complement(found) \in 0 .. i.keys.count
         /\ \A j \in Places(i) :
               IF j < Complement(found) THEN KeyAt(i, j) < key ELSE KeyAt(i, j) > key

(* What index_find() returns of such an index                              *)
LEMMA FindExact ==
    ASSUME NEW i \in Records, Whole(i), Fits(i.fanout, i.keys.count), NEW key \in Keys
    PROVE  Found(i, key, IndexFind(i, key))
  <1> DEFINE base == BaseOf(i.fanout, key)
             num == NumOf(i.fanout, key)
             w == <<base, num>>
             n == i.keys.count
             data == i.keys.data
             b == FirstByte(key)
             r == IndexFind(i, key)
  <1>1. n \in Nat /\ i.keys.allocated \in Nat /\ Holds(i.keys)
    BY DEF Whole, Honest, Arrays, Records
  <1>2. base \in Nat /\ num \in Nat /\ base + num = i.fanout[b] /\ base + num <= n
    BY <1>1, WindowInside
  <1>3. w \in Windows /\ r = IrSearch(key, data)[w]
    BY <1>2, Calls DEF IndexFind
  <1>4. InWindow(w) = base .. base + num - 1 /\ w[1] = base /\ w[2] = num
    BY DEF InWindow
  <1>5. key \in Int /\ b \in FirstBytes /\ b \in Nat
    BY FirstByteType DEF FirstBytes
  <1>6. IrFound(key, data, w, r)
    BY <1>3, <1>5, IrIsExact
  <1>7. \A j \in Places(i) : data[j] = KeyAt(i, j) /\ data[j] \in Keys
    BY <1>1 DEF Whole, Holds, Places, Block, KeyAt, Cell
  <1>8. Places(i) = 0 .. n - 1
    BY DEF Places, Block
  <1> HIDE DEF data, r, w
  <1>9. base .. base + num - 1 \subseteq Places(i)
    <2> HIDE DEF base, num, n
    <2> QED
      BY <1>1, <1>2, <1>8
  <1>10. ASSUME NEW j \in Places(i), NEW k \in Places(i), j < k PROVE data[j] < data[k]
    BY <1>7, <1>10 DEF Whole
  <1>11. Ordered(data, w)
    <2>1. ASSUME NEW j \in Places(i), NEW k \in Places(i)
          PROVE  data[j] \in Int /\ (j <= k => data[j] <= data[k])
      <3>1. data[j] \in Int /\ data[k] \in Int
        BY <1>7, FirstByteType
      <3>2. j \in Int /\ k \in Int
        BY <1>8
      <3> QED
        BY <1>10, <3>1, <3>2
    <2> QED
      BY <1>4, <1>9, <2>1 DEF Ordered
  <1>12. r \in Int /\ (r >= 0 => r \in Places(i) /\ KeyAt(i, r) = key)
    BY <1>4, <1>6, <1>7, <1>9 DEF IrFound
  <1>13. ASSUME r < 0, Splits(i)
         PROVE  /\ Complement(r) \in 0 .. n
                /\ \A j \in Places(i) : IF j < Complement(r) THEN KeyAt(i, j) < key
                                        ELSE KeyAt(i, j) > key
    <2> DEFINE c == Complement(r)
    <2>1. c \in base .. base + num
      BY <1>4, <1>6, <1>13 DEF IrFound
    <2>2. \A j \in base .. base + num - 1 : IF j < c THEN data[j] < key ELSE data[j] > key
      BY <1>4, <1>6, <1>11, <1>13 DEF IrFound
    <2> HIDE DEF c
    <2>3. ASSUME NEW j \in Places(i)
          PROVE  IF j < c THEN data[j] < key ELSE data[j] > key
      <3>1. data[j] \in Keys /\ data[j] \in Nat /\ FirstByte(data[j]) \in Nat /\ j \in Nat
        BY <1>7, <1>8, FirstByteType DEF FirstBytes
      <3>2. FirstByte(data[j]) <= b <=> j < base + num
        <4>1. FirstByte(KeyAt(i, j)) <= b <=> j < i.fanout[b]
          BY <1>5, <1>13 DEF Splits
        <4> QED
          BY <1>2, <1>7, <4>1
      <3>3. CASE j < base
        <4>1. b # 0
          BY <3>1, <3>3 DEF BaseOf
        <4>2. b - 1 \in FirstBytes /\ base = i.fanout[b - 1]
          <5>1. base = i.fanout[b - 1]
            BY <4>1 DEF BaseOf
          <5>2. b - 1 \in FirstBytes
            <6> HIDE DEF b
            <6> QED
              BY <1>5, <4>1, IndexAssumption DEF FirstBytes
          <5> QED
            BY <5>1, <5>2
        <4>3. FirstByte(data[j]) <= b - 1
          <5>1. FirstByte(KeyAt(i, j)) <= b - 1 <=> j < i.fanout[b - 1]
            BY <1>13, <4>2 DEF Splits
          <5> QED
            BY <1>7, <3>3, <4>2, <5>1
        <4>4. ~(key <= data[j])
          <5>1. key <= data[j] => b <= FirstByte(data[j])
            BY <3>1, FirstByteOrder
          <5> HIDE DEF b
          <5> QED
            BY <1>5, <3>1, <4>3, <5>1
        <4>5. j < c /\ data[j] < key
          <5> HIDE DEF base, num
          <5> QED
            BY <1>2, <1>5, <2>1, <3>1, <3>3, <4>4
        <4> QED
          BY <4>5
      <3>4. CASE j >= base + num
        <4>1. ~(FirstByte(data[j]) <= b)
          <5> HIDE DEF base, num
          <5> QED
            BY <1>2, <3>1, <3>2, <3>4
        <4>2. ~(data[j] <= key)
          <5>1. data[j] <= key => FirstByte(data[j]) <= b
            BY <3>1, FirstByteOrder
          <5> QED
            BY <4>1, <5>1
        <4>3. ~(j < c) /\ data[j] > key
          <5> HIDE DEF base, num
          <5> QED
            BY <1>2, <1>5, <2>1, <3>1, <3>4, <4>2
        <4> QED
          BY <4>3
      <3>5. CASE j >= base /\ j < base + num
        <4>1. j \in base .. base + num - 1
          <5> HIDE DEF base, num
          <5> QED
            BY <1>2, <3>1, <3>5
        <4> QED
          BY <2>2, <4>1
      <3> QED
        <4> HIDE DEF base, num
        <4> QED
          BY <1>2, <3>1, <3>3, <3>4, <3>5
    <2>4. c \in 0 .. n
      <3> HIDE DEF base, num, n
      <3> QED
        BY <1>1, <1>2, <2>1
    <2> QED
      BY <1>7, <2>3, <2>4 DEF c
  <1> QED
    BY <1>12, <1>13 DEF Found, r

(* It compares with no key that was never written. *)
LEMMA FindsOne ==
    ASSUME NEW i \in Records, Whole(i), Fits(i.fanout, i.keys.count), NEW key \in Keys,
           NEW found \in Finds(i, key)
    PROVE  Found(i, key, found)
  <1> DEFINE base == BaseOf(i.fanout, key)
             num == NumOf(i.fanout, key)
  <1>1. i.keys.count \in Nat /\ Written(i.keys, 0, i.keys.count - 1)
    BY DEF Whole, Honest, Arrays, Holds
  <1>2. base \in Nat /\ num \in Nat /\ base + num <= i.keys.count
    BY <1>1, WindowInside
  <1>3. Written(i.keys, base, base + num - 1)
    <2> HIDE DEF base, num
    <2> QED
      BY <1>1, <1>2 DEF Written
  <1>4. found = IndexFind(i, key)
    BY <1>3 DEF Finds
  <1> QED
    BY <1>4, FindExact

----------------------------------------------------------------------------
(* What the calls leave of such an index. *)

(* Other blocks with the same items make the same index. *)
LEMMA SameWhole ==
    ASSUME NEW i \in Records, Whole(i), NEW k, NEW v, Honest(k), Honest(v),
           SameItemsIn(i.keys, k), SameItemsIn(i.vals, v)
    PROVE  LET j == WithArrays(i, k, v)
           IN  Whole(j) /\ (Splits(i) => Splits(j)) /\ Pairs(j) = Pairs(i)
  <1> DEFINE j == WithArrays(i, k, v)
  <1>1. j.keys = k /\ j.vals = v /\ j.fanout = i.fanout
    BY DEF Records, WithArrays
  <1> HIDE DEF j
  <1>2. Places(j) = Places(i) /\ j.keys.count = i.keys.count /\ Aligned(j) /\ Made(j)
    BY <1>1 DEF Whole, SameItemsIn, Places, Aligned, Made, Exists
  <1>3. ASSUME NEW m \in Places(i)
        PROVE  KeyAt(j, m) = KeyAt(i, m) /\ Cell(j.vals, m) = Cell(i.vals, m)
    BY <1>1 DEF Whole, SameItemsIn, Places, Aligned, KeyAt
  <1>4. Whole(j)
    <2>1. ~k.suspect /\ ~v.suspect
      BY DEF Whole, SameItemsIn
    <2> QED
      BY <1>1, <1>2, <1>3, <2>1 DEF Whole
  <1>5. Splits(i) => Splits(j)
    BY <1>1, <1>2, <1>3 DEF Splits
  <1>6. Pairs(j) = Pairs(i)
    BY <1>2, <1>3 DEF Pairs, PairAt
  <1> QED
    BY <1>4, <1>5, <1>6 DEF j

(* index_realloc() leaves the same index. *)
LEMMA ReallocWhole ==
    ASSUME NEW i \in Records, Whole(i), NEW n \in Nat, NEW o \in ReallocIndex(i, n)
    PROVE  Whole(o.arr) /\ (Splits(i) => Splits(o.arr)) /\ Pairs(o.arr) = Pairs(i)
  <1>1. PICK k, v : /\ ReallocsTo(i.keys, k) /\ ReallocsTo(i.vals, v)
                    /\ Realloced(i, o.arr, k, v)
    BY ReallocParts
  <1>2. ASSUME NEW arr, Honest(arr), NEW b, ReallocsTo(arr, b)
        PROVE  Honest(b) /\ SameItemsIn(arr, b)
    <2>1. SameItemsIn(arr, arr)
      BY DEF SameItemsIn
    <2> QED
      BY <1>2, <2>1, ReallocHonest DEF ReallocsTo
  <1>3. Honest(k) /\ SameItemsIn(i.keys, k) /\ Honest(v) /\ SameItemsIn(i.vals, v)
    BY <1>1, <1>2 DEF Whole
  <1>4. o.arr = WithArrays(i, k, v)
    BY <1>1 DEF Realloced, Whole
  <1> QED
    BY <1>3, <1>4, SameWhole

(* Two arrays of index_new() tell the truth. *)
SmallItems == KeySize <= ChonkSize /\ \A valsize \in ValSizes : valsize <= ChonkSize

(* What index_new() leaves                                                 *)
LEMMA NewTrue ==
    ASSUME SmallItems, NEW keysize \in {0, KeySize}, NEW valsize \in ValSizes,
           NEW n \in NewIndex(keysize, valsize)
    PROVE  n.idx \in Records /\ Honest(n.idx.keys) /\ Honest(n.idx.vals)
  <1>1. keysize \in Nat /\ valsize \in Nat
    BY IndexAssumption
  <1>2. \/ n.idx = NoIndex
        \/ keysize # 0 /\ \E k \in New(keysize), v \in New(valsize) :
              n.idx = WithArrays(NoIndex, k, v)
    <2>1. \A j : Alive(j).idx = j
      BY DEF Alive
    <2>2. ASSUME NEW k, NEW v
          PROVE  MadeOf(k, v).idx = NoIndex \/ MadeOf(k, v).idx = WithArrays(NoIndex, k, v)
      BY <2>1 DEF MadeOf
    <2>3. \/ n = Alive(NoIndex)
          \/ keysize # 0 /\ \E k \in New(keysize), v \in New(valsize) : n = MadeOf(k, v)
      BY NewParts
    <2> QED
      BY <2>1, <2>2, <2>3
  <1>3. ASSUME keysize # 0, NEW k \in New(keysize), NEW v \in New(valsize),
               n.idx = WithArrays(NoIndex, k, v)
        PROVE  Honest(n.idx.keys) /\ Honest(n.idx.vals)
    <2>1. Honest(k) /\ Honest(v)
      BY <1>1, <1>3, NewHonest DEF SmallItems
    <2>2. n.idx.keys = k /\ n.idx.vals = v
      BY <1>3, NoIndexShape DEF Records, WithArrays
    <2> QED
      BY <2>1, <2>2
  <1>4. Honest(NoIndex.keys) /\ Honest(NoIndex.vals)
    BY NoIndexShape, NoArrayHonest
  <1> QED
    BY <1>1, <1>2, <1>3, <1>4, NewShape

(* load_index_data() that reads a file in full leaves what the file has. *)
LEMMA LoadWhole ==
    ASSUME NEW i \in Records, Honest(i.keys), Honest(i.vals), NEW file \in Files,
           NEW o \in LoadIndexData(i, file), ReadInFull(o)
    PROVE  Whole(o.arr) /\ Splits(o.arr)
  <1>1. o.ret = FANOUT_SIZE /\ FANOUT_SIZE \in Nat \ {0}
    BY IndexAssumption DEF ReadInFull, FANOUT_SIZE
  <1>2. LoadedFrom(i, file, o)
    <2>1. Outcome(NoIndex, -EIO).ret = -EIO
      BY DEF Outcome
    <2>2. -EIO # FANOUT_SIZE
      BY <1>1 DEF EIO
    <2> QED
      BY <1>1, <2>1, <2>2, LoadParts
  <1>3. PICK f \in FanoutReads(file) :
           \E k \in Load(i.keys, At(f.ret, file.keys), file.count),
              v \in Load(i.vals, At(f.ret, file.vals), file.count) :
                 /\ k.ret # Null /\ v.ret # Null
                 /\ o = Outcome(Loaded(i, file.count, f.arr, k.arr, v.arr), f.ret)
    BY <1>2 DEF LoadedFrom
  <1>4. f.ret = FANOUT_SIZE
    BY <1>1, <1>3 DEF Outcome
  <1>5. f.arr = file.fanout /\ At(f.ret, file.keys) = file.keys /\ At(f.ret, file.vals) = file.vals
    <2>1. FANOUT_SIZE # FANOUT_SIZE - 1 /\ FANOUT_SIZE # -1
      BY <1>1
    <2>2. \A a, r : Outcome(a, r).arr = a /\ Outcome(a, r).ret = r
      BY DEF Outcome
    <2>3. f.arr = file.fanout
      BY <1>4, <2>1, <2>2 DEF FanoutReads
    <2> QED
      BY <1>4, <2>3 DEF At
  <1>6. PICK k \in Load(i.keys, file.keys, file.count), v \in Load(i.vals, file.vals, file.count) :
                 /\ k.ret # Null /\ v.ret # Null
                 /\ o = Outcome(Loaded(i, file.count, file.fanout, k.arr, v.arr), f.ret)
    BY <1>3, <1>5
  <1> DEFINE j == Loaded(i, file.count, file.fanout, k.arr, v.arr)
             n == file.count
  <1>7. o.arr = j
    BY <1>6 DEF Outcome
  <1>8. j.keys = k.arr /\ j.vals = v.arr /\ j.fanout = file.fanout
    BY DEF Loaded, WithArrays, Records
  <1> HIDE DEF j
  <1>9. ~k.arr.suspect /\ ~v.arr.suspect
    BY <1>7, <1>8 DEF ReadInFull
  <1>10. /\ n \in Nat
         /\ file.keys \in SortedKeys(n) /\ file.vals \in [Block(n) -> Vals]
         /\ file.fanout = FanoutOf(file.keys, n)
         /\ Fits(file.fanout, n)
    BY FileParts
  <1>11. /\ file.keys \in [Block(n) -> Keys]
         /\ \A p, q \in Block(n) : p < q => file.keys[p] < file.keys[q]
    BY <1>10 DEF SortedKeys
  <1>12. file.keys \in [Block(n) -> Items] /\ file.vals \in [Block(n) -> Items]
    BY <1>10, <1>11, IndexAssumption
  <1>13. /\ Honest(k.arr) /\ k.arr.count = n /\ Exists(k.arr)
         /\ \A p \in Block(n) : Cell(k.arr, p) = file.keys[p]
    BY <1>6, <1>9, <1>10, <1>12, LoadExact
  <1>14. /\ Honest(v.arr) /\ v.arr.count = n /\ Exists(v.arr)
         /\ \A p \in Block(n) : Cell(v.arr, p) = file.vals[p]
    BY <1>6, <1>9, <1>10, <1>12, LoadExact
  <1>15. Places(j) = Block(n) /\ j.keys.count = n
    BY <1>8, <1>13 DEF Places
  <1>16. \A p \in Block(n) : KeyAt(j, p) = file.keys[p] /\ Cell(j.vals, p) = file.vals[p]
    BY <1>8, <1>13, <1>14 DEF KeyAt
  <1>17. j.fanout # NoFanout
    <2>1. 0 \in FirstBytes
      BY IndexAssumption DEF FirstBytes
    <2>2. j.fanout \in Tables
      BY <1>8, <1>10 DEF Fits
    <2>3. DOMAIN j.fanout = FirstBytes /\ DOMAIN NoFanout = {}
      BY <2>2 DEF Tables, NoFanout
    <2> QED
      BY <2>1, <2>3
  <1>18. Whole(j)
    BY <1>8, <1>9, <1>10, <1>11, <1>13, <1>14, <1>15, <1>16, <1>17 DEF Whole, Aligned, Made
  <1>19. Splits(j)
    <2>1. ASSUME NEW b \in FirstBytes, NEW p \in Places(j)
          PROVE  FirstByte(KeyAt(j, p)) <= b <=> p < j.fanout[b]
      BY <1>8, <1>10, <1>15, <1>16, FanoutSplits
    <2> QED
      BY <1>8, <1>10, <1>15, <2>1 DEF Splits
  <1> QED
    BY <1>7, <1>18, <1>19

(* The pairs of a dictionary after its key got a value *)
PutIn(pairs, key, val) == {p \in pairs : p[1] # key} \cup {<<key, val>>}

(* index_add() of a key that is there replaces its value. *)
LEMMA SetWhole ==
    ASSUME NEW i \in Records, Whole(i), NEW key \in Keys, NEW val \in Vals,
           NEW found \in Places(i), KeyAt(i, found) = key
    PROVE  LET j == WithArrays(i, i.keys, SetItem(i.vals, val, found).arr)
           IN  /\ Whole(j) /\ (Splits(i) => Splits(j))
               /\ Pairs(j) = PutIn(Pairs(i), key, val)
  <1> DEFINE v == SetItem(i.vals, val, found).arr
             j == WithArrays(i, i.keys, v)
  <1>1. j.keys = i.keys /\ j.vals = v /\ j.fanout = i.fanout
    BY DEF Records, WithArrays
  <1>2. i.keys.count \in Nat /\ i.vals.count = i.keys.count
    BY DEF Whole, Honest, Arrays, Aligned
  <1>3. found \in Nat /\ found < i.vals.count
    BY <1>2 DEF Places, Block
  <1>4. /\ Honest(v) /\ ~v.suspect /\ v.count = i.vals.count /\ v.isize = i.vals.isize
        /\ \A m \in Block(i.vals.count) :
              Cell(v, m) = IF m = found THEN val ELSE Cell(i.vals, m)
    BY <1>3, SetCells, IndexAssumption DEF Whole
  <1> HIDE DEF j, v
  <1>5. Places(j) = Places(i) /\ j.keys.count = i.keys.count /\ Aligned(j) /\ Made(j)
    BY <1>1, <1>2, <1>4 DEF Whole, Places, Aligned, Made, Exists
  <1>6. ASSUME NEW m \in Places(i)
        PROVE  /\ KeyAt(j, m) = KeyAt(i, m)
               /\ Cell(j.vals, m) = IF m = found THEN val ELSE Cell(i.vals, m)
    BY <1>1, <1>2, <1>4 DEF Places, KeyAt
  <1>7. Whole(j)
    BY <1>1, <1>4, <1>5, <1>6 DEF Whole
  <1>8. Splits(i) => Splits(j)
    BY <1>1, <1>5, <1>6 DEF Splits
  <1>9. ASSUME NEW m \in Places(i)
        PROVE  /\ m = found => PairAt(j, m) = <<key, val>>
               /\ m # found => PairAt(j, m) = PairAt(i, m)
    BY <1>6 DEF PairAt
  <1>10. ASSUME NEW m \in Places(i) PROVE KeyAt(i, m) = key <=> m = found
    <2>1. m \in Nat /\ found \in Nat /\ key \in Nat
      BY <1>2, FirstByteType DEF Places, Block
    <2>2. m < found => KeyAt(i, m) < KeyAt(i, found)
      BY DEF Whole
    <2>3. found < m => KeyAt(i, found) < KeyAt(i, m)
      BY DEF Whole
    <2> QED
      BY <2>1, <2>2, <2>3
  <1>11. Pairs(j) = PutIn(Pairs(i), key, val)
    <2>1. ASSUME NEW p \in Pairs(j) PROVE p \in PutIn(Pairs(i), key, val)
      <3>1. PICK m \in Places(i) : p = PairAt(j, m)
        BY <1>5 DEF Pairs
      <3>2. CASE m = found
        BY <1>9, <3>1, <3>2 DEF PutIn
      <3>3. CASE m # found
        <4>1. p = PairAt(i, m) /\ KeyAt(i, m) # key
          BY <1>9, <1>10, <3>1, <3>3
        <4>2. p \in Pairs(i) /\ p[1] # key
          BY <4>1 DEF Pairs, PairAt
        <4> QED
          BY <4>2 DEF PutIn
      <3> QED
        BY <3>2, <3>3
    <2>2. ASSUME NEW p \in PutIn(Pairs(i), key, val) PROVE p \in Pairs(j)
      <3>1. CASE p = <<key, val>>
        BY <1>5, <1>9, <3>1 DEF Pairs
      <3>2. CASE p \in Pairs(i) /\ p[1] # key
        <4>1. PICK m \in Places(i) : p = PairAt(i, m)
          BY <3>2 DEF Pairs
        <4>2. m # found
          BY <3>2, <4>1 DEF PairAt
        <4> QED
          BY <1>5, <1>9, <4>1, <4>2 DEF Pairs
      <3> QED
        BY <3>1, <3>2 DEF PutIn
    <2> QED
      BY <2>1, <2>2
  <1> QED
    BY <1>7, <1>8, <1>11 DEF j, v

(* index_add() of a key that is not there inserts it, and its value, where *)
(* it belongs.                                                             *)
LEMMA InsertWhole ==
    ASSUME NEW i \in Records, Whole(i), NEW key \in Keys, NEW val \in Vals,
           NEW at \in 0 .. i.keys.count,
           \A m \in Places(i) : IF m < at THEN KeyAt(i, m) < key ELSE KeyAt(i, m) > key,
           NEW k, Honest(k), Inserted(i.keys, key, at, k),
           NEW v, Honest(v), Inserted(i.vals, val, at, v)
    PROVE  LET j == WithArrays(i, k, v)
           IN  Whole(j) /\ Pairs(j) = PutIn(Pairs(i), key, val)
  <1> DEFINE j == WithArrays(i, k, v)
             n == i.keys.count
  <1>1. j.keys = k /\ j.vals = v /\ j.fanout = i.fanout
    BY DEF Records, WithArrays
  <1> HIDE DEF j
  <1>2. n \in Nat /\ i.vals.count = n /\ at \in Nat /\ at <= n
    BY DEF Whole, Honest, Arrays, Aligned
  <1>3. /\ k.count = n + 1 /\ v.count = n + 1 /\ ~k.suspect /\ ~v.suspect
        /\ Exists(k)
    <2>1. k.count = n + 1 /\ v.count = n + 1
      BY <1>2 DEF Inserted
    <2>2. Exists(k)
      <3>1. k.isize = i.keys.isize
        BY DEF Inserted
      <3>2. i.keys.isize # 0
        BY DEF Whole, Made, Exists
      <3> QED
        BY <3>1, <3>2 DEF Exists
    <2>3. /\ k.suspect = i.keys.suspect /\ v.suspect = i.vals.suspect
          /\ ~i.keys.suspect /\ ~i.vals.suspect
      BY DEF Inserted, Whole
    <2>4. ~k.suspect /\ ~v.suspect
      BY <2>3, Zenon
    <2> QED
      BY <2>1, <2>2, <2>4
  <1>4. Places(i) = 0 .. n - 1 /\ Places(j) = 0 .. n
    BY <1>1, <1>2, <1>3 DEF Places, Block
  <1>5. ASSUME NEW m \in 0 .. n
        PROVE  /\ m < at => KeyAt(j, m) = KeyAt(i, m) /\ Cell(j.vals, m) = Cell(i.vals, m)
               /\ m = at => KeyAt(j, m) = key /\ Cell(j.vals, m) = val
               /\ m > at => /\ KeyAt(j, m) = KeyAt(i, m - 1)
                            /\ Cell(j.vals, m) = Cell(i.vals, m - 1)
    <2>1. m \in Block(k.count) /\ m \in Block(v.count)
      BY <1>2, <1>3 DEF Block
    <2>2. Cell(k, m) = IF m < at THEN Cell(i.keys, m)
                       ELSE IF m = at THEN key ELSE Cell(i.keys, m - 1)
      BY <2>1 DEF Inserted, Whole
    <2>3. Cell(v, m) = IF m < at THEN Cell(i.vals, m)
                       ELSE IF m = at THEN val ELSE Cell(i.vals, m - 1)
      BY <2>1 DEF Inserted, Whole
    <2> QED
      BY <1>1, <1>2, <2>2, <2>3 DEF KeyAt
  <1> HIDE DEF n
  <1>6. \A m \in 0 .. n : /\ m \in Nat
                          /\ m < at => m \in 0 .. n - 1
                          /\ m > at => m - 1 \in 0 .. n - 1 /\ ~(m - 1 < at)
                          /\ m < at \/ m = at \/ m > at
    BY <1>2
  <1>7. \A m \in 0 .. n - 1 : /\ KeyAt(i, m) \in Keys /\ Cell(i.vals, m) \in Vals
                              /\ KeyAt(i, m) \in Nat
    BY <1>4, FirstByteType DEF Whole
  <1>8. key \in Nat
    BY FirstByteType
  <1>9. ASSUME NEW m \in 0 .. n PROVE KeyAt(j, m) \in Keys /\ Cell(j.vals, m) \in Vals
    BY <1>5, <1>6, <1>7
  <1>10. ASSUME NEW m \in 0 .. n, NEW l \in 0 .. n, m < l PROVE KeyAt(j, m) < KeyAt(j, l)
    <2>1. /\ m < at => KeyAt(j, m) = KeyAt(i, m) /\ KeyAt(i, m) < key
          /\ l > at => KeyAt(j, l) = KeyAt(i, l - 1) /\ KeyAt(i, l - 1) > key
      BY <1>4, <1>5, <1>6
    <2>2. m = at => KeyAt(j, m) = key
      BY <1>5
    <2>3. l = at => KeyAt(j, l) = key
      BY <1>5
    <2>4. CASE l < at
      <3>1. m < at /\ m \in 0 .. n - 1 /\ l \in 0 .. n - 1
        BY <1>2, <1>6, <1>10, <2>4
      <3>2. KeyAt(i, m) < KeyAt(i, l)
        BY <1>4, <1>10, <3>1 DEF Whole
      <3> QED
        BY <1>5, <2>4, <3>1, <3>2
    <2>5. CASE m > at
      <3>1. l > at /\ m - 1 \in 0 .. n - 1 /\ l - 1 \in 0 .. n - 1 /\ m - 1 < l - 1
        BY <1>2, <1>6, <1>10, <2>5
      <3>2. KeyAt(i, m - 1) < KeyAt(i, l - 1)
        BY <1>4, <3>1 DEF Whole
      <3> QED
        BY <1>5, <2>5, <3>1, <3>2
    <2>6. CASE m < at /\ l = at
      BY <2>1, <2>3, <2>6
    <2>7. CASE m < at /\ l > at
      <3>1. m \in 0 .. n - 1 /\ l - 1 \in 0 .. n - 1
        BY <1>6, <2>7
      <3> QED
        BY <1>7, <1>8, <2>1, <2>7, <3>1
    <2>8. CASE m = at /\ l > at
      <3>1. l - 1 \in 0 .. n - 1
        BY <1>6, <2>8
      <3> QED
        BY <1>7, <1>8, <2>1, <2>2, <2>8, <3>1
    <2> QED
      BY <1>2, <1>10, <2>4, <2>5, <2>6, <2>7, <2>8
  <1>11. Whole(j)
    <2>1. Aligned(j) /\ Made(j)
      BY <1>1, <1>3 DEF Aligned, Made
    <2> QED
      BY <1>1, <1>3, <1>4, <1>9, <1>10, <2>1 DEF Whole
  <1>12. ASSUME NEW m \in 0 .. n
         PROVE  /\ m < at => PairAt(j, m) = PairAt(i, m)
                /\ m = at => PairAt(j, m) = <<key, val>>
                /\ m > at => PairAt(j, m) = PairAt(i, m - 1)
    BY <1>5 DEF PairAt
  <1>13. ASSUME NEW m \in 0 .. n - 1 PROVE PairAt(i, m) \in Pairs(i) /\ PairAt(i, m)[1] # key
    <2>1. KeyAt(i, m) # key
      BY <1>4, <1>7, <1>8
    <2> QED
      BY <1>4, <2>1 DEF Pairs, PairAt
  <1>14. ASSUME NEW p \in Pairs(j) PROVE p \in PutIn(Pairs(i), key, val)
    <2>1. PICK m \in 0 .. n : p = PairAt(j, m)
      BY <1>4 DEF Pairs
    <2> QED
      BY <1>6, <1>12, <1>13, <2>1 DEF PutIn
  <1>15. ASSUME NEW p \in PutIn(Pairs(i), key, val) PROVE p \in Pairs(j)
    <2>1. CASE p = <<key, val>>
      <3>1. p = PairAt(j, at) /\ at \in Places(j)
        BY <1>2, <1>4, <1>12, <2>1
      <3> QED
        BY <3>1 DEF Pairs
    <2>2. CASE p \in Pairs(i)
      <3>1. PICK m \in 0 .. n - 1 : p = PairAt(i, m)
        BY <1>4, <2>2 DEF Pairs
      <3>2. CASE m < at
        <4>1. m \in 0 .. n
          BY <1>2
        <4> QED
          BY <1>4, <1>12, <3>1, <3>2, <4>1 DEF Pairs
      <3>3. CASE ~(m < at)
        <4> DEFINE l == m + 1
        <4>1. l \in 0 .. n /\ l > at /\ l - 1 = m
          BY <1>2, <3>3
        <4> HIDE DEF l
        <4>2. p = PairAt(j, l)
          BY <1>12, <3>1, <4>1
        <4> QED
          BY <1>4, <4>1, <4>2 DEF Pairs
      <3> QED
        BY <3>2, <3>3
    <2> QED
      BY <2>1, <2>2 DEF PutIn
  <1>16. Pairs(j) = PutIn(Pairs(i), key, val)
    BY <1>14, <1>15
  <1> QED
    BY <1>11, <1>16 DEF j

----------------------------------------------------------------------------
(* An index that was read stays one, though the table no longer fits it    *)
(* when it has grown.                                                      *)
Trusted ==
    /\ Shape(idx)
    /\ trust \in {"no", "read", "grown"}
    /\ trust # "no" => Whole(idx)
    /\ trust = "read" => Splits(idx)

(* A step of the calls is a step of the dictionary, or none. *)
Unchanged == trust' = trust /\ Pairs(idx') = Pairs(idx)

Forgotten == trust' = "no"

WasLoaded == trust = "no" /\ trust' = "read"

WasPut(key, val) ==
    /\ trust # "no" /\ trust' # "no"
    /\ Pairs(idx') = PutIn(Pairs(idx), key, val)

Corresponds ==
    \/ Unchanged \/ Forgotten \/ WasLoaded
    \/ \E key \in Keys, val \in Vals : WasPut(key, val)

(* The three ways TrustAfter() ends *)
LEMMA TrustCases ==
    ASSUME NEW i, NEW found \in Int
    PROVE  LET t == TrustAfter(i, found)
           IN  \/ (found >= 0 \/ i = idx) /\ t = trust
               \/ /\ ~(found >= 0) /\ trust = "read" /\ t = "grown"
                  /\ i.keys.count = idx.keys.count + 1
                  /\ i.vals.count = idx.vals.count + 1
               \/ t = "no"
  <1>1. CASE found >= 0 \/ i = idx
    BY <1>1 DEF TrustAfter
  <1>2. CASE ~(found >= 0 \/ i = idx)
    BY <1>2 DEF TrustAfter
  <1> QED
    BY <1>1, <1>2

(* index_add() *)
LEMMA AddTrusted ==
    ASSUME Trusted, NEW key \in Keys, NEW val \in Vals, IndexAdd(key, val)
    PROVE  /\ trust' \in {"no", "read", "grown"}
           /\ trust' # "no" => Whole(idx')
           /\ trust' = "read" => Splits(idx')
           /\ Corresponds
  <1>1. PICK found \in Finds(idx, key) : \E i \in AddIndex(idx, key, val, found) :
            idx' = i /\ trust' = TrustAfter(i, found)
    BY DEF IndexAdd
  <1>2. idx' \in AddIndex(idx, key, val, found) /\ trust' = TrustAfter(idx', found)
    BY <1>1
  <1>3. idx \in Records /\ Fits(idx.fanout, idx.keys.count) /\ found \in Int
    BY FindType DEF Trusted, Shape, Searchable, IndexAdd
  <1>4. CASE trust' = "no"
    BY <1>4 DEF Corresponds, Forgotten
  <1>5. CASE idx' = idx /\ trust' = trust
    BY <1>5 DEF Trusted, Corresponds, Unchanged
  <1>6. CASE found >= 0 /\ trust' = trust /\ trust # "no"
    <2>1. Whole(idx)
      BY <1>6 DEF Trusted
    <2>2. found \in Places(idx) /\ KeyAt(idx, found) = key
      BY <1>3, <1>6, <2>1, FindsOne DEF Found
    <2>3. idx' = WithArrays(idx, idx.keys, SetItem(idx.vals, val, found).arr)
      BY <1>2, <1>3, <1>6, AddParts
    <2>4. /\ Whole(idx') /\ (Splits(idx) => Splits(idx'))
          /\ Pairs(idx') = PutIn(Pairs(idx), key, val)
      BY <1>3, <2>1, <2>2, <2>3, SetWhole
    <2>5. WasPut(key, val)
      BY <1>6, <2>4 DEF WasPut
    <2> QED
      BY <1>6, <2>4, <2>5 DEF Trusted, Corresponds
  <1>7. CASE /\ ~(found >= 0) /\ trust = "read" /\ trust' = "grown"
             /\ idx'.keys.count = idx.keys.count + 1
             /\ idx'.vals.count = idx.vals.count + 1
    <2>1. Whole(idx) /\ Splits(idx)
      BY <1>7 DEF Trusted
    <2> DEFINE at == Complement(found)
    <2>2. /\ found \in Int /\ at \in 0 .. idx.keys.count
          /\ \A m \in Places(idx) : IF m < at THEN KeyAt(idx, m) < key ELSE KeyAt(idx, m) > key
      BY <1>3, <1>7, <2>1, FindsOne DEF Found
    <2>3. PICK k \in InsertItem(idx.keys, key, at), v \in InsertItem(idx.vals, val, at) :
             idx' = WithArrays(idx, k.arr, v.arr)
      BY <1>2, <1>3, <1>7, AddParts
    <2> HIDE DEF at
    <2>4. idx'.keys = k.arr /\ idx'.vals = v.arr
      BY <1>3, <2>3 DEF Records, WithArrays
    <2>5. /\ idx.keys.count \in Nat /\ idx.vals.count \in Nat /\ at \in Nat
          /\ key \in Items /\ val \in Items
      BY <1>3, <2>2, IndexAssumption DEF Records, Arrays
    <2>6. Honest(k.arr) /\ Inserted(idx.keys, key, at, k.arr)
      <3>1. Fine(idx.keys, k) /\
            (SameItemsIn(idx.keys, k.arr) \/ Inserted(idx.keys, key, at, k.arr))
        BY <2>1, <2>5, InsertFine DEF Whole
      <3>2. ~SameItemsIn(idx.keys, k.arr)
        BY <1>7, <2>4, <2>5 DEF SameItemsIn
      <3> QED
        BY <3>1, <3>2 DEF Fine
    <2>7. Honest(v.arr) /\ Inserted(idx.vals, val, at, v.arr)
      <3>1. Fine(idx.vals, v) /\
            (SameItemsIn(idx.vals, v.arr) \/ Inserted(idx.vals, val, at, v.arr))
        BY <2>1, <2>5, InsertFine DEF Whole
      <3>2. ~SameItemsIn(idx.vals, v.arr)
        BY <1>7, <2>4, <2>5 DEF SameItemsIn
      <3> QED
        BY <3>1, <3>2 DEF Fine
    <2>8. Whole(idx') /\ Pairs(idx') = PutIn(Pairs(idx), key, val)
      BY <1>3, <2>1, <2>2, <2>3, <2>6, <2>7, InsertWhole
    <2>9. WasPut(key, val)
      BY <1>7, <2>8 DEF WasPut
    <2> QED
      BY <1>7, <2>8, <2>9 DEF Corresponds
  <1>8. \/ (found >= 0 \/ idx' = idx) /\ trust' = trust
        \/ /\ ~(found >= 0) /\ trust = "read" /\ trust' = "grown"
           /\ idx'.keys.count = idx.keys.count + 1
           /\ idx'.vals.count = idx.vals.count + 1
        \/ trust' = "no"
    BY <1>2, <1>3, TrustCases
  <1> QED
    BY <1>4, <1>5, <1>6, <1>7, <1>8

(* The other calls *)
LEMMA NextTrusted ==
    ASSUME SmallItems, Trusted, [Next]_vars
    PROVE  Trusted' /\ Corresponds
  <1>1. Shape(idx') /\ idx \in Records
    BY NextShape DEF Trusted, Shape
  <1>2. ASSUME trust' = "no" PROVE Trusted' /\ Corresponds
    BY <1>1, <1>2 DEF Trusted, Corresponds, Forgotten
  <1>3. CASE IndexNew \/ IndexInit \/ IndexWithCapacity
    BY <1>2, <1>3 DEF IndexNew, IndexInit, IndexWithCapacity, Make
  <1>4. CASE IndexLoad
    <2>1. PICK keysize \in {0, KeySize}, valsize \in ValSizes \ {0} :
             \E n \in NewIndex(keysize, valsize) :
                \/ trust' = "no"
                \/ \E file \in Files : \E o \in LoadIndexData(n.idx, file) :
                      idx' = o.arr /\ trust' = "read" /\ ReadInFull(o)
      BY <1>4 DEF IndexLoad
    <2>2. PICK n \in NewIndex(keysize, valsize) :
                \/ trust' = "no"
                \/ \E file \in Files : \E o \in LoadIndexData(n.idx, file) :
                      idx' = o.arr /\ trust' = "read" /\ ReadInFull(o)
      BY <2>1
    <2>3. n.idx \in Records /\ Honest(n.idx.keys) /\ Honest(n.idx.vals)
      BY NewTrue
    <2>4. ASSUME NEW file \in Files, NEW o \in LoadIndexData(n.idx, file),
                 idx' = o.arr, trust' = "read", ReadInFull(o)
          PROVE  Trusted' /\ Corresponds
      <3>1. Whole(idx') /\ Splits(idx')
        BY <2>3, <2>4, LoadWhole
      <3>2. trust = "no"
        BY <1>4 DEF IndexLoad, Trusted, Whole
      <3> QED
        BY <1>1, <2>4, <3>1, <3>2 DEF Trusted, Corresponds, WasLoaded
    <2> QED
      BY <1>2, <2>2, <2>4
  <1>5. CASE IndexRealloc
    <2>1. PICK alloc_count \in AllocCounts : \E o \in ReallocIndex(idx, alloc_count) : idx' = o.arr
      BY <1>5 DEF IndexRealloc
    <2>2. PICK o \in ReallocIndex(idx, alloc_count) : idx' = o.arr
      BY <2>1
    <2>3. trust' = trust /\ alloc_count \in Nat
      BY <1>5, IndexAssumption DEF IndexRealloc
    <2>4. CASE trust = "no"
      BY <1>2, <2>3, <2>4
    <2>5. CASE trust # "no"
      <3>1. Whole(idx)
        BY <2>5 DEF Trusted
      <3>2. Whole(idx') /\ (Splits(idx) => Splits(idx')) /\ Pairs(idx') = Pairs(idx)
        BY <1>1, <2>2, <2>3, <3>1, ReallocWhole
      <3> QED
        BY <1>1, <2>3, <3>2 DEF Trusted, Corresponds, Unchanged
    <2> QED
      BY <2>4, <2>5
  <1>6. CASE IndexClear \/ IndexFree \/ FindWithoutFanout
    BY <1>2, <1>6 DEF IndexClear, IndexFree, FindWithoutFanout
  <1>7. ASSUME NEW key \in Keys, NEW val \in Vals, IndexAdd(key, val)
        PROVE  Trusted' /\ Corresponds
    BY <1>1, <1>7, AddTrusted DEF Trusted
  <1>8. CASE UNCHANGED vars
    BY <1>8 DEF vars, Trusted, Corresponds, Unchanged
  <1> QED
    BY <1>3, <1>4, <1>5, <1>6, <1>7, <1>8 DEF Next

(* So the index always is one.                                             *)
LEMMA TrustedHolds == ASSUME SmallItems PROVE Spec => []Trusted
  <1>1. Init => Trusted
    BY NoIndexShape DEF Init, Trusted
  <1>2. Trusted /\ [Next]_vars => Trusted'
    BY NextTrusted
  <1> QED
    BY <1>1, <1>2, PTL DEF Spec

----------------------------------------------------------------------------
(* The keys of an index that was read stay in order through one            *)
(* index_add(), though the fanout table has not changed with them.         *)
THEOREM KeysStayInOrder == ASSUME SmallItems PROVE Spec => []KeysStaySorted
  <1>1. Trusted => KeysStaySorted
    BY DEF Trusted, Whole, KeysStaySorted
  <1> QED
    BY <1>1, TrustedHolds, PTL

(* A search of an index that was read returns the value of the key, or     *)
(* NULL if it is not there: no value is at the address NULL.               *)
THEOREM LookupsAreExact == ASSUME SmallItems, Null \notin Vals PROVE Spec => []LookupIsExact
  <1>1. ASSUME Trusted PROVE LookupIsExact
    <2>1. SUFFICES ASSUME trust = "read", NEW key \in Keys
                   PROVE  LET found == IndexSearch(idx, key) IN
                          IF found = Null THEN \A p \in Pairs(idx) : p[1] # key
                                          ELSE <<key, found>> \in Pairs(idx)
      BY DEF LookupIsExact
    <2> DEFINE j == IndexFind(idx, key)
    <2>2. idx \in Records /\ Whole(idx) /\ Splits(idx) /\ Fits(idx.fanout, idx.keys.count)
      BY <1>1, <2>1 DEF Trusted, Shape, Splits
    <2>3. Found(idx, key, j)
      BY <2>2, FindExact
    <2> HIDE DEF j
    <2>4. CASE j >= 0
      <3>1. j \in Places(idx) /\ KeyAt(idx, j) = key /\ Cell(idx.vals, j) \in Vals
        BY <2>2, <2>3, <2>4 DEF Found, Whole
      <3>2. IndexSearch(idx, key) = Cell(idx.vals, j)
        BY <2>3, <2>4 DEF IndexSearch, j, Found
      <3>3. <<key, Cell(idx.vals, j)>> \in Pairs(idx)
        BY <3>1 DEF Pairs, PairAt
      <3> QED
        BY <3>1, <3>2, <3>3
    <2>5. CASE j < 0
      <3>1. IndexSearch(idx, key) = Null
        BY <2>5 DEF IndexSearch, j
      <3>2. ASSUME NEW p \in Pairs(idx) PROVE p[1] # key
        <4>1. PICK m \in Places(idx) : p = PairAt(idx, m)
          BY DEF Pairs
        <4>2. KeyAt(idx, m) < key \/ KeyAt(idx, m) > key
          BY <2>2, <2>3, <2>5 DEF Found
        <4>3. KeyAt(idx, m) \in Nat /\ key \in Nat
          BY <2>2, FirstByteType DEF Whole
        <4> QED
          BY <4>1, <4>2, <4>3 DEF PairAt
      <3> QED
        BY <3>1, <3>2
    <2> QED
      BY <2>3, <2>4, <2>5 DEF Found
  <1> QED
    BY <1>1, TrustedHolds, PTL

----------------------------------------------------------------------------
(* The keys with the first byte of key are in the window that the fanout   *)
(* table has for it.                                                       *)
LEMMA InBucket ==
    ASSUME NEW i \in Records, Whole(i), Splits(i), NEW key \in Keys, NEW j \in Places(i),
           FirstByte(KeyAt(i, j)) = FirstByte(key)
    PROVE  BaseOf(i.fanout, key) <= j /\ j < BaseOf(i.fanout, key) + NumOf(i.fanout, key)
  <1> DEFINE base == BaseOf(i.fanout, key)
             num == NumOf(i.fanout, key)
             b == FirstByte(key)
  <1>1. i.keys.count \in Nat
    BY DEF Whole, Honest, Arrays, Records
  <1>2. base \in Nat /\ num \in Nat /\ base + num = i.fanout[b]
    BY <1>1, WindowInside DEF Splits
  <1>3. b \in FirstBytes /\ b \in Nat /\ j \in Nat
    BY <1>1, FirstByteType DEF FirstBytes, Places, Block
  <1>4. j < base + num
    <2>1. FirstByte(KeyAt(i, j)) <= b <=> j < i.fanout[b]
      BY <1>3 DEF Splits
    <2> HIDE DEF base, num, b
    <2> QED
      BY <1>2, <1>3, <2>1 DEF b
  <1>5. CASE b = 0
    BY <1>2, <1>3, <1>4, <1>5 DEF BaseOf
  <1>6. CASE b # 0
    <2>1. base = i.fanout[b - 1]
      BY <1>6 DEF BaseOf
    <2>2. b - 1 \in FirstBytes
      <3> HIDE DEF b
      <3> QED
        BY <1>3, <1>6, IndexAssumption DEF FirstBytes
    <2>3. FirstByte(KeyAt(i, j)) <= b - 1 <=> j < i.fanout[b - 1]
      BY <2>2 DEF Splits
    <2>4. FirstByte(KeyAt(i, j)) = b
      OBVIOUS
    <2> HIDE DEF b, base, num
    <2>5. ~(j < base)
      BY <1>3, <2>1, <2>3, <2>4
    <2> QED
      BY <1>2, <1>3, <1>4, <2>5 DEF base, num
  <1> QED
    BY <1>5, <1>6

(* The search for a prefix of such an index. *)
MatchesOf(i, lokey, hikey, past) ==
    LET range == IndexKeyMatch(i, lokey, hikey, past) IN
    (range.lo .. range.hi) \cap Places(i) = {j \in Places(i) : KeyAt(i, j) \in lokey .. hikey}

(* It returns the places of just the keys with the prefix.                 *)
LEMMA MatchExact ==
    ASSUME NEW i \in Records, Whole(i), Splits(i), NEW lokey \in Keys, NEW hikey \in Keys,
           SharePrefix(lokey, hikey), NEW past \in Keys
    PROVE  MatchesOf(i, lokey, hikey, past)
  <1> DEFINE n == i.keys.count
             keys == [j \in 0 .. n |-> IF j < n THEN Cell(i.keys, j) ELSE past]
             base == BaseOf(i.fanout, lokey)
             num == NumOf(i.fanout, lokey)
             r == BsearchPkr(lokey, hikey, keys, base, num)
             Window == base .. base + num - 1
  <1>1. n \in Nat
    BY DEF Whole, Honest, Arrays, Records
  <1>2. base \in Nat /\ num \in Nat /\ base + num <= n
    BY <1>1, WindowInside DEF Splits
  <1>3. lokey \in Nat /\ hikey \in Nat /\ lokey < hikey
    BY FirstByteType DEF SharePrefix
  <1>4. Places(i) = 0 .. n - 1
    BY DEF Places, Block
  <1>5. ASSUME NEW j \in Places(i)
        PROVE  keys[j] = KeyAt(i, j) /\ KeyAt(i, j) \in Keys /\ KeyAt(i, j) \in Nat
    <2>1. KeyAt(i, j) \in Keys /\ KeyAt(i, j) \in Nat
      BY FirstByteType DEF Whole
    <2>2. j \in 0 .. n /\ j < n
      <3> HIDE DEF n
      <3> QED
        BY <1>1, <1>4
    <2>3. keys[j] = KeyAt(i, j)
      BY <2>2 DEF KeyAt
    <2> QED
      BY <2>1, <2>3
  <1>6. Window \subseteq Places(i)
    <2> HIDE DEF base, num, n
    <2> QED
      BY <1>1, <1>2, <1>4
  <1>7. \A j, k \in Places(i) : j < k => keys[j] < keys[k]
    <2> HIDE DEF keys
    <2> QED
      BY <1>5 DEF Whole
  <1>8. IndexKeyMatch(i, lokey, hikey, past) = r
    BY DEF IndexKeyMatch, KeyMatch
  <1> HIDE DEF keys, n
  <1>9. \A j, k \in Window : keys[j] \in Int /\ (j < k => keys[j] < keys[k])
    BY <1>5, <1>6, <1>7
  <1> HIDE DEF base, num
  <1>10. /\ \A j \in r.lo .. r.hi : Within(lokey, hikey, keys[j])
         /\ \A j \in Window : Within(lokey, hikey, keys[j]) => j \in r.lo .. r.hi
    BY <1>2, <1>3, <1>9, PkrIsExact
  <1> HIDE DEF r
  <1>11. ASSUME NEW j \in Places(i), j \in r.lo .. r.hi PROVE KeyAt(i, j) \in lokey .. hikey
    <2>1. Within(lokey, hikey, KeyAt(i, j))
      BY <1>5, <1>10, <1>11
    <2> QED
      BY <1>3, <1>5, <2>1 DEF Within
  <1>12. ASSUME NEW j \in Places(i), KeyAt(i, j) \in lokey .. hikey PROVE j \in r.lo .. r.hi
    <2>1. KeyAt(i, j) \in Keys /\ lokey <= KeyAt(i, j) /\ KeyAt(i, j) <= hikey
      BY <1>3, <1>5, <1>12
    <2>2. FirstByte(lokey) <= FirstByte(KeyAt(i, j)) /\ FirstByte(KeyAt(i, j)) <= FirstByte(hikey)
      BY <2>1, FirstByteOrder
    <2>3. FirstByte(KeyAt(i, j)) = FirstByte(lokey)
      <3>1. FirstByte(lokey) \in Nat /\ FirstByte(KeyAt(i, j)) \in Nat
        BY <2>1, FirstByteType DEF FirstBytes
      <3> QED
        BY <2>2, <3>1 DEF SharePrefix
    <2>4. base <= j /\ j < base + num
      BY <2>3, InBucket DEF base, num
    <2>5. j \in Window
      <3>1. j \in Int
        BY <1>1, <1>4
      <3> QED
        BY <1>2, <2>4, <3>1
    <2>6. Within(lokey, hikey, keys[j])
      BY <1>5, <2>1 DEF Within
    <2> QED
      BY <1>10, <2>5, <2>6
  <1>13. (r.lo .. r.hi) \cap Places(i) = {j \in Places(i) : KeyAt(i, j) \in lokey .. hikey}
    <2> DEFINE R == r.lo .. r.hi
               K == lokey .. hikey
    <2>1. \A j \in Places(i) : j \in R <=> KeyAt(i, j) \in K
      BY <1>11, <1>12
    <2> HIDE DEF R, K
    <2>2. R \cap Places(i) = {j \in Places(i) : KeyAt(i, j) \in K}
      BY <2>1
    <2> QED
      BY <2>2 DEF R, K
  <1> QED
    BY <1>8, <1>13 DEF MatchesOf

(* A search for a prefix returns just the places of the keys that have it, *)
(* whatever follows the last key in memory.                                *)
THEOREM MatchesAreExact == ASSUME SmallItems PROVE Spec => []MatchIsExact
  <1>1. ASSUME Trusted PROVE MatchIsExact
    <2>1. SUFFICES ASSUME trust = "read", NEW lokey \in Keys, NEW hikey \in Keys,
                          NEW past \in Keys, SharePrefix(lokey, hikey)
                   PROVE  MatchesOf(idx, lokey, hikey, past)
      BY DEF MatchIsExact, MatchesOf
    <2>2. idx \in Records /\ Whole(idx) /\ Splits(idx)
      BY <1>1, <2>1 DEF Trusted, Shape
    <2> QED
      BY <2>1, <2>2, MatchExact
  <1> QED
    BY <1>1, TrustedHolds, PTL

----------------------------------------------------------------------------
(* The pairs of an index that was read give each key one value. *)
LEMMA PairsAreTable ==
    ASSUME NEW i, Whole(i)
    PROVE  Pairs(i) \in Abstract!Tables
  <1>1. i.keys.count \in Nat
    BY DEF Whole, Honest, Arrays
  <1>2. Pairs(i) \subseteq Keys \X Vals
    BY DEF Whole, Pairs, PairAt
  <1>3. ASSUME NEW p \in Pairs(i), NEW q \in Pairs(i), p[1] = q[1] PROVE p = q
    <2>1. PICK j \in Places(i), k \in Places(i) : p = PairAt(i, j) /\ q = PairAt(i, k)
      BY DEF Pairs
    <2>2. KeyAt(i, j) = KeyAt(i, k)
      BY <1>3, <2>1 DEF PairAt
    <2>3. /\ KeyAt(i, j) \in Nat /\ KeyAt(i, k) \in Nat /\ j \in Nat /\ k \in Nat
          /\ j < k => KeyAt(i, j) < KeyAt(i, k)
          /\ k < j => KeyAt(i, k) < KeyAt(i, j)
      BY <1>1, FirstByteType DEF Whole, Places, Block
    <2>4. j = k
      BY <2>2, <2>3
    <2> QED
      BY <2>1, <2>4
  <1> QED
    BY <1>2, <1>3 DEF Abstract!Tables, Abstract!IsFunction

(* An index that was read is a dictionary: an add gives its key the value  *)
(* and leaves all others theirs, and no other call changes any.            *)
THEOREM IndexIsDictionary == ASSUME SmallItems PROVE Spec => IsDictionary
  <1>1. Init => Abstract!Init
    BY DEF Init, Abstract!Init
  <1>2. ASSUME Trusted, Trusted', Corresponds PROVE [Abstract!Next]_(Abstract!vars)
    <2>1. CASE Unchanged
      BY <2>1 DEF Unchanged, Abstract!vars
    <2>2. CASE Forgotten
      BY <2>2 DEF Forgotten, Abstract!Next, Abstract!Forget
    <2>3. CASE WasLoaded
      <3>1. Pairs(idx)' \in Abstract!Tables
        <4>1. Whole(idx')
          BY <1>2, <2>3 DEF Trusted, WasLoaded
        <4> QED
          BY <4>1, PairsAreTable
      <3> QED
        BY <2>3, <3>1 DEF WasLoaded, Abstract!Next, Abstract!Load
    <2>4. ASSUME NEW key \in Keys, NEW val \in Vals, WasPut(key, val)
          PROVE  Abstract!Next
      <3>1. Abstract!Put(key, val)
        BY <2>4 DEF WasPut, PutIn, Abstract!Put
      <3> QED
        BY <3>1 DEF Abstract!Next
    <2> QED
      BY <1>2, <2>1, <2>2, <2>3, <2>4 DEF Corresponds
  <1>3. Trusted /\ [Next]_vars => Corresponds
    BY NextTrusted
  <1>4. Trusted /\ Trusted' /\ [Next]_vars => [Abstract!Next]_(Abstract!vars)
    BY <1>2, <1>3
  <1> QED
    BY <1>1, <1>4, TrustedHolds, PTL DEF Spec, IsDictionary, Abstract!Spec

----------------------------------------------------------------------------
(* The index of the calls, with the types that TypeOK gives it *)
Typed(i) ==
    /\ Shape(i)
    /\ i.count <= MaxCount
    /\ Sound(i.keys, Keys) /\ i.keys.count <= MaxCount
    /\ Sound(i.vals, Vals) /\ i.vals.count <= MaxCount
    /\ Exists(i.keys) <=> Exists(i.vals)

(* No index *)
LEMMA NoIndexTyped == Typed(NoIndex)
  <1>1. NoIndex.count = 0 /\ NoIndex.keys = NoArray /\ NoIndex.vals = NoArray
    BY DEF NoIndex
  <1>2. 0 <= MaxCount
    BY IndexAssumption
  <1> QED
    BY <1>1, <1>2, NoIndexShape, NewSound DEF Typed

(* An array that keeps its item size exists as before. *)
LEMMA SameSize ==
    ASSUME NEW k, NEW l, NEW v, NEW w, k.isize = l.isize, v.isize = w.isize,
           Exists(k) <=> Exists(v)
    PROVE  Exists(l) <=> Exists(w)
  BY DEF Exists

(* index_new() *)
LEMMA NewTyped ==
    ASSUME SmallItems, NEW keysize \in {0, KeySize}, NEW valsize \in ValSizes,
           NEW n \in NewIndex(keysize, valsize)
    PROVE  Typed(n.idx) /\ n.idx \in Records /\ n.died \in {"none", "index_free"}
  <1>1. keysize \in Nat /\ valsize \in Nat
    BY IndexAssumption
  <1>2. /\ n.died \in {"none", "index_free"}
        /\ \/ n.idx = NoIndex
           \/ keysize # 0 /\ \E k \in New(keysize), v \in New(valsize) :
                 Exists(k) /\ Exists(v) /\ n.idx = WithArrays(NoIndex, k, v)
    <2>1. \A j : Alive(j).idx = j /\ Alive(j).died = "none"
      BY DEF Alive
    <2>2. ASSUME NEW k, NEW v
          PROVE  /\ MadeOf(k, v).died \in {"none", "index_free"}
                 /\ \/ MadeOf(k, v).idx = NoIndex
                    \/ /\ Exists(k) /\ Exists(v)
                       /\ MadeOf(k, v).idx = WithArrays(NoIndex, k, v)
      BY <2>1 DEF MadeOf
    <2>3. \/ n = Alive(NoIndex)
          \/ keysize # 0 /\ \E k \in New(keysize), v \in New(valsize) : n = MadeOf(k, v)
      BY NewParts
    <2> QED
      BY <2>1, <2>2, <2>3
  <1>3. ASSUME keysize # 0, NEW k \in New(keysize), NEW v \in New(valsize),
               Exists(k), Exists(v), n.idx = WithArrays(NoIndex, k, v)
        PROVE  Typed(n.idx)
    <2>1. keysize <= ChonkSize /\ valsize <= ChonkSize
      BY <1>3 DEF SmallItems
    <2>2. Sound(k, Keys) /\ k.count = 0 /\ Sound(v, Vals) /\ v.count = 0
      BY <1>1, <2>1, NewSound
    <2>3. n.idx.keys = k /\ n.idx.vals = v /\ n.idx.count = 0
      BY <1>3 DEF NoIndex, WithArrays
    <2>4. Shape(n.idx) /\ 0 <= MaxCount
      BY <1>1, NewShape, IndexAssumption
    <2> QED
      BY <1>3, <2>2, <2>3, <2>4 DEF Typed
  <1>4. n.idx \in Records
    BY <1>1, NewShape
  <1> QED
    BY <1>2, <1>3, <1>4, NoIndexTyped

(* index_init() *)
LEMMA InitTyped ==
    ASSUME NEW i, Typed(i), NEW j \in InitIndex(i)
    PROVE  Typed(j)
  <1>1. i \in Records
    BY DEF Typed, Shape
  <1>2. Shape(j)
    BY <1>1, InitShape
  <1>3. PICK f \in Callocs, k \in Grow(i.keys), v \in Grow(i.vals) :
           j = WithParts(i, f, k.arr, v.arr)
    BY InitParts
  <1>4. j.keys = k.arr /\ j.vals = v.arr /\ j.count = i.count
    BY <1>1, <1>3 DEF WithParts, Records
  <1>5. /\ Sound(k.arr, Keys) /\ SameCells(i.keys, k.arr)
        /\ Sound(v.arr, Vals) /\ SameCells(i.vals, v.arr)
    BY GrowSound DEF Typed
  <1> QED
    BY <1>2, <1>4, <1>5, SameSize DEF Typed, SameCells

(* index_realloc() *)
LEMMA ReallocTyped ==
    ASSUME NEW i, Typed(i), NEW n \in Nat, NEW o \in ReallocIndex(i, n)
    PROVE  Typed(o.arr) /\ o.ret \in Int
  <1>1. i \in Records
    BY DEF Typed, Shape
  <1>2. Shape(o.arr)
    BY ReallocShape DEF Typed
  <1>3. PICK k, v : /\ ReallocsTo(i.keys, k) /\ ReallocsTo(i.vals, v)
                    /\ Realloced(i, o.arr, k, v)
    BY <1>1, ReallocParts
  <1>4. o.arr.keys = k /\ o.arr.vals = v /\ o.arr.count = i.count
    BY <1>1, <1>3 DEF Realloced, WithParts, WithArrays, Records
  <1>5. ASSUME NEW S, NEW arr, Sound(arr, S), NEW b, ReallocsTo(arr, b)
        PROVE  Sound(b, S) /\ b.count = arr.count /\ b.isize = arr.isize
    BY <1>5, ReallocSound DEF ReallocsTo, SameCells
  <1>6. /\ Sound(k, Keys) /\ k.count = i.keys.count /\ k.isize = i.keys.isize
        /\ Sound(v, Vals) /\ v.count = i.vals.count /\ v.isize = i.vals.isize
    BY <1>3, <1>5 DEF Typed
  <1>7. o.ret \in Int
    <2>1. ASSUME NEW f, NEW a, NEW b PROVE ReallocStep(i, n, f, a, b).ret \in {-1, n}
      <3>1. \A c, r : Outcome(c, r).ret = r
        BY DEF Outcome
      <3> QED
        BY <3>1 DEF ReallocStep
    <2>2. \E f, a, b : o = ReallocStep(i, n, f, a, b)
      BY ReallocSteps
    <2> QED
      BY <2>1, <2>2
  <1> QED
    BY <1>2, <1>4, <1>6, <1>7, SameSize DEF Typed

(* index_clear() *)
LEMMA ClearTyped ==
    ASSUME NEW i, Typed(i)
    PROVE  Typed(ClearIndex(i))
  <1> DEFINE j == ClearIndex(i)
  <1>1. Shape(j) /\ 0 <= MaxCount
    BY ClearShape, IndexAssumption DEF Typed
  <1>2. j.keys = Clear(i.keys) /\ j.vals = Clear(i.vals) /\ j.count = 0
    BY DEF ClearIndex, Typed, Shape, Records
  <1>3. /\ Sound(Clear(i.keys), Keys) /\ Clear(i.keys).count = 0
        /\ Clear(i.keys).isize = i.keys.isize
        /\ Sound(Clear(i.vals), Vals) /\ Clear(i.vals).count = 0
        /\ Clear(i.vals).isize = i.vals.isize
    BY NewSound DEF Typed
  <1> HIDE DEF j
  <1>4. Typed(j)
    BY <1>1, <1>2, <1>3, SameSize DEF Typed
  <1> QED
    BY <1>4 DEF j

(* load_index_data() *)
LEMMA LoadTyped ==
    ASSUME NEW i, Typed(i), NEW file \in Files, NEW o \in LoadIndexData(i, file)
    PROVE  Typed(o.arr) /\ o.ret \in Int
  <1>1. i \in Records
    BY DEF Typed, Shape
  <1>2. Shape(o.arr)
    BY <1>1, LoadShape
  <1>3. CASE o = Outcome(NoIndex, -EIO)
    BY <1>3, NoIndexTyped DEF Outcome, EIO
  <1>4. CASE LoadedFrom(i, file, o)
    <2>1. PICK f \in FanoutReads(file) :
             \E k \in Load(i.keys, At(f.ret, file.keys), file.count),
                v \in Load(i.vals, At(f.ret, file.vals), file.count) :
                   /\ k.ret # Null /\ v.ret # Null
                   /\ o = Outcome(Loaded(i, file.count, f.arr, k.arr, v.arr), f.ret)
      BY <1>4 DEF LoadedFrom
    <2>2. PICK k \in Load(i.keys, At(f.ret, file.keys), file.count),
               v \in Load(i.vals, At(f.ret, file.vals), file.count) :
                   /\ k.ret # Null /\ v.ret # Null
                   /\ o = Outcome(Loaded(i, file.count, f.arr, k.arr, v.arr), f.ret)
      BY <2>1
    <2>3. /\ file.count \in Nat /\ file.count <= MaxCount
          /\ file.keys \in [Block(file.count) -> Keys] /\ file.vals \in [Block(file.count) -> Vals]
      BY FileParts DEF SortedKeys
    <2>4. /\ \A c \in Block(file.count) : At(f.ret, file.keys)[c] \in Keys \cup {Garbage}
          /\ \A c \in Block(file.count) : At(f.ret, file.vals)[c] \in Vals \cup {Garbage}
      BY <2>3 DEF At, Shifted
    <2>5. Keys \in SUBSET Items /\ Vals \in SUBSET Items
      BY IndexAssumption
    <2>6. /\ Sound(k.arr, Keys) /\ k.arr.count = file.count /\ k.arr.isize = i.keys.isize
          /\ Sound(v.arr, Vals) /\ v.arr.count = file.count /\ v.arr.isize = i.vals.isize
      BY <2>2, <2>3, <2>4, <2>5, LoadSound DEF Typed
    <2>7. o.arr = Loaded(i, file.count, f.arr, k.arr, v.arr) /\ o.ret = f.ret
      BY <2>2 DEF Outcome
    <2>8. o.arr.keys = k.arr /\ o.arr.vals = v.arr /\ o.arr.count = file.count
      BY <1>1, <2>7 DEF Loaded, WithArrays, Records
    <2>9. f.ret \in Int
      <3>1. FANOUT_SIZE \in Int
        BY IndexAssumption DEF FANOUT_SIZE
      <3>2. f.ret \in {FANOUT_SIZE, FANOUT_SIZE - 1, -1}
        BY DEF FanoutReads, Outcome
      <3> QED
        BY <3>1, <3>2
    <2> QED
      BY <1>2, <2>3, <2>6, <2>7, <2>8, <2>9, SameSize DEF Typed
  <1> QED
    BY <1>1, <1>3, <1>4, LoadParts

(* index_add() *)
LEMMA AddTyped ==
    ASSUME NEW i, Typed(i), NEW key \in Keys, NEW val \in Vals, NEW found \in Int,
           found < 0 => MAX(i.keys.count, i.vals.count) < MaxCount,
           NEW j \in AddIndex(i, key, val, found)
    PROVE  Typed(j)
  <1>1. i \in Records /\ i.keys.count \in Nat /\ i.vals.count \in Nat
    BY DEF Typed, Shape, Records, Arrays
  <1>2. Keys \in SUBSET Items /\ Vals \in SUBSET Items
    BY IndexAssumption
  <1>3. Shape(j)
    BY <1>2, AddShape DEF Typed
  <1>4. CASE j = WithArrays(i, i.keys, SetItem(i.vals, val, found).arr)
    <2> DEFINE v == SetItem(i.vals, val, found).arr
    <2>1. Sound(v, Vals) /\ v.count = i.vals.count /\ v.isize = i.vals.isize
      BY <1>2, SetSound DEF Typed
    <2> HIDE DEF v
    <2>2. j.keys = i.keys /\ j.vals = v /\ j.count = i.count
      BY <1>1, <1>4 DEF WithArrays, Records, v
    <2> QED
      BY <1>3, <2>1, <2>2, SameSize DEF Typed
  <1>5. ASSUME ~(found >= 0), NEW k \in InsertItem(i.keys, key, Complement(found)),
               NEW v \in InsertItem(i.vals, val, Complement(found)),
               j = WithArrays(i, k.arr, v.arr)
        PROVE  Typed(j)
    <2>1. Complement(found) \in Nat
      BY <1>5 DEF Complement
    <2>2. i.keys.count < MaxCount /\ i.vals.count < MaxCount /\ MaxCount \in Nat
      BY <1>1, <1>5, IndexAssumption DEF MAX
    <2>3. /\ Sound(k.arr, Keys)
          /\ SameCells(i.keys, k.arr) \/ Adds(i.keys, key, Complement(found), k.arr)
      BY <1>2, <2>1, InsertSound DEF Typed
    <2>4. /\ Sound(v.arr, Vals)
          /\ SameCells(i.vals, v.arr) \/ Adds(i.vals, val, Complement(found), v.arr)
      BY <1>2, <2>1, InsertSound DEF Typed
    <2>5. k.arr.isize = i.keys.isize /\ k.arr.count <= MaxCount
      BY <1>1, <2>2, <2>3 DEF SameCells, Adds
    <2>6. v.arr.isize = i.vals.isize /\ v.arr.count <= MaxCount
      BY <1>1, <2>2, <2>4 DEF SameCells, Adds
    <2>7. j.keys = k.arr /\ j.vals = v.arr /\ j.count = i.count
      BY <1>1, <1>5 DEF WithArrays, Records
    <2> QED
      BY <1>3, <2>3, <2>4, <2>5, <2>6, <2>7, SameSize DEF Typed
  <1> QED
    BY <1>1, <1>4, <1>5, AddParts

(* All the state. *)
Types ==
    /\ Typed(idx) /\ ret \in Int
    /\ died \in {"none", "index_free", "index_find"}
    /\ trust \in {"no", "read", "grown"}

(* The functions that make an index leave the one they made, or none. *)
LEMMA MakeTyped ==
    ASSUME NEW n, n.died \in {"none", "index_free"}, NEW i, Typed(i), Make(n, i)
    PROVE  Types'
  BY NoIndexTyped DEF Make, Types, OK, Null

(* Every call leaves a state of these types. *)
LEMMA NextTyped ==
    ASSUME SmallItems, Types, [Next]_vars
    PROVE  Types'
  <1> USE IndexAssumption
  <1>1. Typed(idx)
    BY DEF Types
  <1>2. ASSUME NEW keysize \in {0, KeySize}, NEW valsize \in ValSizes,
               NEW n \in NewIndex(keysize, valsize)
        PROVE  Typed(n.idx) /\ n.died \in {"none", "index_free"}
    BY <1>2, NewTyped
  <1>3. CASE IndexNew
    BY <1>2, <1>3, MakeTyped DEF IndexNew
  <1>4. CASE IndexInit
    <2>1. PICK keysize \in {0, KeySize}, valsize \in ValSizes :
             \E n \in NewIndex(keysize, valsize) :
                \E i \in InitIndex(n.idx) : Make(n, i)
      BY <1>4 DEF IndexInit
    <2>2. PICK n \in NewIndex(keysize, valsize) : \E i \in InitIndex(n.idx) : Make(n, i)
      BY <2>1
    <2>3. PICK i \in InitIndex(n.idx) : Make(n, i)
      BY <2>2
    <2>4. Typed(i)
      BY <1>2, <2>3, InitTyped
    <2> QED
      BY <1>2, <2>3, <2>4, MakeTyped
  <1>5. CASE IndexWithCapacity
    <2>1. PICK keysize \in {0, KeySize}, valsize \in ValSizes, alloc_count \in AllocCounts :
             \E n \in NewIndex(keysize, valsize) :
                IF alloc_count = 0 \/ ~Made(n.idx) THEN Make(n, n.idx)
                ELSE \E o \in ReallocIndex(n.idx, alloc_count) :
                        Make(n, IF o.ret > 0 THEN o.arr ELSE NoIndex)
      BY <1>5 DEF IndexWithCapacity
    <2>2. PICK n \in NewIndex(keysize, valsize) :
             \/ Make(n, n.idx)
             \/ \E o \in ReallocIndex(n.idx, alloc_count) : Make(n, o.arr) \/ Make(n, NoIndex)
      BY <2>1
    <2>3. Typed(n.idx) /\ Typed(NoIndex) /\ alloc_count \in Nat /\ n.died \in {"none", "index_free"}
      BY <1>2, NoIndexTyped
    <2>4. ASSUME NEW o \in ReallocIndex(n.idx, alloc_count) PROVE Typed(o.arr)
      BY <2>3, ReallocTyped
    <2> QED
      BY <2>2, <2>3, <2>4, MakeTyped
  <1>6. CASE IndexLoad
    <2>1. PICK keysize \in {0, KeySize}, valsize \in ValSizes :
             \E n \in NewIndex(keysize, valsize) :
                /\ died' = n.died
                /\ \/ idx' = NoIndex /\ ret' = -ENOMEM /\ trust' = "no"
                   \/ \E file \in Files : \E o \in LoadIndexData(n.idx, file) :
                         /\ idx' = o.arr /\ ret' = o.ret
                         /\ trust' = "read" \/ trust' = "no"
      BY <1>6 DEF IndexLoad
    <2>2. PICK n \in NewIndex(keysize, valsize) :
                /\ died' = n.died
                /\ \/ idx' = NoIndex /\ ret' = -ENOMEM /\ trust' = "no"
                   \/ \E file \in Files : \E o \in LoadIndexData(n.idx, file) :
                         /\ idx' = o.arr /\ ret' = o.ret
                         /\ trust' = "read" \/ trust' = "no"
      BY <2>1
    <2>3. Typed(idx') /\ ret' \in Int
      BY <1>2, <2>2, LoadTyped, NoIndexTyped DEF ENOMEM
    <2>4. died' \in {"none", "index_free"} /\ trust' \in {"no", "read"}
      BY <1>2, <2>2
    <2> QED
      BY <2>3, <2>4 DEF Types
  <1>7. CASE IndexRealloc
    <2>1. PICK alloc_count \in AllocCounts : \E o \in ReallocIndex(idx, alloc_count) :
             idx' = o.arr /\ ret' = o.ret
      BY <1>7 DEF IndexRealloc
    <2>2. PICK o \in ReallocIndex(idx, alloc_count) : idx' = o.arr /\ ret' = o.ret
      BY <2>1
    <2>3. Typed(idx') /\ ret' \in Int
      BY <1>1, <2>2, ReallocTyped
    <2> QED
      BY <1>7, <2>3 DEF IndexRealloc, Types
  <1>8. CASE IndexClear
    BY <1>1, <1>8, ClearTyped DEF IndexClear, Types, OK
  <1>9. CASE IndexFree \/ FindWithoutFanout
    BY <1>9, NoIndexTyped DEF IndexFree, FindWithoutFanout, Types, OK
  <1>10. ASSUME NEW key \in Keys, NEW val \in Vals, IndexAdd(key, val) PROVE Types'
    <2>1. PICK found \in Finds(idx, key) : \E i \in AddIndex(idx, key, val, found) :
             /\ found < 0 => MAX(idx.keys.count, idx.vals.count) < MaxCount
             /\ idx' = i /\ (ret' = found \/ ret' = Complement(found))
             /\ trust' = TrustAfter(i, found)
      BY <1>10 DEF IndexAdd
    <2>2. PICK i \in AddIndex(idx, key, val, found) :
             /\ found < 0 => MAX(idx.keys.count, idx.vals.count) < MaxCount
             /\ idx' = i /\ (ret' = found \/ ret' = Complement(found))
             /\ trust' = TrustAfter(i, found)
      BY <2>1
    <2>3. Searchable(idx) /\ Shape(idx)
      BY <1>1, <1>10 DEF IndexAdd, Searchable, Typed
    <2>4. found \in Int
      BY <2>3, FindType
    <2>5. Typed(idx')
      BY <1>1, <2>2, <2>4, AddTyped
    <2>6. ret' \in Int
      BY <2>2, <2>4 DEF Complement
    <2>7. trust' \in {"no", "read", "grown"}
      BY <2>2, <2>4, TrustCases DEF Types
    <2> QED
      BY <1>10, <2>5, <2>6, <2>7 DEF IndexAdd, Types
  <1>11. CASE UNCHANGED vars
    BY <1>11 DEF vars, Types
  <1> QED
    BY <1>3, <1>4, <1>5, <1>6, <1>7, <1>8, <1>9, <1>10, <1>11 DEF Next

(* The state always has these types.                                       *)
LEMMA TypesHold == ASSUME SmallItems PROVE Spec => []Types
  <1>1. Init => Types
    BY NoIndexTyped DEF Init, Types, OK
  <1>2. Types /\ [Next]_vars => Types'
    BY NextTyped
  <1> QED
    BY <1>1, <1>2, PTL DEF Spec

(* TypeOK says the same of the counts, of the table and of the cells. *)
LEMMA TypesImplyTypeOK == ASSUME Types PROVE TypeOK
  <1>1. Typed(idx) /\ Shape(idx) /\ idx \in Records /\ MaxCount \in Nat
    BY IndexAssumption DEF Types, Typed, Shape
  <1>2. ASSUME NEW arr, NEW S, Sound(arr, S), arr.count <= MaxCount
        PROVE  ArrayType(arr, S)
    <2>1. /\ arr.isize \in Nat /\ arr.allocated \in Nat /\ arr.count \in Nat
          /\ arr.overrun \in BOOLEAN /\ arr.suspect \in BOOLEAN
      BY <1>2 DEF Sound, Arrays
    <2> QED
      BY <1>1, <1>2, <2>1 DEF ArrayType, Sound
  <1>3. ArrayType(idx.keys, Keys) /\ ArrayType(idx.vals, Vals)
        /\ (Exists(idx.keys) <=> Exists(idx.vals))
    BY <1>1, <1>2 DEF Typed
  <1>4. idx.fanout = NoFanout
        \/ idx.fanout \in [0 .. Bytes - 1 -> 0 .. MaxCount \cup {Garbage}]
    <2>1. CASE idx.fanout = NeverRead
      BY <2>1 DEF NeverRead
    <2>2. CASE Searchable(idx)
      <3>1. Fits(idx.fanout, idx.keys.count) /\ idx.keys.count \in Nat /\ idx.keys.count <= MaxCount
        BY <1>1, <2>2 DEF Shape, Typed, Records, Arrays
      <3>2. idx.fanout \in [FirstBytes -> Nat] /\ \A b \in FirstBytes : idx.fanout[b] <= idx.keys.count
        BY <3>1 DEF Fits, Tables
      <3>3. \A b \in FirstBytes : idx.fanout[b] \in 0 .. MaxCount
        BY <1>1, <3>1, <3>2
      <3> QED
        BY <3>2, <3>3 DEF FirstBytes
    <2> QED
      BY <2>1, <2>2 DEF Searchable
  <1>5. idx.count \in 0 .. MaxCount
    BY <1>1 DEF Typed, Records
  <1> QED
    BY <1>3, <1>4, <1>5 DEF Types, TypeOK

(* No search of an index that was read misses or invents a key, and the    *)
(* state always has its types (index.c:183-233).                           *)
THEOREM NoSearchErrs ==
    ASSUME SmallItems, Null \notin Vals
    PROVE  Spec => []SearchesAreExact
  <1>1. Types => TypeOK
    BY TypesImplyTypeOK
  <1>2. TypeOK /\ LookupIsExact /\ MatchIsExact => SearchesAreExact
    BY DEF SearchesAreExact
  <1> QED
    BY <1>1, <1>2, TypesHold, LookupsAreExact, MatchesAreExact, PTL

----------------------------------------------------------------------------
(* What is not found goes at a place among the keys. *)
LEMMA PlaceAmongKeys ==
    ASSUME NEW i, Shape(i), Searchable(i), NEW key \in Keys, NEW found \in Finds(i, key),
           found < 0
    PROVE  Complement(found) \in 0 .. i.keys.count
  <1> DEFINE base == BaseOf(i.fanout, key)
             num == NumOf(i.fanout, key)
             n == i.keys.count
             w == <<base, num>>
  <1>1. n \in Nat
    BY DEF Shape, Records, Arrays
  <1>2. base \in Nat /\ num \in Nat /\ base + num <= n
    BY <1>1, WindowInside DEF Shape
  <1>3. key \in Int
    BY FirstByteType
  <1>4. IndexFind(i, key) = IrSearch(key, i.keys.data)[w] /\ w \in Windows
    BY <1>2, Calls DEF IndexFind
  <1>5. IrFound(key, i.keys.data, w, IndexFind(i, key)) /\ w[1] = base /\ w[2] = num
    BY <1>3, <1>4, IrIsExact
  <1> HIDE DEF w
  <1>6. \/ found = IndexFind(i, key) \/ found \in base .. base + num - 1
        \/ \E j \in base .. base + num : found = Complement(j)
    BY DEF Finds
  <1> HIDE DEF base, num, n
  <1>7. CASE found = IndexFind(i, key)
    <2>1. Complement(found) \in base .. base + num
      BY <1>5, <1>7 DEF IrFound
    <2> QED
      BY <1>1, <1>2, <2>1 DEF n
  <1>8. ASSUME NEW j \in base .. base + num, found = Complement(j)
        PROVE  Complement(found) \in 0 .. n
    BY <1>1, <1>2, <1>8 DEF Complement
  <1>9. ~(found \in base .. base + num - 1)
    BY <1>2
  <1> QED
    BY <1>6, <1>7, <1>8, <1>9 DEF n

(* Inserting a key and its value moves those after them by one place. *)
MovedBy(i, j, key, val, at) ==
    \A m \in Places(j) :
        PairAt(j, m) = CASE m < at -> PairAt(i, m)
                         [] m = at -> <<key, val>>
                         [] m > at -> PairAt(i, m - 1)

(* An insertion of both does that.                                         *)
LEMMA BothMove ==
    ASSUME NEW i, Typed(i), Aligned(i), NEW key, NEW val, NEW at \in 0 .. i.keys.count,
           NEW j, Adds(i.keys, key, at, j.keys), Adds(i.vals, val, at, j.vals)
    PROVE  MovedBy(i, j, key, val, at)
  <1>1. i.keys.count \in Nat /\ i.vals.count = i.keys.count /\ j.keys.count = i.keys.count + 1
    BY DEF Typed, Shape, Records, Arrays, Aligned, Adds
  <1>2. ASSUME NEW m \in Places(j)
        PROVE  PairAt(j, m) = CASE m < at -> PairAt(i, m)
                                [] m = at -> <<key, val>>
                                [] m > at -> PairAt(i, m - 1)
    <2>1. m \in Block(i.keys.count + 1) /\ m \in Int /\ at \in Int
      BY <1>1 DEF Places, Block
    <2>2. Cell(j.keys, m) = IF m < at THEN Cell(i.keys, m)
                            ELSE IF m = at THEN key ELSE Cell(i.keys, m - 1)
      BY <2>1 DEF Adds
    <2>3. Cell(j.vals, m) = IF m < at THEN Cell(i.vals, m)
                            ELSE IF m = at THEN val ELSE Cell(i.vals, m - 1)
      BY <1>1, <2>1 DEF Adds
    <2>4. /\ m < at => PairAt(j, m) = PairAt(i, m)
          /\ m = at => PairAt(j, m) = <<key, val>>
          /\ m > at => PairAt(j, m) = PairAt(i, m - 1)
      BY <2>1, <2>2, <2>3 DEF PairAt, KeyAt
    <2>5. CASE m < at
      <3>1. ~(m = at) /\ ~(m > at)
        BY <2>1, <2>5
      <3> QED
        BY <2>4, <2>5, <3>1, Zenon
    <2>6. CASE m = at
      <3>1. ~(m < at) /\ ~(m > at)
        BY <2>1, <2>6
      <3> QED
        BY <2>4, <2>6, <3>1, Zenon
    <2>7. CASE m > at
      <3>1. ~(m < at) /\ ~(m = at)
        BY <2>1, <2>7
      <3> QED
        BY <2>4, <2>7, <3>1, Zenon
    <2> QED
      BY <2>1, <2>5, <2>6, <2>7
  <1> QED
    BY <1>2 DEF MovedBy

(* The same of index_add(), if both were inserted *)
LEMMA AddMoves ==
    ASSUME NEW i, Typed(i), Searchable(i), Aligned(i), NEW key \in Keys, NEW val \in Vals,
           NEW found \in Finds(i, key), NEW j \in AddIndex(i, key, val, found),
           j.keys.count = i.keys.count + 1, j.vals.count = i.vals.count + 1
    PROVE  \E at \in 0 .. i.keys.count : MovedBy(i, j, key, val, at)
  <1>1. i \in Records /\ Shape(i) /\ i.keys.count \in Nat /\ i.vals.count \in Nat
    BY DEF Typed, Shape, Records, Arrays
  <1>2. found \in Int
    BY <1>1, FindType
  <1>3. CASE j = WithArrays(i, i.keys, SetItem(i.vals, val, found).arr)
    <2>1. j.keys = i.keys
      BY <1>1, <1>3 DEF WithArrays, Records
    <2> QED
      BY <1>1, <2>1
  <1>4. ASSUME ~(found >= 0), NEW k \in InsertItem(i.keys, key, Complement(found)),
               NEW v \in InsertItem(i.vals, val, Complement(found)),
               j = WithArrays(i, k.arr, v.arr)
        PROVE  \E at \in 0 .. i.keys.count : MovedBy(i, j, key, val, at)
    <2> DEFINE at == Complement(found)
    <2>1. found < 0
      BY <1>2, <1>4
    <2>2. at \in 0 .. i.keys.count /\ at \in Nat
      BY <1>1, <2>1, PlaceAmongKeys
    <2> HIDE DEF at
    <2>3. j.keys = k.arr /\ j.vals = v.arr
      BY <1>1, <1>4 DEF WithArrays, Records
    <2>4. SameCells(i.keys, k.arr) \/ Adds(i.keys, key, at, k.arr)
      BY <1>4, <2>2, InsertSound, IndexAssumption DEF Typed, at
    <2>5. SameCells(i.vals, v.arr) \/ Adds(i.vals, val, at, v.arr)
      BY <1>4, <2>2, InsertSound, IndexAssumption DEF Typed, at
    <2>6. ~SameCells(i.keys, k.arr) /\ ~SameCells(i.vals, v.arr)
      BY <1>1, <2>3 DEF SameCells
    <2>7. MovedBy(i, j, key, val, at)
      BY <2>2, <2>3, <2>4, <2>5, <2>6, BothMove
    <2> QED
      BY <2>2, <2>7
  <1> QED
    BY <1>1, <1>3, <1>4, AddParts

(* An index_add() that inserts, in any state of the index, moves every key *)
(* together with its value, whatever the fanout table says.                *)
THEOREM AddsKeepPairs == ASSUME SmallItems PROVE Spec => AddKeepsPairs
  <1> DEFINE Inserts(key, val) ==
                /\ Made(idx) /\ Aligned(idx)
                /\ idx'.keys.count = idx.keys.count + 1
                /\ idx'.vals.count = idx.vals.count + 1
                /\ IndexAdd(key, val)
             Moves(key, val) ==
                \E at \in 0 .. idx.keys.count :
                    \A j \in Places(idx') :
                        PairAt(idx', j) = CASE j < at -> PairAt(idx, j)
                                            [] j = at -> <<key, val>>
                                            [] j > at -> PairAt(idx, j - 1)
             Kept == \A key \in Keys, val \in Vals : Inserts(key, val) => Moves(key, val)
  <1>1. ASSUME Types, NEW key \in Keys, NEW val \in Vals, Inserts(key, val)
        PROVE  Moves(key, val)
    <2>1. PICK found \in Finds(idx, key) : idx' \in AddIndex(idx, key, val, found)
      BY <1>1 DEF IndexAdd
    <2>2. Typed(idx) /\ Searchable(idx)
      BY <1>1 DEF Types, IndexAdd, Searchable
    <2>3. \E at \in 0 .. idx.keys.count : MovedBy(idx, idx', key, val, at)
      BY <1>1, <2>1, <2>2, AddMoves
    <2> QED
      BY <2>3, Zenon DEF MovedBy
  <1>2. Types => Kept
    BY <1>1
  <1>3. AddKeepsPairs <=> [][Kept]_vars
    BY DEF AddKeepsPairs
  <1> HIDE DEF Kept
  <1>4. Types /\ [Next]_vars => [Kept]_vars
    BY <1>2
  <1> QED
    BY <1>3, <1>4, TypesHold, PTL DEF Spec
=============================================================================
