------------------------------- MODULE Index -------------------------------
(***************************************************************************)
(* One Dino_Index of lib/index.c: a fanout table over two Arrays, the keys *)
(* and the vals, and a caller that calls its functions in any order.       *)
(*                                                                         *)
(* Keys and fanout table are as in IndexOps.                               *)
(***************************************************************************)
EXTENDS ArrayOps, IndexOps

CONSTANTS Vals,      \* the values of values
          KeySize,   \* in bytes
          ValSizes,  \* the value sizes that indexes are made with
          MaxCount,    \* bound: the most keys
          AllocCounts  \* bound: the capacities that are asked for

ASSUME IndexAssumption ==
    /\ Bytes \in Nat \ {0} /\ PerByte \in Nat \ {0}
    /\ Keys \cup Vals \subseteq Items
    /\ KeySize \in Nat \ {0} /\ ValSizes \subseteq Nat
    /\ MaxCount \in Nat /\ AllocCounts \subseteq Nat

VARIABLES idx,    \* the index, or NoIndex if the caller's pointer is NULL
          ret,    \* what the last call returned
          died,   \* the function that dereferenced a NULL pointer, or "none"
          trust   \* "read": idx has the keys of a file, read in full;
                  \* "grown": and one key more; else "no"

vars == <<idx, ret, died, trust>>

EIO == 5
ENOMEM == 12

NoFanout == <<>>
NoIndex == [count |-> 0, fanout |-> NoFanout, keys |-> NoArray, vals |-> NoArray]
Made(i) == Exists(i.keys)

Init == idx = NoIndex /\ ret = OK /\ died = "none" /\ trust = "no"

Alive(i) == [idx |-> i, died |-> "none"]

----------------------------------------------------------------------------
(* index_new(): if one of the arrays cannot be made, index_free() is to    *)
(* undo that, and dereferences the one that is NULL.                       *)
NewIndex(keysize, valsize) ==
    IF keysize = 0 THEN {Alive(NoIndex)}
    ELSE {Alive(NoIndex)} \cup
         {IF Exists(keys) /\ Exists(vals)
          THEN Alive([NoIndex EXCEPT !.keys = keys, !.vals = vals])
          ELSE [idx |-> NoIndex, died |-> "index_free"] :
             keys \in New(keysize), vals \in New(valsize)}

Zeros == [b \in 0 .. Bytes - 1 |-> 0]

(* calloc() of the fanout table *)
Callocs == {NoFanout, Zeros}

(* index_init(): none of its three allocations is checked. *)
InitIndex(i) ==
    {[i EXCEPT !.fanout = f, !.keys = k.arr, !.vals = v.arr] :
        f \in Callocs, k \in Grow(i.keys), v \in Grow(i.vals)}

(* index_realloc(): array_realloc()'s -1 is not less than any size_t. *)
ReallocIndex(i, alloc_count) ==
    LET step(f, k, v) ==
            CASE Unsigned(k.ret) < alloc_count ->
                   Outcome([i EXCEPT !.fanout = f, !.keys = k.arr], -1)
              [] Unsigned(k.ret) >= alloc_count /\ Unsigned(v.ret) < alloc_count ->
                   Outcome([i EXCEPT !.fanout = f, !.keys = k.arr, !.vals = v.arr], -1)
              [] OTHER ->
                   Outcome([i EXCEPT !.fanout = f, !.keys = k.arr, !.vals = v.arr],
                           alloc_count)
    IN  {step(f, k, v) : f \in IF i.fanout = NoFanout THEN Callocs ELSE {i.fanout},
                         k \in Realloc(i.keys, alloc_count),
                         v \in Realloc(i.vals, alloc_count)}

(* index_clear(), and one that keeps the fanout table. *)
ClearKeepingFanout(i) ==
    [i EXCEPT !.keys = Clear(i.keys), !.vals = Clear(i.vals), !.count = 0]

ClearIndex(i) ==
    [i EXCEPT !.fanout = NoFanout, !.keys = Clear(i.keys), !.vals = Clear(i.vals),
              !.count = 0]

----------------------------------------------------------------------------
(* load_index_data(): the fanout table, the keys, the vals.                *)
(*                                                                         *)
(* A file that holds an index: its keys in order, a value for each, and    *)
(* the fanout table that says where the keys with a first byte end.        *)
SortedKeys(n) == {f \in [Block(n) -> Keys] : \A i, j \in Block(n) : i < j => f[i] < f[j]}

Files == UNION {{[count |-> n, fanout |-> FanoutOf(keys, n), keys |-> keys, vals |-> vals] :
                    keys \in SortedKeys(n), vals \in [Block(n) -> Vals]} :
                   n \in 0 .. MaxCount}

FANOUT_SIZE == 4 * Bytes
NeverRead == [b \in 0 .. Bytes - 1 |-> Garbage]

(* What pread_retry() may return for the fanout table, and what is then in *)
(* it: all, too little, or an error (the malloc() of it may have failed).  *)
FanoutReads(file) ==
    {Outcome(file.fanout, FANOUT_SIZE), Outcome(NeverRead, FANOUT_SIZE - 1),
     Outcome(NeverRead, -1), Outcome(NoFanout, -1)}

(* After an error off is one too small: what is read are not the items.    *)
Shifted(items) == [i \in DOMAIN items |-> Garbage]

At(off, items) == IF off = FANOUT_SIZE THEN items ELSE Shifted(items)

(* The index stays unreachable, and ret is an error, unless all three parts*)
(* seem to have been read.                                                 *)
LoadArrays(i, file, r) ==
    UNION {IF k.ret = Null THEN {Outcome(NoIndex, -EIO)}
           ELSE {IF v.ret = Null THEN Outcome(NoIndex, -EIO)
                 ELSE Outcome([i EXCEPT !.keys = k.arr, !.vals = v.arr], r) :
                    v \in Load(i.vals, At(r, file.vals), file.count)} :
              k \in Load(i.keys, At(r, file.keys), file.count)}

LoadIndexData(i, file) ==
    UNION {IF Unsigned(f.ret) < FANOUT_SIZE THEN {Outcome(NoIndex, -EIO)}
           ELSE LoadArrays([i EXCEPT !.count = file.count, !.fanout = f.arr],
                           file, f.ret) :
              f \in FanoutReads(file)}

ReadInFull(o) == o.ret = FANOUT_SIZE /\ ~o.arr.keys.suspect /\ ~o.arr.vals.suspect

----------------------------------------------------------------------------
(* index_find() and what is built on it. *)
IndexFind(i, key) ==
    BsearchIr(key, i.keys.data, BaseOf(i.fanout, key), NumOf(i.fanout, key))

(* All the results that it may have.  If it compares with keys that were   *)
(* never written, that is any in the range.                                *)
Finds(i, key) ==
    LET base == BaseOf(i.fanout, key)
        num == NumOf(i.fanout, key)
    IN  IF Written(i.keys, base, base + num - 1) THEN {IndexFind(i, key)}
        ELSE (base .. base + num - 1) \cup {Complement(j) : j \in base .. base + num}

(* index_search(): the value of the key, or Null. *)
IndexSearch(i, key) ==
    LET j == IndexFind(i, key) IN IF j < 0 THEN Null ELSE Cell(i.vals, j)

(* index_key_match() of the keys lokey .. hikey that share a prefix; past  *)
(* is what the memory after the last key holds.                            *)
IndexKeyMatch(i, lokey, hikey, past) ==
    LET keys == [j \in 0 .. i.keys.count |->
                    IF j < i.keys.count THEN Cell(i.keys, j) ELSE past]
    IN  KeyMatch(i.fanout, keys, lokey, lokey, hikey)

(* index_add(): neither insertion is checked; fanout and count stay.  The  *)
(* slips put the value at the end, the key where the search ended without  *)
(* decoding that, and a key that is there once more.                       *)
AddIndexTwice(i, key, val, found) ==
    LET at == MAX(found, Complement(found))
    IN  {[i EXCEPT !.keys = k.arr, !.vals = v.arr] :
            k \in InsertItem(i.keys, key, at), v \in InsertItem(i.vals, val, at)}

AddIndexAppending(i, key, val, found) ==
    IF found >= 0 THEN {[i EXCEPT !.vals = SetItem(i.vals, val, found).arr]}
    ELSE {[i EXCEPT !.keys = k.arr, !.vals = v.arr] :
             k \in InsertItem(i.keys, key, Complement(found)),
             v \in AppendItem(i.vals, val)}

AddIndexOneLate(i, key, val, found) ==
    IF found >= 0 THEN {[i EXCEPT !.vals = SetItem(i.vals, val, found).arr]}
    ELSE {[i EXCEPT !.keys = k.arr, !.vals = v.arr] :
             k \in InsertItem(i.keys, key, -found),
             v \in InsertItem(i.vals, val, -found)}

AddIndex(i, key, val, found) ==
    IF found >= 0 THEN {[i EXCEPT !.vals = SetItem(i.vals, val, found).arr]}
    ELSE {[i EXCEPT !.keys = k.arr, !.vals = v.arr] :
             k \in InsertItem(i.keys, key, Complement(found)),
             v \in InsertItem(i.vals, val, Complement(found))}

----------------------------------------------------------------------------
(* The calls.  A program that dereferenced a NULL pointer makes no more.   *)
Running == died = "none"

(* What a function that makes an index does with index_new()'s outcome n.  *)
Make(n, i) ==
    /\ died' = n.died
    /\ idx' = IF Made(n.idx) THEN i ELSE NoIndex
    /\ ret' = IF Made(idx') THEN OK ELSE Null
    /\ trust' = "no"

IndexNew ==
    /\ Running /\ ~Made(idx)
    /\ \E keysize \in {0, KeySize}, valsize \in ValSizes :
          \E n \in NewIndex(keysize, valsize) : Make(n, n.idx)

IndexInit ==
    /\ Running /\ ~Made(idx)
    /\ \E keysize \in {0, KeySize}, valsize \in ValSizes :
          \E n \in NewIndex(keysize, valsize) :
             \E i \in InitIndex(n.idx) : Make(n, i)

(* The else of the last test: index_free(), and NULL. *)
IndexWithCapacity ==
    /\ Running /\ ~Made(idx)
    /\ \E keysize \in {0, KeySize}, valsize \in ValSizes, alloc_count \in AllocCounts :
          \E n \in NewIndex(keysize, valsize) :
             IF alloc_count = 0 \/ ~Made(n.idx) THEN Make(n, n.idx)
             ELSE \E o \in ReallocIndex(n.idx, alloc_count) :
                     Make(n, IF o.ret > 0 THEN o.arr ELSE NoIndex)

(* index_from_shdr() finds one of the ValSizes and any key size in the     *)
(* section header.                                                         *)
IndexLoad ==
    /\ Running /\ ~Made(idx)
    /\ \E keysize \in {0, KeySize}, valsize \in ValSizes \ {0} :
          \E n \in NewIndex(keysize, valsize) :
             /\ died' = n.died
             /\ IF ~Made(n.idx)
                THEN idx' = NoIndex /\ ret' = -ENOMEM /\ trust' = "no"
                ELSE \E file \in Files : \E o \in LoadIndexData(n.idx, file) :
                        /\ idx' = o.arr /\ ret' = o.ret
                        /\ trust' = IF ReadInFull(o) THEN "read" ELSE "no"

IndexRealloc ==
    /\ Running /\ Made(idx)
    /\ \E alloc_count \in AllocCounts : \E o \in ReallocIndex(idx, alloc_count) :
          idx' = o.arr /\ ret' = o.ret
    /\ UNCHANGED <<died, trust>>

IndexClear ==
    /\ Running /\ Made(idx)
    /\ idx' = ClearIndex(idx) /\ ret' = OK /\ trust' = "no"
    /\ UNCHANGED died

IndexFree ==
    /\ Running /\ Made(idx)
    /\ idx' = NoIndex /\ ret' = OK /\ trust' = "no"
    /\ UNCHANGED died

(* An add makes an index that was read grow, or leaves keys and values     *)
(* that do not correspond.                                                 *)
TrustAfter(i, found) ==
    CASE found >= 0 \/ i = idx -> trust
      [] /\ found < 0 /\ trust = "read"
         /\ i.keys.count = idx.keys.count + 1
         /\ i.vals.count = idx.vals.count + 1 -> "grown"
      [] OTHER -> "no"

(* A fanout table that was never read is not searched: the program ends    *)
(* when load_indexes() says so.                                            *)
IndexAdd(key, val) ==
    /\ Running /\ Made(idx)
    /\ idx.fanout # NoFanout /\ idx.fanout # NeverRead
    /\ \E found \in Finds(idx, key) : \E i \in AddIndex(idx, key, val, found) :
          /\ found < 0 => MAX(idx.keys.count, idx.vals.count) < MaxCount
          /\ idx' = i
          /\ ret' = IF found >= 0 THEN found ELSE Complement(found)
          /\ trust' = TrustAfter(i, found)
    /\ UNCHANGED died

(* index_add(), index_search() and index_key_match() of an index without a *)
(* fanout table: index_find() dereferences it.                             *)
FindWithoutFanout ==
    /\ Running /\ Made(idx) /\ idx.fanout = NoFanout
    /\ died' = "index_find"
    /\ idx' = NoIndex /\ ret' = OK /\ trust' = "no"

Next ==
    \/ IndexNew \/ IndexInit \/ IndexWithCapacity \/ IndexLoad
    \/ IndexRealloc \/ IndexClear \/ IndexFree
    \/ \E key \in Keys, val \in Vals : IndexAdd(key, val)
    \/ FindWithoutFanout

Spec == Init /\ [][Next]_vars

----------------------------------------------------------------------------
(* Arrays that hold at most MaxCount items. *)
ArrayType(arr, items) ==
    /\ arr.isize \in Nat /\ arr.allocated \in Nat
    /\ arr.count \in 0 .. MaxCount
    /\ arr.overrun \in BOOLEAN /\ arr.suspect \in BOOLEAN
    /\ DOMAIN arr.data = Block(arr.allocated)
    /\ \A i \in DOMAIN arr.data : arr.data[i] \in items \cup {Garbage}

(* The types of the state; an index has both its arrays or does not exist. *)
TypeOK ==
    /\ idx.count \in 0 .. MaxCount
    /\ idx.fanout = NoFanout
       \/ idx.fanout \in [0 .. Bytes - 1 -> 0 .. MaxCount \cup {Garbage}]
    /\ ArrayType(idx.keys, Keys) /\ ArrayType(idx.vals, Vals)
    /\ Exists(idx.keys) <=> Exists(idx.vals)
    /\ ret \in Int
    /\ died \in {"none", "index_free", "index_find"}
    /\ trust \in {"no", "read", "grown"}

Places(i) == Block(i.keys.count)
KeyAt(i, j) == Cell(i.keys, j)
Aligned(i) == i.keys.count = i.vals.count

(* The keys of the index with their values, in order. *)
PairAt(i, j) == <<KeyAt(i, j), Cell(i.vals, j)>>
Pairs(i) == {PairAt(i, j) : j \in Places(i)}

(* A search of an index that was read returns the value of the key, or     *)
(* NULL if it is not there.  This needs fanout table and keys to agree,    *)
(* and keys and values to correspond.                                      *)
LookupIsExact ==
    trust = "read" =>
        \A key \in Keys :
            LET found == IndexSearch(idx, key) IN
            IF found = Null THEN \A p \in Pairs(idx) : p[1] # key
                            ELSE <<key, found>> \in Pairs(idx)

(* A search for a prefix returns just the places of the keys that have it, *)
(* whatever follows the last key in memory: only a place after the last    *)
(* may be in the range by mistake.                                         *)
SharePrefix(lokey, hikey) == lokey < hikey /\ FirstByte(lokey) = FirstByte(hikey)

MatchIsExact ==
    trust = "read" =>
        \A lokey, hikey \in Keys, past \in Keys :
            SharePrefix(lokey, hikey) =>
                LET range == IndexKeyMatch(idx, lokey, hikey, past) IN
                (range.lo .. range.hi) \cap Places(idx)
                    = {j \in Places(idx) : KeyAt(idx, j) \in lokey .. hikey}

(* Both: no search of an index that was read misses or invents a key.      *)
SearchesAreExact == TypeOK /\ LookupIsExact /\ MatchIsExact

(* An index_add() that inserts, in any state of the index, moves every key *)
(* together with its value: the pairs are those from before, in the same   *)
(* order, and one more.                                                    *)
AddKeepsPairs ==
    [][\A key \in Keys, val \in Vals :
          (/\ Made(idx) /\ Aligned(idx)
           /\ idx'.keys.count = idx.keys.count + 1
           /\ idx'.vals.count = idx.vals.count + 1
           /\ IndexAdd(key, val)) =>
              \E at \in 0 .. idx.keys.count :
                  \A j \in Places(idx') :
                      PairAt(idx', j) = CASE j < at -> PairAt(idx, j)
                                          [] j = at -> <<key, val>>
                                          [] j > at -> PairAt(idx, j - 1)]_vars

(* The keys of an index that was read stay in order through one            *)
(* index_add(), though the fanout table has not changed with them.         *)
KeysStaySorted ==
    trust # "no" =>
        /\ Aligned(idx)
        /\ \A j, k \in Places(idx) : j < k => KeyAt(idx, j) < KeyAt(idx, k)

(* No index_find() looks at a place past the last key, whatever was called *)
(* since the index was made: the fanout table never counts more keys than  *)
(* there are, and index_realloc() and index_clear() keep it that way.      *)
FindStaysInside ==
    (Made(idx) /\ idx.fanout \notin {NoFanout, NeverRead}) =>
        \A key \in Keys :
            /\ NumOf(idx.fanout, key) >= 0
            /\ BaseOf(idx.fanout, key) + NumOf(idx.fanout, key) <= idx.keys.count

(* An index that was read is a dictionary: an add gives its key the value  *)
(* and leaves all others theirs.                                           *)
Abstract ==
    INSTANCE Dictionary WITH
        known <- trust # "no",
        table <- IF trust = "no" THEN {} ELSE Pairs(idx)

IsDictionary == Abstract!Spec

----------------------------------------------------------------------------
(* What the headers say of every index, and the code does not keep.        *)

(* libdino.h:49-53: an index finds the data that its keys stand for.  A    *)
(* key that index_add() inserted moves the others out of the ranges that   *)
(* the fanout table still has for them.                                    *)
EveryKeyIsFound ==
    trust = "grown" => \A p \in Pairs(idx) : IndexSearch(idx, p[1]) = p[2]
=============================================================================
