----------------------------- MODULE DinoReader -----------------------------
(***************************************************************************)
(* Opening a DINO object: read_dino() of lib/dino_begin.c with sectab.c    *)
(* and namtab.c, and load_indexes() and the lookup of indexes of index.c.  *)
(* Each read may fail, and the file may be cut off anywhere.  What is in   *)
(* an index, and the searches in it, are in the module Index.              *)
(*                                                                         *)
(* The object itself is as dino.h says: header, section table, table of    *)
(* 64-bit sizes, name table, sections; but its section table may claim to  *)
(* be larger or smaller than that.  An operator of the object (secs, wide, *)
(* ...) is the truth; dino is what the program has made of it.             *)
(***************************************************************************)
EXTENDS Integers, Sequences, FiniteSets, Reads

CONSTANTS DhdrSize, ShdrSize,  \* sizeof(Dino_Dhdr), sizeof(Dino_Shdr)
          FanoutSize,          \* FANOUT_SIZE
          KeySize, ValSize,    \* the sizes of a key and a value of an index
          MaxSections,         \* the most sections of an object
          Names,               \* offsets of names in the name table,
          NamtabSize,          \*   and its size
          BlobSizes, Counts,   \* sizes of other sections, counts of indexes
          Skews,               \* how much too large a sectab_size is
          SecMod,              \* how many sizes a Dino_SectabSize has: 65536
          Msb,                 \* the bit that marks an index of a 64-bit size
          Mod64,               \* how many sizes and offsets there are: 2^64
          Garbage64, GarbageInt, \* what memory holds that was not written
          EIO                  \* the error number

ASSUME DinoReaderAssumption ==
    /\ {DhdrSize, ShdrSize, FanoutSize, KeySize, ValSize} \subseteq Nat \ {0}
    /\ MaxSections \in 0 .. 255
    /\ Names \subseteq 0 .. NamtabSize - 1 /\ NamtabSize \in Nat
    /\ BlobSizes \subseteq Nat /\ Counts \subseteq Nat
    /\ Skews \subseteq Int
    /\ Msb \in Nat
    /\ {SecMod, Mod64} \subseteq Nat \ {0} /\ SecMod % 8 = 0
    /\ Garbage64 \subseteq Nat /\ GarbageInt \subseteq Int
    /\ EIO \in Nat \ {0} /\ -EIO \notin GarbageInt

(* A Dino_Size has the bit and those below it; the headers and as many     *)
(* sections of such a size as there may be are no matter to 64 bits.       *)
SizeMod == 2 * Msb

ASSUME WidthAssumption ==
    /\ NamtabSize < SizeMod
    /\ DhdrSize + SecMod + (MaxSections + 1) * SizeMod <= Mod64

VARIABLES object,   \* the object in the file
          fsize,    \* how much of it there is
          dino,     \* the Dino
          pc,       \* the next step, "closed" or "open"
          i, cnt,   \* load_indexes(): the section, and the indexes so far
          ret,      \* what load_indexes() returned
          failed,   \* ghosts: whether a read of an index failed,
          loaded,   \*   and whether load_indexes() ended without an error
          found     \* what get_index_byname() returned

vars == <<object, fsize, dino, pc, i, cnt, ret, failed, loaded, found>>

----------------------------------------------------------------------------
(* The object.  Sections in wide have their size in the 64-bit table. *)
IndexSize(count) == FanoutSize + count * (KeySize + ValSize)

Sections ==
    [name : Names, type : {"blob"}, size : BlobSizes, count : {0}]
    \cup {[name |-> n, type |-> "index", size |-> IndexSize(c), count |-> c] :
             n \in Names, c \in Counts}

Objects ==
    UNION {[sec64 : BOOLEAN, secs : [0 .. n - 1 -> Sections], count : {n},
            wide : SUBSET (0 .. n - 1), skew : Skews] : n \in 0 .. MaxSections}

SectabSize(o) == o.count * ShdrSize + 8 * Cardinality(o.wide) + o.skew

secs == object.secs
wide == object.wide
section_count == object.count
shdrsize == section_count * ShdrSize
sectab_size == SectabSize(object)
headers == DhdrSize + sectab_size + NamtabSize

(* Where a section starts, and the size field of its header. *)
Start[k \in 0 .. section_count] ==
    IF k = 0 THEN headers ELSE Start[k - 1] + secs[k - 1].size

Idx64(k) == Cardinality({w \in wide : w < k})
SizeField(k) == IF k \in wide THEN Msb + Idx64(k) ELSE secs[k].size

(* What an object's headers can say of it. *)
Writable(o) ==
    /\ SectabSize(o) \in 0 .. SecMod - 1
    /\ \A k \in 0 .. o.count - 1 :
         k \notin o.wide => o.secs[k].size < IF o.sec64 THEN Msb ELSE SizeMod

----------------------------------------------------------------------------
NoDino == [count |-> 0, sec64val |-> << >>, sec |-> << >>, namtab |-> 0]
NotFound == [name |-> -1, idx |-> -1]

Init ==
    /\ object \in {o \in Objects : Writable(o)}
    /\ fsize \in 0 .. Start[section_count] \cup 0 .. DhdrSize + shdrsize
    /\ dino = NoDino
    /\ pc = "closed"
    /\ i = 0 /\ cnt = 0 /\ ret = 0 /\ failed = FALSE /\ loaded = FALSE
    /\ found = NotFound

(* The tests of what pread_retry() returned.  Those for the header table   *)
(* and the name table are signed; for the header -1 passes the test, as a  *)
(* size_t, and fails that of read_dino().  The slip takes -1 for enough.   *)
TooShortUnsigned(r, len) == r # -1 /\ r < len

TooShort(r, len) == r < len

Step(from, to) ==
    /\ pc = from
    /\ pc' = to
    /\ loaded' = FALSE /\ found' = NotFound
    /\ UNCHANGED <<object, fsize, i, cnt, ret, failed>>

(* read_dino() returns NULL. *)
GiveUp(from) == Step(from, "closed") /\ dino' = NoDino

(* read_dino(), with memory for the Dino *)
ReadDino == Step("closed", "dhdr") /\ dino' = NoDino

ReadDhdr ==
    \E r \in ReadRetry(DhdrSize, fsize, 0) :
       IF TooShort(r, DhdrSize) THEN GiveUp("dhdr")
       ELSE Step("dhdr", "alloc") /\ UNCHANGED dino

(* read_sectab(): realloc_sectab() allocates nothing for no sections; any  *)
(* of its two blocks may be NULL.                                          *)
AllocSectab ==
    \/ GiveUp("alloc")
    \/ section_count # 0 /\ Step("alloc", "shdrs") /\ UNCHANGED dino

ReadShdrs ==
    \E r \in ReadRetry(shdrsize, fsize, DhdrSize) :
       IF TooShort(r, shdrsize) THEN GiveUp("shdrs")
       ELSE /\ Step("shdrs", IF object.sec64 THEN "sec64" ELSE "sections")
            /\ UNCHANGED dino

(* A Dino_SectabSize wraps around if it would be negative.  As many bytes  *)
(* are read as there are values, an eighth of them: the rest is what       *)
(* malloc() left there.  (Of a table that is too large, only what the      *)
(* sections can name matters.)                                             *)
sec64size == (sectab_size - shdrsize) % SecMod

ReadSec64 ==
    LET count == sec64size \div 8
        true64(k) == secs[CHOOSE w \in wide : Idx64(w) = k].size
        written(k, r) == 8 * (k + 1) <= r /\ k < Cardinality(wide)
    IN  \/ GiveUp("sec64")  \* no memory
        \/ /\ sec64size % 8 = 0
           /\ \E r \in ReadRetry(count, fsize, DhdrSize + shdrsize) :
                IF TooShort(r, count) THEN GiveUp("sec64")
                ELSE /\ Step("sec64", "sections")
                     /\ \E v \in [0 .. Least(count, MaxSections) - 1 -> Garbage64] :
                          dino' = [dino EXCEPT !.sec64val =
                                    [k \in DOMAIN v |-> IF written(k, r) THEN true64(k) ELSE v[k]]]

(* DINO_SIZE_IS_64() and DINO_SIZE64_IDX(). *)
SIZE64_INVALID == Mod64 - 1

Size64(x) ==
    CASE ~object.sec64 \/ x < Msb -> x
      [] object.sec64 /\ x - Msb \in DOMAIN dino.sec64val -> dino.sec64val[x - Msb]
      [] OTHER -> SIZE64_INVALID

(* The offset of the first section, where the slip forgets the name table, *)
(* and of the others.                                                      *)
FirstOffsetUnnamed == DhdrSize + sectab_size

FirstOffset == DhdrSize + sectab_size + NamtabSize

Offset[k \in 0 .. section_count] ==
    IF k = 0 THEN FirstOffset ELSE (Offset[k - 1] + Size64(SizeField(k - 1))) % Mod64

PlaceSections ==
    /\ Step("sections", "namtab")
    /\ dino' = [dino EXCEPT
         !.count = section_count,
         !.sec = [k \in 0 .. section_count - 1 |->
                    [size |-> Size64(SizeField(k)), count |-> secs[k].count,
                     offset |-> Offset[k], data |-> "none"]]]

ReadNamtab ==
    \E r \in ReadRetry(NamtabSize, fsize, DhdrSize + sectab_size) :
       IF TooShort(r, NamtabSize) THEN GiveUp("namtab")
       ELSE Step("namtab", "open") /\ dino' = [dino EXCEPT !.namtab = r]

----------------------------------------------------------------------------
(* load_index_data(): a read of which -1 was returned passes for complete, *)
(* since that is compared as a size_t, and the index is only half there.   *)
(* The slip accepts every read.                                            *)
AcceptedAny(len, off) == ReadRetry(len, fsize, off)

Accepted(len, off) == {r \in ReadRetry(len, fsize, off) : r \in {len, -1}}

(* What becomes of sec->data, the return value, and whether a read failed. *)
Loaded(data, r, f) == [data |-> data, ret |-> r, failed |-> f]

LoadIndexData(s) ==
    LET keysize == s.count * KeySize
        valsize == s.count * ValSize
    IN  {Loaded(s.data, -EIO, FALSE)}  \* or -ENOMEM; also if a read is short
        \cup UNION {UNION {
          {Loaded(IF <<r, k, v>> = <<FanoutSize, keysize, valsize>> THEN "full" ELSE "half",
                  r, -1 \in {r, k, v}) :
             v \in Accepted(valsize, s.offset + r + keysize)} :
             k \in Accepted(keysize, s.offset + r)} :
             r \in Accepted(FanoutSize, s.offset)}

(* load_indexes(); int cnt is not initialized. *)
LoadIndexes ==
    /\ pc = "open" /\ pc' = "load"
    /\ i' = 0 /\ cnt' \in GarbageInt
    /\ ret' = 0 /\ found' = NotFound
    /\ UNCHANGED <<object, fsize, dino, failed, loaded>>

(* if (r < 0) return -EIO; the slip goes on with the next section. *)
StopsNever(r) == FALSE

Stops(r) == r < 0

LoadNext ==
    /\ pc = "load" /\ i < section_count
    /\ IF secs[i].type = "index"
       THEN \E l \in LoadIndexData(dino.sec[i]) :
              /\ dino' = [dino EXCEPT !.sec[i].data = l.data]
              /\ failed' = (failed \/ l.failed)
              /\ IF Stops(l.ret) THEN pc' = "open" /\ ret' = -EIO /\ UNCHANGED <<i, cnt>>
                 ELSE i' = i + 1 /\ cnt' = cnt + 1 /\ UNCHANGED <<pc, ret>>
       ELSE i' = i + 1 /\ UNCHANGED <<dino, failed, pc, ret, cnt>>
    /\ UNCHANGED <<object, fsize, loaded, found>>

LoadEnd ==
    /\ pc = "load" /\ i = section_count
    /\ pc' = "open"
    /\ ret' = cnt
    /\ loaded' = TRUE
    /\ UNCHANGED <<object, fsize, dino, i, cnt, failed, found>>

----------------------------------------------------------------------------
(* get_secidx_byname(); the names are those of the table, at the offsets   *)
(* in Names.                                                               *)
GetSecidx(name) ==
    LET named == {k \in 0 .. dino.count - 1 : secs[k].name = name}
    IN  IF named = {} THEN -1 ELSE CHOOSE k \in named : \A l \in named : k <= l

(* get_index(): the section whose index is returned, or -1. *)
GetIndex(idx) ==
    IF idx < dino.count /\ secs[idx].type = "index" /\ dino.sec[idx].data # "none"
    THEN idx ELSE -1

(* get_index_byname(): the -1 of a name that is not there becomes 255, a   *)
(* Dino_Secidx, which no section can have.                                 *)
GetIndexByname ==
    /\ pc = "open"
    /\ \E name \in Names :
         found' = [name |-> name, idx |-> GetIndex(GetSecidx(name) % 256)]
    /\ UNCHANGED <<object, fsize, dino, pc, i, cnt, ret, failed, loaded>>

Next ==
    \/ ReadDino \/ ReadDhdr \/ AllocSectab \/ ReadShdrs \/ ReadSec64
    \/ PlaceSections \/ ReadNamtab
    \/ LoadIndexes \/ LoadNext \/ LoadEnd
    \/ GetIndexByname

Spec == Init /\ [][Next]_vars

----------------------------------------------------------------------------
Opened == pc \in {"open", "load"}

TypeOK ==
    /\ dino.count \in {0, section_count}
    /\ \A k \in DOMAIN dino.sec :
         /\ dino.sec[k].offset \in Nat /\ dino.sec[k].size \in Nat
         /\ dino.sec[k].data \in {"none", "half", "full"}
    /\ dino.namtab \in {0, NamtabSize}
    /\ i \in 0 .. section_count
    /\ cnt \in Int /\ ret \in Int
    /\ found.idx \in -1 .. section_count - 1

(* A Dino is returned only if all of the headers were in the file, however *)
(* it was cut off and whichever reads failed, and whatever size the header *)
(* gives them (dino_begin.c:5-133).                                        *)
OpenMeansWhole ==
    /\ TypeOK
    /\ Opened =>
         /\ fsize >= DhdrSize + shdrsize /\ fsize >= headers
         /\ dino.count = section_count /\ dino.namtab = NamtabSize

(* dino.h:250-258: section 0 starts after the tables, section 1 after it,  *)
(* and so on.  The running sum of dino_begin.c:56-81 finds every section   *)
(* where it is, up to the first that has its size in the table of 64-bit   *)
(* sizes.  A size that the table does not have is never taken from memory  *)
(* behind it; unless the table has less than no size (dino_begin.c:37).    *)
SectionsInPlace ==
    Opened => \A k \in 0 .. section_count - 1 :
       /\ wide \cap 0 .. k - 1 = {} => dino.sec[k].offset = Start[k]
       /\ k \notin wide => dino.sec[k].size = secs[k].size
       /\ object.sec64 /\ k \in wide /\ sectab_size >= shdrsize
             /\ 8 * (Idx64(k) + 1) > sectab_size - shdrsize =>
                dino.sec[k].size = SIZE64_INVALID

(* An index section that is cut off is noticed: an index has all its parts *)
(* or a read has failed (index.c:143-165, array.c:74-80).                  *)
CutOffIsNoticed ==
    \A k \in DOMAIN dino.sec :
       /\ dino.sec[k].data = "half" => failed
       /\ dino.sec[k].data = "full" =>
            /\ secs[k].type = "index"
            /\ dino.sec[k].offset + IndexSize(secs[k].count) <= fsize

(* A lookup by name finds the first section of that name or nothing, not   *)
(* even by way of 255; and it finds every index that is first of its name, *)
(* once load_indexes() has ended without an error: none is left out.       *)
FindsWhatIsThere ==
    \A k \in 0 .. section_count - 1 :
       LET isFirst ==
             /\ secs[k].name = found.name
             /\ \A l \in 0 .. k - 1 : secs[l].name # found.name
       IN  /\ found.idx = k => isFirst /\ secs[k].type = "index"
           /\ isFirst /\ secs[k].type = "index" /\ loaded => found.idx = k
============================================================================
