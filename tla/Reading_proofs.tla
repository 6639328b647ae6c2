--------------------------- MODULE Reading_proofs ---------------------------
(***************************************************************************)
(* What reads files: the reader of DINO objects (the module DinoReader),   *)
(* and mkdino, which reads the headers of RPMs (Mkdino); for objects and   *)
(* RPMs of any size, cut off anywhere, and reads that fail.  And what      *)
(* reads compressed files: the streams of xz and zstd (AdaptedStreams),    *)
(* for frames and buffers of any sizes and codecs that hold back any       *)
(* amount.                                                                 *)
(***************************************************************************)
EXTENDS DinoReader, Mkdino, AdaptedStreams, Bsearchn_proofs, SequenceTheorems

(* DinoReader: the invariant adds what has been read after each step.      *)
(*                                                                         *)
(* What is always true of an object: it is none that the headers could not *)
(* say, and it stays the same.                                             *)
Written == object \in Objects /\ Writable(object)

(* Sections, and the table of sizes, as read_sectab() makes them.          *)
Indices == 0 .. section_count - 1

Rows == [size : Nat, count : Nat, offset : Nat, data : {"none", "half", "full"}]

Sizes64 == [0 .. Least(sec64size \div 8, MaxSections) - 1 -> Nat]

Dinos ==
    [count : {0, section_count}, sec64val : {<< >>} \cup Sizes64,
     sec : {<< >>} \cup [Indices -> Rows], namtab : {0, NamtabSize}]

Types ==
    /\ Written /\ fsize \in Nat
    /\ dino \in Dinos
    /\ i \in 0 .. section_count /\ cnt \in Int /\ ret \in Int
    /\ failed \in BOOLEAN /\ loaded \in BOOLEAN

(* What has been read of the headers by which step. *)
Placing == pc \in {"namtab", "open", "load"}

HeadersRead ==
    /\ pc \in {"shdrs", "sec64", "sections"} \/ Placing => section_count # 0
    /\ pc \in {"sec64", "sections"} \/ Placing => fsize >= DhdrSize + shdrsize
    /\ pc = "sections" /\ object.sec64 => dino.sec64val \in Sizes64
    /\ Opened => fsize >= headers /\ dino.namtab = NamtabSize

(* The sections are those of the object, where they are. *)
InPlace(sec) ==
    \A k \in Indices :
       /\ sec[k].count = secs[k].count
       /\ wide \cap 0 .. k - 1 = {} => sec[k].offset = Start[k]
       /\ k \notin wide => sec[k].size = secs[k].size
       /\ object.sec64 /\ k \in wide /\ sectab_size >= shdrsize
             /\ 8 * (Idx64(k) + 1) > sectab_size - shdrsize =>
                sec[k].size = SIZE64_INVALID

SectionsRead ==
    IF Placing
    THEN dino.count = section_count /\ dino.sec \in [Indices -> Rows] /\ InPlace(dino.sec)
    ELSE dino.sec = << >>

(* Nothing is loaded before load_indexes(), and then all before section i; *)
(* afterwards all, if there was no error.                                  *)
AllLoaded(n) ==
    \A k \in 0 .. n - 1 : secs[k].type = "index" => dino.sec[k].data # "none"

IndexesLoaded ==
    /\ pc = "load" => AllLoaded(i)
    /\ loaded => Opened /\ AllLoaded(section_count)

(* The last lookup was made with the sections as they are.                 *)
LookedUp ==
    \/ found = NotFound
    \/ /\ pc = "open" /\ found.name \in Names
       /\ found.idx = GetIndex(GetSecidx(found.name) % 256)

Inv ==
    /\ Types /\ HeadersRead /\ SectionsRead
    /\ CutOffIsNoticed /\ IndexesLoaded /\ LookedUp

----------------------------------------------------------------------------
(* The constants, one by one *)
LEMMA Constants ==
    /\ DhdrSize \in Nat \ {0} /\ ShdrSize \in Nat \ {0} /\ FanoutSize \in Nat \ {0}
    /\ KeySize \in Nat \ {0} /\ ValSize \in Nat \ {0}
    /\ MaxSections \in 0 .. 255 /\ NamtabSize \in Nat /\ Names \subseteq 0 .. NamtabSize - 1
    /\ BlobSizes \subseteq Nat /\ Counts \subseteq Nat
    /\ SecMod \in Nat \ {0} /\ Mod64 \in Nat \ {0}
    /\ Msb \in Nat /\ SizeMod = 2 * Msb /\ SizeMod \in Nat
    /\ Garbage64 \subseteq Nat /\ GarbageInt \subseteq Int /\ EIO \in Nat \ {0}
    /\ SIZE64_INVALID \in Nat
  BY DinoReaderAssumption DEF SizeMod, SIZE64_INVALID

(* What an object is made of. *)
LEMMA ObjectParts ==
    ASSUME Written
    PROVE  /\ section_count \in 0 .. 255 /\ section_count <= MaxSections
           /\ secs \in [Indices -> Sections] /\ wide \in SUBSET Indices
           /\ object.sec64 \in BOOLEAN
           /\ shdrsize \in Nat /\ (section_count # 0 => shdrsize > 0)
           /\ sectab_size \in 0 .. SecMod - 1
           /\ NamtabSize \in Nat /\ headers \in Nat
           /\ headers = DhdrSize + sectab_size + NamtabSize
  <1>1. PICK n \in 0 .. MaxSections :
           object \in [sec64 : BOOLEAN, secs : [0 .. n - 1 -> Sections], count : {n},
                       wide : SUBSET (0 .. n - 1), skew : Skews]
    BY DEF Written, Objects
  <1>2. section_count = n /\ n \in 0 .. 255
    BY <1>1, Constants DEF section_count
  <1>3. /\ secs \in [Indices -> Sections] /\ wide \in SUBSET Indices
        /\ object.sec64 \in BOOLEAN
    BY <1>1, <1>2 DEF secs, wide, Indices
  <1>4. /\ shdrsize \in Nat /\ (n # 0 => shdrsize > 0)
    BY <1>2, Constants DEF shdrsize
  <1>5. sectab_size \in 0 .. SecMod - 1
    BY DEF Written, Writable, sectab_size
  <1> QED
    <2>1. n <= MaxSections /\ headers = DhdrSize + sectab_size + NamtabSize
      BY <1>1, Constants DEF headers
    <2>2. headers \in Nat
      BY <1>5, <2>1, Constants
    <2> QED
      BY <1>2, <1>3, <1>4, <1>5, <2>1, <2>2, Constants

(* The size, the count and the name that an object gives a section *)
LEMMA SectionType ==
    ASSUME Written, NEW k \in Indices
    PROVE  /\ secs[k].size \in Nat /\ secs[k].count \in Nat /\ secs[k].name \in Names
           /\ secs[k].name # -1
           /\ k \notin wide => secs[k].size < SizeMod
           /\ k \notin wide /\ object.sec64 => secs[k].size < Msb
           /\ IndexSize(secs[k].count) \in Nat
  <1>1. secs[k] \in Sections /\ k \in 0 .. object.count - 1
    <2>1. secs \in [Indices -> Sections]
      BY ObjectParts
    <2> QED
      BY <2>1 DEF Indices, section_count
  <1>2. ASSUME NEW c \in Nat PROVE IndexSize(c) \in Nat
    <2>1. KeySize + ValSize \in Nat /\ FanoutSize \in Nat
      BY Constants
    <2>2. c * (KeySize + ValSize) \in Nat
      BY <2>1
    <2> QED
      BY <2>1, <2>2 DEF IndexSize
  <1>3. BlobSizes \subseteq Nat /\ Counts \subseteq Nat /\ \A m \in Names : m # -1
    BY Constants
  <1>4. secs[k].size \in Nat /\ secs[k].count \in Nat /\ secs[k].name \in Names
    <2>1. CASE secs[k] \in [name : Names, type : {"blob"}, size : BlobSizes, count : {0}]
      <3>1. secs[k].size \in BlobSizes /\ secs[k].count = 0 /\ secs[k].name \in Names
        BY <2>1
      <3>2. secs[k].size \in Nat
        BY <1>3, <3>1
      <3>3. secs[k].count \in Nat
        BY <3>1
      <3> QED
        BY <3>1, <3>2, <3>3
    <2>2. CASE \E m \in Names, c \in Counts :
                  secs[k] = [name |-> m, type |-> "index", size |-> IndexSize(c), count |-> c]
      <3>1. PICK m \in Names, c \in Counts :
                  secs[k] = [name |-> m, type |-> "index", size |-> IndexSize(c), count |-> c]
        BY <2>2
      <3>2. IndexSize(c) \in Nat /\ c \in Nat
        BY <1>2, <1>3
      <3> QED
        BY <3>1, <3>2
    <2> QED
      BY <1>1, <2>1, <2>2 DEF Sections
  <1>5. k \notin wide => secs[k].size < IF object.sec64 THEN Msb ELSE SizeMod
    BY <1>1 DEF Written, Writable, secs, wide
  <1>6. Msb \in Nat /\ SizeMod = 2 * Msb
    BY Constants
  <1> QED
    BY <1>2, <1>3, <1>4, <1>5, <1>6

(* A section in the table of 64-bit sizes has a place there, and each      *)
(* place has one.                                                          *)
LEMMA Places ==
    ASSUME Written
    PROVE  /\ Cardinality(wide) \in Nat
           /\ \A k : Idx64(k) \in Nat
           /\ \A k \in 0 .. Cardinality(wide) - 1 : \E w \in wide : Idx64(w) = k
  <1> DEFINE before(k) == {w \in wide : w < k}
             n == Cardinality(wide)
             f == [w \in wide |-> Idx64(w)]
  <1>1. wide \in SUBSET Indices /\ section_count \in Nat /\ \A w \in wide : w \in Int
    <2>1. wide \in SUBSET Indices /\ section_count \in Nat
      BY ObjectParts
    <2> QED
      BY <2>1 DEF Indices
  <1>2. IsFiniteSet(wide) /\ n \in Nat
    <2>1. IsFiniteSet(Indices)
      BY <1>1, FS_Interval DEF Indices
    <2> QED
      BY <1>1, <2>1, FS_Subset, FS_CardinalityType
  <1>3. ASSUME NEW k
        PROVE  IsFiniteSet(before(k)) /\ Idx64(k) \in Nat /\ Idx64(k) = Cardinality(before(k))
    <2>1. before(k) \in SUBSET wide
      OBVIOUS
    <2> QED
      BY <1>2, <2>1, FS_Subset, FS_CardinalityType DEF Idx64
  <1>4. ASSUME NEW w \in wide PROVE Idx64(w) < n
    <2>1. before(w) \in SUBSET wide /\ before(w) # wide
      BY <1>1
    <2> HIDE DEF before
    <2> QED
      BY <1>2, <1>3, <2>1, FS_Subset
  <1>5. ASSUME NEW v \in wide, NEW w \in wide, v < w PROVE Idx64(v) < Idx64(w)
    <2>1. before(v) \in SUBSET before(w) /\ before(v) # before(w)
      BY <1>1, <1>5
    <2> HIDE DEF before
    <2> QED
      BY <1>3, <2>1, FS_Subset
  <1>6. ASSUME NEW v \in wide, NEW w \in wide, Idx64(v) = Idx64(w) PROVE v = w
    <2>1. v \in Int /\ w \in Int /\ Idx64(v) \in Nat /\ Idx64(w) \in Nat
      BY <1>1, <1>3
    <2>2. ~(v < w) /\ ~(w < v)
      BY <1>5, <1>6, <2>1
    <2> QED
      BY <2>1, <2>2
  <1>7. f \in Injection(wide, 0 .. n - 1)
    <2>1. f \in [wide -> 0 .. n - 1]
      <3>1. ASSUME NEW w \in wide PROVE Idx64(w) \in 0 .. n - 1
        <4>1. Idx64(w) \in Nat /\ Idx64(w) < n /\ n \in Nat
          BY <1>2, <1>3, <1>4
        <4> HIDE DEF n
        <4> QED
          BY <4>1
      <3> HIDE DEF n
      <3> QED
        BY <3>1
    <2> QED
      BY <1>6, <2>1 DEF Injection, IsInjective
  <1>8. IsFiniteSet(0 .. n - 1) /\ Cardinality(0 .. n - 1) = n
    BY <1>2, FS_Interval
  <1>9. f \in Surjection(wide, 0 .. n - 1)
    <2> HIDE DEF f
    <2> QED
      BY <1>7, <1>8, FS_Injection
  <1> QED
    BY <1>2, <1>3, <1>9 DEF Surjection

(* The size of a section is taken from its header, or from the table; or   *)
(* it is not known.                                                        *)
LEMMA Size64Type ==
    ASSUME Written, object.sec64 => dino.sec64val \in Sizes64, NEW k \in Indices
    PROVE  /\ Size64(SizeField(k)) \in Nat
           /\ k \notin wide => Size64(SizeField(k)) = secs[k].size
           /\ object.sec64 /\ k \in wide /\ sectab_size >= shdrsize
                 /\ 8 * (Idx64(k) + 1) > sectab_size - shdrsize =>
                    Size64(SizeField(k)) = SIZE64_INVALID
  <1>1. /\ secs[k].size \in Nat /\ Idx64(k) \in Nat /\ Msb \in Nat /\ SIZE64_INVALID \in Nat
        /\ object.sec64 \in BOOLEAN
    BY SectionType, Places, ObjectParts, Constants
  <1>2. SizeField(k) \in Nat
    BY <1>1 DEF SizeField
  <1> DEFINE n == sec64size \div 8
             room == Least(n, MaxSections)
  <1>0. n \in Nat /\ room \in Nat /\ room <= n
    <2>1. sectab_size - shdrsize \in Int
      <3>1. sectab_size \in Int /\ shdrsize \in Nat
        BY ObjectParts
      <3> QED
        BY <3>1
    <2>2. sec64size \in Nat
      BY <2>1, Constants DEF sec64size
    <2>3. n \in Nat
      BY <2>2
    <2> HIDE DEF n
    <2> QED
      BY <2>3, Constants DEF Least
  <1>3. object.sec64 => DOMAIN dino.sec64val = 0 .. room - 1
                        /\ \A w \in DOMAIN dino.sec64val : dino.sec64val[w] \in Nat
    BY DEF Sizes64
  <1>4. Size64(SizeField(k)) =
           IF ~object.sec64 \/ SizeField(k) < Msb THEN SizeField(k)
           ELSE IF SizeField(k) - Msb \in DOMAIN dino.sec64val THEN dino.sec64val[SizeField(k) - Msb]
           ELSE SIZE64_INVALID
    <2>1. SizeField(k) < Msb /\ object.sec64 => SizeField(k) - Msb \notin DOMAIN dino.sec64val
      <3> HIDE DEF room
      <3> QED
        BY <1>0, <1>1, <1>2, <1>3
    <2> QED
      BY <1>1, <2>1 DEF Size64
  <1>5. Size64(SizeField(k)) \in Nat
    BY <1>1, <1>2, <1>3, <1>4
  <1>6. k \notin wide => Size64(SizeField(k)) = secs[k].size
    BY <1>4, SectionType DEF SizeField
  <1>7. ASSUME object.sec64, k \in wide, sectab_size >= shdrsize,
               8 * (Idx64(k) + 1) > sectab_size - shdrsize
        PROVE  Size64(SizeField(k)) = SIZE64_INVALID
    <2>1. SizeField(k) = Msb + Idx64(k)
      BY <1>7 DEF SizeField
    <2>2. sec64size = sectab_size - shdrsize /\ sec64size \in Nat
      <3>1. sectab_size - shdrsize \in 0 .. SecMod - 1 /\ SecMod \in Nat \ {0}
        <4>1. sectab_size \in 0 .. SecMod - 1 /\ shdrsize \in Nat
          BY ObjectParts
        <4> QED
          BY <1>7, <4>1, Constants
      <3> QED
        BY <3>1 DEF sec64size
    <2>3. n \in Nat /\ 8 * n <= sec64size
      BY <2>2
    <2> HIDE DEF n
    <2>4. ~(Idx64(k) < n) /\ room <= n
      BY <1>0, <1>1, <1>7, <2>2, <2>3
    <2> HIDE DEF room
    <2>5. SizeField(k) - Msb = Idx64(k) /\ ~(SizeField(k) < Msb)
      BY <1>1, <2>1
    <2>6. Idx64(k) \notin DOMAIN dino.sec64val
      BY <1>0, <1>1, <1>3, <1>7, <2>3, <2>4
    <2> QED
      BY <1>4, <1>7, <2>5, <2>6
  <1> QED
    BY <1>5, <1>6, <1>7

----------------------------------------------------------------------------
(* Where sections start, *)
LEMMA StartRecurs ==
    ASSUME Written
    PROVE  /\ Start[0] = headers
           /\ \A k \in Indices : Start[k + 1] = Start[k] + secs[k].size
           /\ \A k \in 0 .. section_count : Start[k] \in Nat
  <1> DEFINE n == section_count
             step == [x \in Nat \X (0 .. n - 1) |-> x[1] + secs[x[2]].size]
             Body(f) == [k \in 0 .. n |-> IF k = 0 THEN headers ELSE f[k - 1] + secs[k - 1].size]
  <1>1. n \in Nat /\ headers \in Nat /\ \A k \in 0 .. n - 1 : secs[k].size \in Nat
    <2>1. n \in Nat /\ headers \in Nat
      BY ObjectParts
    <2> QED
      BY <2>1, SectionType DEF Indices
  <1>2. step \in [Nat \X (0 .. n - 1) -> Nat]
    BY <1>1
  <1>3. PICK f : Accumulated(f, n, Nat, headers, step)
    <2> HIDE DEF step, n
    <2> QED
      BY <1>1, <1>2, Accumulates
  <1>4. f = Body(f)
    <2>1. ASSUME NEW k \in 0 .. n, k # 0
          PROVE  step[<<f[k - 1], k - 1>>] = f[k - 1] + secs[k - 1].size
      <3>1. k - 1 \in 0 .. n - 1 /\ k - 1 \in 0 .. n
        BY <1>1, <2>1
      <3>2. <<f[k - 1], k - 1>> \in Nat \X (0 .. n - 1)
        BY <1>3, <3>1 DEF Accumulated
      <3> QED
        BY <3>2
    <2> HIDE DEF step, n
    <2>2. /\ f \in [0 .. n -> Nat]
          /\ \A k \in 0 .. n : f[k] = Body(f)[k]
      BY <1>3, <2>1 DEF Accumulated
    <2> QED
      BY <2>2
  <1>5. Start = Body(Start)
    <2> HIDE DEF n
    <2> QED
      BY <1>4 DEF Start, n
  <1> HIDE DEF n
  <1>6. Start[0] = headers /\ \A k \in 0 .. n - 1 : Start[k + 1] = Start[k] + secs[k].size
    <2>1. Start[0] = headers
      BY <1>1, <1>5
    <2>2. ASSUME NEW k \in 0 .. n - 1 PROVE Start[k + 1] = Start[k] + secs[k].size
      <3>1. k + 1 \in 0 .. n /\ k + 1 # 0 /\ (k + 1) - 1 = k
        BY <1>1
      <3> HIDE DEF Body
      <3>2. Body(Start)[k + 1] = Start[(k + 1) - 1] + secs[(k + 1) - 1].size
        BY <3>1 DEF Body
      <3> QED
        BY <1>5, <3>1, <3>2
    <2> QED
      BY <2>1, <2>2
  <1> DEFINE P == {k \in Nat : k <= n => Start[k] \in Nat}
  <1>7. 0 \in P
    BY <1>1, <1>6
  <1>8. ASSUME NEW k \in P PROVE k + 1 \in P
    <2>1. k \in Nat /\ (k + 1 <= n => k \in 0 .. n - 1 /\ Start[k] \in Nat)
      BY <1>1
    <2> QED
      BY <1>1, <1>6, <2>1
  <1>9. P = Nat
    <2>1. P \in SUBSET Nat
      OBVIOUS
    <2> HIDE DEF P
    <2> QED
      BY <1>7, <1>8, <2>1, Induction
  <1> QED
    BY <1>1, <1>6, <1>9 DEF n, Indices

(* and where read_sectab() takes them to be. *)
LEMMA OffsetRecurs ==
    ASSUME Written, object.sec64 => dino.sec64val \in Sizes64
    PROVE  /\ Offset[0] = headers
           /\ \A k \in Indices : Offset[k + 1] = (Offset[k] + Size64(SizeField(k))) % Mod64
           /\ \A k \in 0 .. section_count : Offset[k] \in Nat
  <1> DEFINE n == section_count
             size(k) == Size64(SizeField(k))
             step == [x \in Nat \X (0 .. n - 1) |-> (x[1] + size(x[2])) % Mod64]
             Body(f) == [k \in 0 .. n |->
                           IF k = 0 THEN FirstOffset ELSE (f[k - 1] + size(k - 1)) % Mod64]
  <1>1. n \in Nat /\ FirstOffset = headers /\ headers \in Nat
        /\ \A k \in 0 .. n - 1 : size(k) \in Nat
    <2>1. n \in Nat /\ headers \in Nat /\ FirstOffset = headers
      BY ObjectParts DEF FirstOffset, headers
    <2>2. \A k \in 0 .. n - 1 : size(k) \in Nat
      BY Size64Type DEF Indices
    <2> QED
      BY <2>1, <2>2
  <1> HIDE DEF size
  <1>2. step \in [Nat \X (0 .. n - 1) -> Nat]
    <2>1. \A x \in Nat, y \in Nat : (x + y) % Mod64 \in Nat
      BY Constants
    <2> QED
      BY <1>1, <2>1
  <1>3. PICK f : Accumulated(f, n, Nat, FirstOffset, step)
    <2> HIDE DEF step, n
    <2> QED
      BY <1>1, <1>2, Accumulates
  <1>4. f = Body(f)
    <2>1. ASSUME NEW k \in 0 .. n, k # 0
          PROVE  step[<<f[k - 1], k - 1>>] = (f[k - 1] + size(k - 1)) % Mod64
      <3>1. k - 1 \in 0 .. n - 1 /\ k - 1 \in 0 .. n
        BY <1>1, <2>1
      <3>2. <<f[k - 1], k - 1>> \in Nat \X (0 .. n - 1)
        BY <1>3, <3>1 DEF Accumulated
      <3> QED
        BY <3>2
    <2> HIDE DEF step, n
    <2>2. /\ f \in [0 .. n -> Nat]
          /\ \A k \in 0 .. n : f[k] = Body(f)[k]
      BY <1>3, <2>1 DEF Accumulated
    <2> QED
      BY <2>2
  <1>5. Offset = Body(Offset)
    <2> HIDE DEF n
    <2> QED
      BY <1>4 DEF Offset, n, size
  <1> HIDE DEF n
  <1>6. Offset[0] = headers /\ \A k \in 0 .. n - 1 : Offset[k + 1] = (Offset[k] + size(k)) % Mod64
    <2>1. Offset[0] = headers
      BY <1>1, <1>5
    <2>2. ASSUME NEW k \in 0 .. n - 1 PROVE Offset[k + 1] = (Offset[k] + size(k)) % Mod64
      <3>1. k + 1 \in 0 .. n /\ k + 1 # 0 /\ (k + 1) - 1 = k
        BY <1>1
      <3> HIDE DEF Body
      <3>2. Body(Offset)[k + 1] = (Offset[(k + 1) - 1] + size((k + 1) - 1)) % Mod64
        BY <3>1 DEF Body
      <3> QED
        BY <1>5, <3>1, <3>2
    <2> QED
      BY <2>1, <2>2
  <1> DEFINE P == {k \in Nat : k <= n => Offset[k] \in Nat}
  <1>7. 0 \in P
    BY <1>1, <1>6
  <1>8. ASSUME NEW k \in P PROVE k + 1 \in P
    <2>1. k \in Nat /\ (k + 1 <= n => k \in 0 .. n - 1 /\ Offset[k] \in Nat /\ size(k) \in Nat)
      BY <1>1
    <2> QED
      BY <1>1, <1>6, <2>1, Constants
  <1>9. P = Nat
    <2>1. P \in SUBSET Nat
      OBVIOUS
    <2> HIDE DEF P
    <2> QED
      BY <1>7, <1>8, <2>1, Induction
  <1> QED
    BY <1>1, <1>6, <1>9 DEF n, Indices, size

(* Up to the first section in the table of 64-bit sizes these are the      *)
(* same, and far from where an offset would wrap around.                   *)
LEMMA OffsetIsStart ==
    ASSUME Written, object.sec64 => dino.sec64val \in Sizes64
    PROVE  \A k \in Indices : wide \cap 0 .. k - 1 = {} => Offset[k] = Start[k]
  <1> DEFINE n == section_count
             P == {k \in Nat : k <= n /\ wide \cap 0 .. k - 1 = {} =>
                       Offset[k] = Start[k] /\ Start[k] <= headers + k * SizeMod}
  <1>1. n \in 0 .. 255 /\ n <= MaxSections /\ headers \in Nat /\ SizeMod \in Nat
        /\ Mod64 \in Nat \ {0} /\ MaxSections \in Nat /\ Indices = 0 .. n - 1
    <2>1. n \in 0 .. 255 /\ n <= MaxSections /\ headers \in Nat
      BY ObjectParts
    <2> QED
      BY <2>1, Constants DEF Indices
  <1>2. headers < Mod64 - MaxSections * SizeMod
    <2>1. /\ headers = DhdrSize + sectab_size + NamtabSize
          /\ sectab_size < SecMod /\ sectab_size \in Nat
      BY ObjectParts, Constants
    <2>2. NamtabSize < SizeMod /\ DhdrSize + SecMod + (MaxSections + 1) * SizeMod <= Mod64
      BY WidthAssumption
    <2>3. (MaxSections + 1) * SizeMod = MaxSections * SizeMod + SizeMod
          /\ MaxSections * SizeMod \in Nat
      BY <1>1
    <2> QED
      BY <1>1, <2>1, <2>2, <2>3, Constants
  <1>3. 0 \in P
    BY <1>1, StartRecurs, OffsetRecurs
  <1>4. ASSUME NEW k \in P PROVE k + 1 \in P
    <2> SUFFICES ASSUME k + 1 <= n, wide \cap 0 .. (k + 1) - 1 = {}
                 PROVE  Offset[k + 1] = Start[k + 1]
                        /\ Start[k + 1] <= headers + (k + 1) * SizeMod
      BY <1>4
    <2>1. k \in Nat /\ k \in Indices /\ k \in 0 .. n /\ wide \cap 0 .. k - 1 = {} /\ k \notin wide
      BY <1>1, <1>4
    <2>2. Offset[k] = Start[k] /\ Start[k] <= headers + k * SizeMod
      BY <1>1, <1>4, <2>1
    <2> HIDE DEF P
    <2>3. /\ Size64(SizeField(k)) = secs[k].size /\ secs[k].size \in Nat
          /\ secs[k].size < SizeMod /\ Start[k] \in Nat
      BY <2>1, Size64Type, SectionType, StartRecurs
    <2>4. k * SizeMod + SizeMod = (k + 1) * SizeMod /\ k * SizeMod \in Nat
      BY <1>1, <2>1
    <2>5. (k + 1) * SizeMod <= MaxSections * SizeMod
      BY <1>1, <2>1
    <2>6. (k + 1) * SizeMod \in Nat /\ MaxSections * SizeMod \in Nat
      BY <1>1, <2>1
    <2>7. Start[k] + secs[k].size \in 0 .. Mod64 - 1
          /\ Start[k] + secs[k].size <= headers + (k + 1) * SizeMod
      <3> DEFINE upto == k * SizeMod
                 beyond == (k + 1) * SizeMod
                 most == MaxSections * SizeMod
      <3>1. /\ upto \in Nat /\ beyond \in Nat /\ most \in Nat
            /\ upto + SizeMod = beyond /\ beyond <= most
        BY <2>4, <2>5, <2>6
      <3>2. headers < Mod64 - most /\ Start[k] <= headers + upto
        BY <1>2, <2>2
      <3> HIDE DEF upto, beyond, most
      <3>3. Start[k] + secs[k].size <= headers + beyond
        BY <1>1, <2>3, <3>1, <3>2
      <3>4. Start[k] + secs[k].size \in 0 .. Mod64 - 1
        BY <1>1, <2>3, <3>1, <3>2, <3>3
      <3> QED
        BY <3>3, <3>4 DEF beyond
    <2>8. (Start[k] + secs[k].size) % Mod64 = Start[k] + secs[k].size
      BY <1>1, <2>7
    <2> QED
      BY <2>1, <2>2, <2>3, <2>7, <2>8, StartRecurs, OffsetRecurs
  <1>5. P = Nat
    <2>1. P \in SUBSET Nat
      OBVIOUS
    <2> HIDE DEF P
    <2> QED
      BY <1>3, <1>4, <2>1, Induction
  <1> QED
    BY <1>1, <1>5

----------------------------------------------------------------------------
(* What is said of the object does not change with the rest.               *)
LEMMA SameObject ==
    ASSUME object' = object
    PROVE  /\ Written' = Written /\ section_count' = section_count /\ shdrsize' = shdrsize
           /\ sectab_size' = sectab_size /\ headers' = headers /\ sec64size' = sec64size
           /\ secs' = secs /\ wide' = wide /\ Start' = Start
           /\ Indices' = Indices /\ Rows' = Rows /\ Sizes64' = Sizes64 /\ Dinos' = Dinos
           /\ \A k : Idx64(k)' = Idx64(k)
  BY DEF Written, section_count, shdrsize, sectab_size, headers, sec64size, secs, wide, Start,
         Indices, Rows, Sizes64, Dinos, Idx64

(* All that was asked for, and that is something, was in the file.         *)
LEMMA ReadWhole ==
    ASSUME NEW size \in Nat, NEW off \in Nat, NEW len \in Nat,
           NEW r \in ReadRetry(len, size, off), ~(r < len)
    PROVE  r = len /\ (len > 0 => off + len <= size)
  BY DEF ReadRetry, Least, Left

(* No Dino *)
LEMMA NoDinoType == NoDino \in Dinos /\ NoDino.sec = << >>
  BY DEF NoDino, Dinos

(* Nothing is read at the start. *)
LEMMA InitInv == Init => Inv
  <1> SUFFICES ASSUME Init PROVE Inv
    OBVIOUS
  <1>1. Written
    BY DEF Init, Written
  <1>2. fsize \in Nat
    <2>1. section_count \in 0 .. section_count /\ shdrsize \in Nat /\ DhdrSize \in Nat
      BY <1>1, ObjectParts, Constants
    <2>2. Start[section_count] \in Nat
      BY <1>1, <2>1, StartRecurs
    <2> QED
      BY <2>1, <2>2 DEF Init
  <1>3. 0 \in 0 .. section_count
    BY <1>1, ObjectParts
  <1>4. dino \in Dinos
    BY NoDinoType DEF Init
  <1>5. Types
    <2>1. i \in 0 .. section_count
      BY <1>3 DEF Init
    <2>2. cnt \in Int /\ ret \in Int
      BY DEF Init
    <2>3. failed \in BOOLEAN /\ loaded \in BOOLEAN
      BY DEF Init
    <2> QED
      BY <1>1, <1>2, <1>4, <2>1, <2>2, <2>3 DEF Types
  <1>6. dino.sec = << >> /\ DOMAIN dino.sec = {}
    BY NoDinoType DEF Init
  <1> QED
    BY <1>5, <1>6
    DEF Init, Inv, HeadersRead, SectionsRead, CutOffIsNoticed, IndexesLoaded, LookedUp,
        Placing, Opened

(* A step of read_dino() leaves nothing of the indexes.                    *)
LEMMA StepInv ==
    ASSUME Inv, NEW from, NEW to, Step(from, to), to # "load",
           dino' \in Dinos, HeadersRead', SectionsRead', CutOffIsNoticed'
    PROVE  Inv'
  <1>1. /\ loaded' = FALSE /\ found' = NotFound /\ pc' = to
        /\ UNCHANGED <<object, fsize, i, cnt, ret, failed>>
    BY DEF Step
  <1>2. Types'
    BY <1>1, SameObject DEF Inv, Types
  <1>3. IndexesLoaded' /\ LookedUp'
    BY <1>1 DEF IndexesLoaded, LookedUp, NotFound
  <1> QED
    BY <1>2, <1>3 DEF Inv

(* When the reader gives up there is no Dino that something could be wrong *)
(* of.                                                                     *)
LEMMA GiveUpInv ==
    ASSUME Inv, NEW from, GiveUp(from) \/ (Step(from, "dhdr") /\ dino' = NoDino)
    PROVE  Inv'
  <1>1. PICK to \in {"closed", "dhdr"} : Step(from, to) /\ dino' = NoDino
    BY DEF GiveUp
  <1>2. pc' = to /\ object' = object
    BY <1>1 DEF Step
  <1>3. dino' \in Dinos /\ dino'.sec = << >> /\ DOMAIN dino'.sec = {}
    BY <1>1, NoDinoType
  <1>4. HeadersRead' /\ SectionsRead' /\ CutOffIsNoticed'
    BY <1>2, <1>3 DEF HeadersRead, SectionsRead, CutOffIsNoticed, Placing, Opened
  <1> QED
    BY <1>1, <1>3, <1>4, StepInv

(* Before the sections are placed, a step of the headers keeps the Dino.   *)
LEMMA ForwardInv ==
    ASSUME Inv, NEW from \in {"dhdr", "alloc", "shdrs", "sec64"},
           NEW to \in {"alloc", "shdrs", "sec64", "sections"}, Step(from, to),
           dino' \in Dinos, dino'.sec = dino.sec, HeadersRead'
    PROVE  Inv'
  <1>1. dino.sec = << >> /\ DOMAIN dino.sec = {} /\ pc' = to
    BY DEF Inv, SectionsRead, Placing, Step
  <1>2. SectionsRead' /\ CutOffIsNoticed'
    BY <1>1 DEF SectionsRead, CutOffIsNoticed, Placing
  <1> QED
    BY <1>2, StepInv

(* The two headers: the section headers are there, if there are any.       *)
LEMMA ReadDhdrInv == Inv /\ (ReadDhdr \/ AllocSectab \/ ReadShdrs) => Inv'
  <1>1. ASSUME Inv, ReadDhdr PROVE Inv'
    <2>1. CASE GiveUp("dhdr")
      BY <1>1, <2>1, GiveUpInv
    <2>2. CASE Step("dhdr", "alloc") /\ UNCHANGED dino
      <3>1. HeadersRead' /\ dino' \in Dinos
        BY <1>1, <2>2 DEF Inv, Types, HeadersRead, Placing, Opened, Step
      <3> QED
        BY <1>1, <2>2, <3>1, ForwardInv
    <2> QED
      BY <1>1, <2>1, <2>2 DEF ReadDhdr
  <1>2. ASSUME Inv, AllocSectab PROVE Inv'
    <2>1. CASE GiveUp("alloc")
      BY <1>2, <2>1, GiveUpInv
    <2>2. CASE section_count # 0 /\ Step("alloc", "shdrs") /\ UNCHANGED dino
      <3>1. HeadersRead' /\ dino' \in Dinos
        BY <1>2, <2>2, SameObject DEF Inv, Types, HeadersRead, Placing, Opened, Step
      <3> QED
        BY <1>2, <2>2, <3>1, ForwardInv
    <2> QED
      BY <1>2, <2>1, <2>2 DEF AllocSectab
  <1>3. ASSUME Inv, ReadShdrs PROVE Inv'
    <2> DEFINE to == IF object.sec64 THEN "sec64" ELSE "sections"
    <2>1. CASE GiveUp("shdrs")
      BY <1>3, <2>1, GiveUpInv
    <2>2. ASSUME NEW r \in ReadRetry(shdrsize, fsize, DhdrSize), ~(r < shdrsize),
                 Step("shdrs", to), UNCHANGED dino
          PROVE  Inv'
      <3>1. section_count # 0 /\ shdrsize \in Nat /\ shdrsize > 0 /\ fsize \in Nat
            /\ DhdrSize \in Nat
        BY <1>3, <2>2, ObjectParts, Constants DEF Inv, Types, HeadersRead, Step
      <3>2. fsize >= DhdrSize + shdrsize
        BY <2>2, <3>1, ReadWhole
      <3>3. HeadersRead' /\ dino' \in Dinos
        BY <1>3, <2>2, <3>1, <3>2, SameObject
        DEF Inv, Types, HeadersRead, Placing, Opened, Step
      <3> QED
        BY <1>3, <2>2, <3>3, ForwardInv
    <2> QED
      BY <1>3, <2>1, <2>2 DEF ReadShdrs, TooShort
  <1> QED
    BY <1>1, <1>2, <1>3

(* The table of 64-bit sizes has as many as were said to be there, written *)
(* or not.                                                                 *)
LEMMA ReadSec64Inv == Inv /\ ReadSec64 => Inv'
  <1> SUFFICES ASSUME Inv, ReadSec64 PROVE Inv'
    OBVIOUS
  <1> DEFINE n == sec64size \div 8
             true64(k) == secs[CHOOSE w \in wide : Idx64(w) = k].size
             written(k, r) == 8 * (k + 1) <= r /\ k < Cardinality(wide)
             vals(v, r) == [k \in DOMAIN v |-> IF written(k, r) THEN true64(k) ELSE v[k]]
  <1>1. CASE GiveUp("sec64")
    BY <1>1, GiveUpInv
  <1>2. ASSUME NEW r \in ReadRetry(n, fsize, DhdrSize + shdrsize), Step("sec64", "sections"),
               NEW v \in [0 .. Least(n, MaxSections) - 1 -> Garbage64],
               dino' = [dino EXCEPT !.sec64val = vals(v, r)]
        PROVE  Inv'
    <2>1. Written /\ dino \in Dinos /\ object' = object /\ pc = "sec64" /\ pc' = "sections"
      BY <1>2 DEF Inv, Types, Step
    <2>2. ASSUME NEW k \in 0 .. Least(n, MaxSections) - 1, written(k, r)
          PROVE  true64(k) \in Nat
      <3>1. k \in 0 .. Cardinality(wide) - 1
        BY <2>1, <2>2, Places
      <3>2. \E w \in wide : Idx64(w) = k
        BY <2>1, <3>1, Places
      <3>3. (CHOOSE w \in wide : Idx64(w) = k) \in Indices
        BY <2>1, <3>2, ObjectParts
      <3> QED
        BY <2>1, <3>3, SectionType
    <2>3. vals(v, r) \in Sizes64
      <3>1. \A k \in 0 .. Least(n, MaxSections) - 1 : v[k] \in Nat
        BY <1>2, Constants
      <3> HIDE DEF true64, written
      <3> QED
        BY <2>2, <3>1 DEF Sizes64
    <2> HIDE DEF vals, n
    <2>4. /\ dino' \in Dinos /\ dino'.sec = dino.sec /\ dino'.sec64val = vals(v, r)
          /\ dino'.namtab = dino.namtab
      BY <1>2, <2>1, <2>3 DEF Dinos
    <2>5. dino' \in Dinos'
      BY <2>1, <2>4, SameObject
    <2>6. HeadersRead'
      BY <1>2, <2>1, <2>3, <2>4, SameObject DEF Inv, HeadersRead, Placing, Opened, Step
    <2> QED
      BY <1>2, <2>4, <2>6, ForwardInv
  <1> QED
    BY <1>1, <1>2 DEF ReadSec64

(* The sections are where the object has them. *)
LEMMA PlaceSectionsInv == Inv /\ PlaceSections => Inv'
  <1> SUFFICES ASSUME Inv, PlaceSections PROVE Inv'
    OBVIOUS
  <1> DEFINE sec == [k \in 0 .. section_count - 1 |->
                       [size |-> Size64(SizeField(k)), count |-> secs[k].count,
                        offset |-> Offset[k], data |-> "none"]]
  <1>1. /\ Step("sections", "namtab") /\ pc = "sections" /\ pc' = "namtab" /\ object' = object
        /\ dino' = [dino EXCEPT !.count = section_count, !.sec = sec]
    BY DEF PlaceSections, Step
  <1>2. Written /\ dino \in Dinos /\ (object.sec64 => dino.sec64val \in Sizes64)
    BY <1>1 DEF Inv, Types, HeadersRead
  <1>3. ASSUME NEW k \in Indices
        PROVE  /\ k \in 0 .. section_count - 1 /\ k \in 0 .. section_count
               /\ secs[k].count \in Nat /\ Size64(SizeField(k)) \in Nat /\ Offset[k] \in Nat
    <2>1. k \in 0 .. section_count - 1 /\ k \in 0 .. section_count
      <3>1. section_count \in Nat
        BY <1>2, ObjectParts
      <3> QED
        BY <3>1 DEF Indices
    <2> QED
      BY <1>2, <2>1, SectionType, Size64Type, OffsetRecurs
  <1>4. /\ sec \in [Indices -> Rows]
        /\ \A k \in Indices : /\ sec[k].size = Size64(SizeField(k)) /\ sec[k].data = "none"
                              /\ sec[k].count = secs[k].count /\ sec[k].offset = Offset[k]
    <2>1. DOMAIN sec = Indices
      BY DEF Indices
    <2>2. ASSUME NEW k \in Indices
          PROVE  sec[k] = [size |-> Size64(SizeField(k)), count |-> secs[k].count,
                           offset |-> Offset[k], data |-> "none"]
      BY DEF Indices
    <2> HIDE DEF sec
    <2>3. ASSUME NEW k \in Indices PROVE sec[k] \in Rows
      <3> DEFINE size == Size64(SizeField(k))
      <3>1. size \in Nat /\ secs[k].count \in Nat /\ Offset[k] \in Nat
            /\ sec[k] = [size |-> size, count |-> secs[k].count,
                         offset |-> Offset[k], data |-> "none"]
        BY <1>3, <2>2
      <3> HIDE DEF size
      <3> QED
        BY <3>1 DEF Rows
    <2>4. sec \in [Indices -> Rows]
      <3>1. sec = [k \in Indices |-> sec[k]]
        <4>1. sec = [k \in DOMAIN sec |-> sec[k]]
          BY DEF sec
        <4> QED
          BY <2>1, <4>1
      <3> QED
        BY <2>3, <3>1
    <2> QED
      BY <2>2, <2>4
  <1> HIDE DEF sec
  <1>5. /\ dino' \in Dinos /\ dino'.sec = sec /\ dino'.count = section_count
        /\ dino'.namtab = dino.namtab /\ dino'.sec64val = dino.sec64val
    BY <1>1, <1>2, <1>4 DEF Dinos
  <1>6. InPlace(sec)
    BY <1>2, <1>4, Size64Type, OffsetIsStart DEF InPlace
  <1>7. InPlace(dino.sec)'
    BY <1>1, <1>5, <1>6, SameObject DEF InPlace, SIZE64_INVALID
  <1>8. SectionsRead'
    BY <1>1, <1>4, <1>5, <1>7, SameObject DEF SectionsRead, Placing
  <1>9. HeadersRead'
    BY <1>1, SameObject DEF Inv, HeadersRead, Placing, Opened, Step
  <1>10. CutOffIsNoticed'
    BY <1>4, <1>5 DEF CutOffIsNoticed
  <1> QED
    BY <1>1, <1>5, <1>8, <1>9, <1>10, SameObject, StepInv

(* The name table is there: an object with sections has names.             *)
LEMMA ReadNamtabInv == Inv /\ ReadNamtab => Inv'
  <1> SUFFICES ASSUME Inv, ReadNamtab PROVE Inv'
    OBVIOUS
  <1>1. CASE GiveUp("namtab")
    BY <1>1, GiveUpInv
  <1>2. ASSUME NEW r \in ReadRetry(NamtabSize, fsize, DhdrSize + sectab_size), ~(r < NamtabSize),
               Step("namtab", "open"), dino' = [dino EXCEPT !.namtab = r]
        PROVE  Inv'
    <2>1. /\ Written /\ fsize \in Nat /\ dino \in Dinos /\ object' = object /\ fsize' = fsize
          /\ pc = "namtab" /\ pc' = "open" /\ section_count # 0 /\ fsize >= DhdrSize + shdrsize
      BY <1>2 DEF Inv, Types, HeadersRead, Placing, Step
    <2>2. section_count \in Nat /\ sectab_size \in Nat /\ DhdrSize \in Nat /\ NamtabSize \in Nat
          /\ headers = DhdrSize + sectab_size + NamtabSize
      BY <2>1, ObjectParts, Constants
    <2>3. NamtabSize > 0
      <3>1. 0 \in Indices
        BY <2>1, <2>2 DEF Indices
      <3>2. secs[0].name \in 0 .. NamtabSize - 1
        BY <2>1, <3>1, SectionType, Constants
      <3> QED
        BY <2>2, <3>2
    <2>4. r = NamtabSize /\ fsize >= headers
      <3>1. DhdrSize + sectab_size \in Nat
        BY <2>2
      <3>2. r = NamtabSize /\ DhdrSize + sectab_size + NamtabSize <= fsize
        BY <1>2, <2>1, <2>2, <2>3, <3>1, ReadWhole
      <3> QED
        BY <2>1, <2>2, <3>2
    <2>5. /\ dino' \in Dinos /\ dino'.sec = dino.sec /\ dino'.count = dino.count
          /\ dino'.namtab = NamtabSize
      BY <1>2, <2>1, <2>4 DEF Dinos
    <2>6. HeadersRead'
      BY <2>1, <2>4, <2>5, SameObject DEF HeadersRead, Placing, Opened
    <2>7. SectionsRead'
      BY <2>1, <2>5, SameObject DEF Inv, SectionsRead, Placing, InPlace, SIZE64_INVALID
    <2>8. CutOffIsNoticed'
      BY <1>2, <2>1, <2>5, SameObject DEF Inv, CutOffIsNoticed, Step, IndexSize
    <2> QED
      BY <1>2, <2>1, <2>5, <2>6, <2>7, <2>8, SameObject, StepInv
  <1> QED
    BY <1>1, <1>2 DEF ReadNamtab, TooShort

----------------------------------------------------------------------------
(* An index that was loaded in some way: of the fanout table, the keys and *)
(* the values all was read, or -1 was returned for one of them.            *)
IsLoad(l, s, r, ks, vs) ==
    /\ r \in Accepted(FanoutSize, s.offset)
    /\ ks \in Accepted(s.count * KeySize, s.offset + r)
    /\ vs \in Accepted(s.count * ValSize, s.offset + r + s.count * KeySize)
    /\ l = Loaded(IF <<r, ks, vs>> = <<FanoutSize, s.count * KeySize, s.count * ValSize>>
                  THEN "full" ELSE "half", r, -1 \in {r, ks, vs})

(* An index is not loaded, or as far as its parts could be read. *)
LEMMA LoadCases ==
    ASSUME NEW s, NEW l \in LoadIndexData(s)
    PROVE  \/ l = Loaded(s.data, -EIO, FALSE)
           \/ \E r, ks, vs : IsLoad(l, s, r, ks, vs)
  <1> DEFINE keysize == s.count * KeySize
             valsize == s.count * ValSize
             load(r, k, v) ==
                Loaded(IF <<r, k, v>> = <<FanoutSize, keysize, valsize>> THEN "full" ELSE "half",
                       r, -1 \in {r, k, v})
             withkeys(r, k) == {load(r, k, v) : v \in Accepted(valsize, s.offset + r + keysize)}
             withfanout(r) == UNION {withkeys(r, k) : k \in Accepted(keysize, s.offset + r)}
  <1>1. LoadIndexData(s) = {Loaded(s.data, -EIO, FALSE)}
                           \cup UNION {withfanout(r) : r \in Accepted(FanoutSize, s.offset)}
    BY DEF LoadIndexData
  <1>2. ASSUME l # Loaded(s.data, -EIO, FALSE)
        PROVE  \E r, ks, vs : IsLoad(l, s, r, ks, vs)
    <2> HIDE DEF withkeys, withfanout, load
    <2>1. PICK r \in Accepted(FanoutSize, s.offset) : l \in withfanout(r)
      BY <1>1, <1>2
    <2>2. PICK k \in Accepted(keysize, s.offset + r) : l \in withkeys(r, k)
      BY <2>1 DEF withfanout
    <2>3. PICK v \in Accepted(valsize, s.offset + r + keysize) : l = load(r, k, v)
      BY <2>2 DEF withkeys
    <2>4. IsLoad(l, s, r, k, v)
      BY <2>1, <2>2, <2>3 DEF IsLoad, load
    <2> QED
      BY <2>4
  <1> QED
    BY <1>2

(* All of it is in the file, or a read has failed. *)
LEMMA LoadResult ==
    ASSUME fsize \in Nat, NEW s \in Rows, NEW l \in LoadIndexData(s)
    PROVE  /\ l.data \in {"none", "half", "full"} /\ l.failed \in BOOLEAN /\ l.ret \in Int
           /\ l.data = "none" => s.data = "none" /\ l.ret < 0
           /\ l.data = "half" => s.data = "half" \/ l.failed
           /\ l.data = "full" => s.data = "full" \/ s.offset + IndexSize(s.count) <= fsize
  <1>1. EIO \in Nat \ {0} /\ s.data \in {"none", "half", "full"} /\ s.offset \in Nat
        /\ s.count \in Nat
        /\ FanoutSize \in Nat \ {0} /\ KeySize \in Nat \ {0} /\ ValSize \in Nat \ {0}
    BY Constants DEF Rows
  <1>2. CASE l = Loaded(s.data, -EIO, FALSE)
    BY <1>1, <1>2 DEF Loaded
  <1>3. ASSUME NEW r, NEW ks, NEW vs, IsLoad(l, s, r, ks, vs)
        PROVE  /\ l.data \in {"half", "full"} /\ l.failed \in BOOLEAN /\ l.ret \in Int
               /\ l.data = "half" => l.failed
               /\ l.data = "full" => s.offset + IndexSize(s.count) <= fsize
    <2> DEFINE keysize == s.count * KeySize
               valsize == s.count * ValSize
    <2>1. keysize \in Nat /\ valsize \in Nat /\ (s.count # 0 => keysize > 0 /\ valsize > 0)
          /\ (s.count = 0 => keysize = 0 /\ valsize = 0)
      BY <1>1
    <2>2. IndexSize(s.count) = FanoutSize + keysize + valsize
      BY <1>1 DEF IndexSize
    <2> HIDE DEF keysize, valsize
    <2>3. /\ r \in {FanoutSize, -1} /\ r \in ReadRetry(FanoutSize, fsize, s.offset)
          /\ ks \in {keysize, -1}
          /\ vs \in {valsize, -1} /\ vs \in ReadRetry(valsize, fsize, s.offset + r + keysize)
          /\ l.ret = r /\ l.failed = (-1 \in {r, ks, vs})
          /\ l.data = IF <<r, ks, vs>> = <<FanoutSize, keysize, valsize>> THEN "full" ELSE "half"
      BY <1>3 DEF IsLoad, Loaded, Accepted, keysize, valsize
    <2>4. l.data = "half" => l.failed
      BY <2>3
    <2>5. ASSUME l.data = "full" PROVE s.offset + FanoutSize + keysize + valsize <= fsize
      <3>1. r = FanoutSize /\ vs = valsize
        BY <2>3, <2>5
      <3>2. s.offset + FanoutSize <= fsize
        BY <1>1, <2>3, <3>1, ReadWhole
      <3>3. CASE s.count = 0
        BY <1>1, <2>1, <3>2, <3>3
      <3>4. CASE s.count # 0
        <4>1. s.offset + FanoutSize + keysize \in Nat
          BY <1>1, <2>1
        <4>2. valsize \in ReadRetry(valsize, fsize, s.offset + FanoutSize + keysize)
          BY <2>3, <3>1
        <4> QED
          BY <2>1, <3>4, <4>1, <4>2, ReadWhole
      <3> QED
        BY <3>3, <3>4
    <2>6. s.offset + (FanoutSize + keysize + valsize) = s.offset + FanoutSize + keysize + valsize
      BY <1>1, <2>1
    <2> QED
      BY <1>1, <2>2, <2>3, <2>4, <2>5, <2>6
  <1> QED
    BY <1>2, <1>3, LoadCases

(* load_indexes(): loading one more section leaves the others as they are, *)
(* and the section where it is.                                            *)
LEMMA LoadNextInv == Inv /\ LoadNext => Inv'
  <1> SUFFICES ASSUME Inv, LoadNext PROVE Inv'
    OBVIOUS
  <1>1. /\ pc = "load" /\ pc' \in {"load", "open"} /\ i < section_count /\ found = NotFound
        /\ UNCHANGED <<object, fsize, loaded, found>>
    BY DEF Inv, LookedUp, LoadNext
  <1>2. /\ Written /\ fsize \in Nat /\ dino \in Dinos /\ i \in 0 .. section_count
        /\ cnt \in Int /\ ret \in Int /\ failed \in BOOLEAN /\ loaded \in BOOLEAN
        /\ section_count \in 0 .. 255 /\ i \in Indices
    <2>1. Types /\ Written
      BY DEF Inv, Types
    <2>2. section_count \in 0 .. 255
      BY <2>1, ObjectParts
    <2> QED
      BY <1>1, <2>1, <2>2 DEF Types, Indices
  <1>3. dino.count = section_count /\ dino.sec \in [Indices -> Rows] /\ InPlace(dino.sec)
    BY <1>1 DEF Inv, SectionsRead, Placing
  <1>4. AllLoaded(i) /\ (loaded => AllLoaded(section_count))
    BY <1>1 DEF Inv, IndexesLoaded
  <1>5. /\ Written' /\ section_count' = section_count /\ secs' = secs /\ headers' = headers
        /\ shdrsize' = shdrsize /\ Indices' = Indices /\ Dinos' = Dinos /\ Rows' = Rows
    BY <1>1, <1>2, SameObject
  <1>6. CASE secs[i].type = "index"
    <2> DEFINE s == dino.sec[i]
    <2>1. PICK l \in LoadIndexData(s) :
            /\ dino' = [dino EXCEPT !.sec[i].data = l.data]
            /\ failed' = (failed \/ l.failed)
            /\ \/ Stops(l.ret) /\ pc' = "open" /\ ret' = -EIO /\ UNCHANGED <<i, cnt>>
               \/ ~Stops(l.ret) /\ i' = i + 1 /\ cnt' = cnt + 1 /\ UNCHANGED <<pc, ret>>
      BY <1>6 DEF LoadNext
    <2>2. s \in Rows /\ s.data \in {"none", "half", "full"} /\ s.count = secs[i].count
      BY <1>2, <1>3 DEF Rows, InPlace
    <2>3. /\ l.data \in {"none", "half", "full"} /\ l.failed \in BOOLEAN /\ l.ret \in Int
          /\ l.data = "none" => s.data = "none" /\ l.ret < 0
          /\ l.data = "half" => s.data = "half" \/ l.failed
          /\ l.data = "full" => s.data = "full" \/ s.offset + IndexSize(s.count) <= fsize
      BY <1>2, <2>2, LoadResult
    <2> DEFINE row == [s EXCEPT !.data = l.data]
    <2>4. row \in Rows /\ row.size = s.size /\ row.count = s.count /\ row.offset = s.offset
          /\ row.data = l.data
      BY <2>2, <2>3 DEF Rows
    <2>5. /\ dino' \in Dinos /\ dino'.count = dino.count /\ dino'.namtab = dino.namtab
          /\ dino'.sec = [dino.sec EXCEPT ![i] = row]
      <3>1. dino' = [dino EXCEPT !.sec = [dino.sec EXCEPT ![i] = row]]
        BY <1>2, <2>1 DEF Dinos
      <3> HIDE DEF row, s
      <3>2. [dino.sec EXCEPT ![i] = row] \in [Indices -> Rows]
        BY <1>3, <2>4
      <3> QED
        BY <1>2, <3>1, <3>2 DEF Dinos
    <2>6. /\ dino'.sec \in [Indices -> Rows] /\ dino'.sec[i] = row
          /\ \A k \in Indices : k # i => dino'.sec[k] = dino.sec[k]
      <3> HIDE DEF row, s
      <3> QED
        BY <1>2, <1>3, <2>4, <2>5
    <2>7. \A k \in Indices : /\ dino'.sec[k].size = dino.sec[k].size
                             /\ dino'.sec[k].count = dino.sec[k].count
                             /\ dino'.sec[k].offset = dino.sec[k].offset
                             /\ dino.sec[k].data # "none" => dino'.sec[k].data # "none"
      BY <2>3, <2>4, <2>6
    <2>8. i' \in 0 .. section_count /\ cnt' \in Int /\ ret' \in Int /\ failed' \in BOOLEAN
      BY <1>1, <1>2, <2>1, <2>3, Constants
    <2>9. Types'
      BY <1>1, <1>2, <1>5, <2>5, <2>8 DEF Types
    <2>10. HeadersRead'
      BY <1>1, <1>5, <2>5 DEF Inv, HeadersRead, Placing, Opened
    <2>11. SectionsRead'
      <3>1. InPlace(dino.sec)'
        BY <1>1, <1>3, <2>7, SameObject DEF InPlace, SIZE64_INVALID
      <3> QED
        BY <1>1, <1>3, <1>5, <2>5, <2>6, <3>1 DEF SectionsRead, Placing
    <2>12. CutOffIsNoticed'
      <3>1. ASSUME NEW k \in Indices, k # i
            PROVE  /\ dino'.sec[k].data = "half" => failed'
                   /\ dino'.sec[k].data = "full" =>
                        /\ secs[k].type = "index"
                        /\ dino'.sec[k].offset + IndexSize(secs[k].count) <= fsize
        BY <1>2, <1>3, <2>1, <2>3, <2>6, <3>1 DEF Inv, CutOffIsNoticed
      <3>2. /\ dino'.sec[i].data = "half" => failed'
            /\ dino'.sec[i].data = "full" =>
                 /\ secs[i].type = "index"
                 /\ dino'.sec[i].offset + IndexSize(secs[i].count) <= fsize
        <4>1. /\ s.data = "half" => failed
              /\ s.data = "full" => s.offset + IndexSize(secs[i].count) <= fsize
          BY <1>2, <1>3 DEF Inv, CutOffIsNoticed
        <4>2. row.data = "full" => row.offset + IndexSize(secs[i].count) <= fsize
          BY <2>2, <2>3, <2>4, <4>1
        <4>3. row.data = "half" => failed'
          BY <1>2, <2>1, <2>3, <2>4, <4>1
        <4> QED
          BY <1>6, <2>6, <4>2, <4>3
      <3>3. DOMAIN dino'.sec = Indices
        BY <2>6
      <3>4. ASSUME NEW k \in Indices
            PROVE  /\ dino'.sec[k].data = "half" => failed'
                   /\ dino'.sec[k].data = "full" =>
                        /\ secs[k].type = "index"
                        /\ dino'.sec[k].offset + IndexSize(secs[k].count) <= fsize
        BY <3>1, <3>2
      <3> QED
        BY <1>1, <1>5, <3>3, <3>4 DEF CutOffIsNoticed, IndexSize
    <2>13. IndexesLoaded'
      <3>1. \A k \in 0 .. i - 1 : k \in Indices
        BY <1>2 DEF Indices
      <3>2. loaded => \A k \in Indices : secs[k].type = "index" => dino'.sec[k].data # "none"
        BY <1>4, <2>7 DEF AllLoaded, Indices
      <3>3. \A k \in 0 .. i - 1 : secs[k].type = "index" => dino'.sec[k].data # "none"
        BY <1>4, <2>7, <3>1 DEF AllLoaded
      <3>4. ~Stops(l.ret) => dino'.sec[i].data # "none"
        BY <2>3, <2>4, <2>6 DEF Stops
      <3>5. pc' = "load" =>
              \A k \in 0 .. i' - 1 : secs[k].type = "index" => dino'.sec[k].data # "none"
        <4>1. pc' = "load" => i' = i + 1 /\ ~Stops(l.ret)
          BY <2>1
        <4>2. \A k \in 0 .. (i + 1) - 1 : k \in 0 .. i - 1 \/ k = i
          BY <1>2
        <4> QED
          BY <3>3, <3>4, <4>1, <4>2
      <3> QED
        BY <1>1, <1>5, <3>2, <3>5 DEF IndexesLoaded, AllLoaded, Opened, Indices
    <2>14. LookedUp'
      BY <1>1 DEF LookedUp, NotFound
    <2> QED
      BY <2>9, <2>10, <2>11, <2>12, <2>13, <2>14 DEF Inv
  <1>7. CASE secs[i].type # "index"
    <2>1. i' = i + 1 /\ UNCHANGED <<dino, failed, pc, ret, cnt>>
      BY <1>7 DEF LoadNext
    <2>2. i' \in 0 .. section_count
      BY <1>1, <1>2, <2>1
    <2>3. Types'
      BY <1>1, <1>2, <1>5, <2>1, <2>2 DEF Types
    <2>4. HeadersRead'
      BY <1>1, <1>5, <2>1 DEF Inv, HeadersRead, Placing, Opened
    <2>5. SectionsRead'
      <3>1. InPlace(dino.sec)'
        BY <1>1, <1>3, <2>1, SameObject DEF InPlace, SIZE64_INVALID
      <3> QED
        BY <1>1, <1>3, <1>5, <2>1, <3>1 DEF SectionsRead, Placing
    <2>6. CutOffIsNoticed'
      BY <1>1, <1>5, <2>1 DEF Inv, CutOffIsNoticed, IndexSize
    <2>7. IndexesLoaded'
      <3>1. \A k \in 0 .. (i + 1) - 1 : k \in 0 .. i - 1 \/ k = i
        BY <1>2
      <3>2. AllLoaded(i + 1)
        BY <1>4, <1>7, <3>1 DEF AllLoaded
      <3> QED
        BY <1>1, <1>4, <1>5, <2>1, <3>2 DEF IndexesLoaded, AllLoaded, Opened
    <2>8. LookedUp'
      BY <1>1 DEF LookedUp, NotFound
    <2> QED
      BY <2>3, <2>4, <2>5, <2>6, <2>7, <2>8 DEF Inv
  <1> QED
    BY <1>6, <1>7

(* What leaves the object, the file and the Dino alone, and the Dino open, *)
(* leaves what was read alone.                                             *)
LEMMA KeepsRead ==
    ASSUME Inv, Opened, Opened', UNCHANGED <<object, fsize, dino, failed>>
    PROVE  HeadersRead' /\ SectionsRead' /\ CutOffIsNoticed' /\ Written' /\ dino' \in Dinos'
  <1>1. /\ Written' /\ section_count' = section_count /\ secs' = secs /\ headers' = headers
        /\ shdrsize' = shdrsize /\ Indices' = Indices /\ Dinos' = Dinos /\ Rows' = Rows
    BY SameObject DEF Inv, Types
  <1>2. HeadersRead'
    BY <1>1 DEF Inv, HeadersRead, Placing, Opened
  <1>3. SectionsRead'
    <2>1. InPlace(dino.sec) /\ Placing
      BY DEF Inv, SectionsRead, Placing, Opened
    <2>2. InPlace(dino.sec)'
      BY <2>1, SameObject DEF InPlace, SIZE64_INVALID
    <2> QED
      BY <1>1, <2>1, <2>2 DEF Inv, SectionsRead, Placing, Opened
  <1>4. CutOffIsNoticed'
    BY <1>1 DEF Inv, CutOffIsNoticed, IndexSize
  <1> QED
    BY <1>1, <1>2, <1>3, <1>4 DEF Inv, Types

(* Loading the indexes keeps the invariant. *)
LEMMA LoadInv == Inv /\ (LoadIndexes \/ LoadEnd) => Inv'
  <1>1. ASSUME Inv, LoadIndexes PROVE Inv'
    <2>1. /\ pc = "open" /\ pc' = "load" /\ i' = 0 /\ cnt' \in GarbageInt /\ ret' = 0
          /\ found' = NotFound /\ UNCHANGED <<object, fsize, dino, failed, loaded>>
      BY <1>1 DEF LoadIndexes
    <2>2. Written /\ section_count \in Nat /\ section_count' = section_count /\ secs' = secs
      BY <1>1, <2>1, SameObject, ObjectParts DEF Inv, Types
    <2>3. HeadersRead' /\ SectionsRead' /\ CutOffIsNoticed' /\ Written' /\ dino' \in Dinos'
      BY <1>1, <2>1, KeepsRead DEF Opened
    <2>4. Types'
      BY <1>1, <2>1, <2>2, <2>3, Constants DEF Inv, Types
    <2>5. IndexesLoaded' /\ LookedUp'
      BY <1>1, <2>1, <2>2 DEF Inv, IndexesLoaded, AllLoaded, LookedUp, Opened, NotFound
    <2> QED
      BY <2>3, <2>4, <2>5 DEF Inv
  <1>2. ASSUME Inv, LoadEnd PROVE Inv'
    <2>1. /\ pc = "load" /\ pc' = "open" /\ i = section_count /\ ret' = cnt /\ loaded' = TRUE
          /\ found = NotFound
          /\ UNCHANGED <<object, fsize, dino, i, cnt, failed, found>>
      BY <1>2 DEF Inv, LookedUp, LoadEnd
    <2>2. Written /\ section_count \in Nat /\ section_count' = section_count /\ secs' = secs
      BY <1>2, <2>1, SameObject, ObjectParts DEF Inv, Types
    <2>3. HeadersRead' /\ SectionsRead' /\ CutOffIsNoticed' /\ Written' /\ dino' \in Dinos'
      BY <1>2, <2>1, KeepsRead DEF Opened
    <2>4. Types'
      BY <1>2, <2>1, <2>2, <2>3 DEF Inv, Types
    <2>5. IndexesLoaded' /\ LookedUp'
      BY <1>2, <2>1, <2>2 DEF Inv, IndexesLoaded, AllLoaded, LookedUp, Opened, NotFound
    <2> QED
      BY <2>3, <2>4, <2>5 DEF Inv
  <1> QED
    BY <1>1, <1>2

(* A lookup keeps the invariant. *)
LEMMA GetIndexInv == Inv /\ GetIndexByname => Inv'
  <1> SUFFICES ASSUME Inv, GetIndexByname PROVE Inv'
    OBVIOUS
  <1>1. PICK name \in Names : found' = [name |-> name, idx |-> GetIndex(GetSecidx(name) % 256)]
    BY DEF GetIndexByname
  <1>2. pc = "open" /\ UNCHANGED <<object, fsize, dino, pc, i, cnt, ret, failed, loaded>>
    BY DEF GetIndexByname
  <1>3. /\ HeadersRead' /\ SectionsRead' /\ CutOffIsNoticed' /\ Written' /\ dino' \in Dinos'
        /\ section_count' = section_count /\ secs' = secs
    BY <1>2, KeepsRead, SameObject DEF Opened
  <1>4. Types' /\ IndexesLoaded'
    BY <1>2, <1>3 DEF Inv, Types, IndexesLoaded, AllLoaded, Opened
  <1>5. LookedUp'
    <2>1. (GetIndex(GetSecidx(name) % 256))' = GetIndex(GetSecidx(name) % 256)
      BY <1>2, <1>3 DEF GetIndex, GetSecidx
    <2>2. found'.name = name /\ found'.idx = GetIndex(GetSecidx(name) % 256)
      BY <1>1
    <2> QED
      BY <1>2, <2>1, <2>2 DEF LookedUp
  <1> QED
    BY <1>3, <1>4, <1>5 DEF Inv

(* A step that changes nothing keeps the invariant. *)
LEMMA StutterInv == Inv /\ UNCHANGED vars => Inv'
  <1> SUFFICES ASSUME Inv, UNCHANGED vars PROVE Inv'
    OBVIOUS
  <1>1. UNCHANGED <<object, fsize, dino, pc, i, cnt, ret, failed, loaded, found>>
    BY DEF vars
  <1>2. /\ Written' /\ section_count' = section_count /\ secs' = secs /\ headers' = headers
        /\ shdrsize' = shdrsize /\ Indices' = Indices /\ Dinos' = Dinos /\ Rows' = Rows
        /\ Sizes64' = Sizes64
    BY <1>1, SameObject DEF Inv, Types
  <1>3. Types' /\ HeadersRead' /\ CutOffIsNoticed' /\ IndexesLoaded'
    BY <1>1, <1>2 DEF Inv, Types, HeadersRead, CutOffIsNoticed, IndexesLoaded, AllLoaded,
                      Placing, Opened, IndexSize
  <1>4. SectionsRead'
    BY <1>1, <1>2, SameObject DEF Inv, SectionsRead, Placing, InPlace, SIZE64_INVALID
  <1>5. LookedUp'
    <2>1. found = NotFound => LookedUp'
      BY <1>1 DEF LookedUp, NotFound
    <2>2. ASSUME pc = "open", found.name \in Names,
                 found.idx = GetIndex(GetSecidx(found.name) % 256)
          PROVE  LookedUp'
      <3>1. pc' = "open" /\ found' = found /\ dino' = dino
        BY <1>1, <2>2
      <3>2. (GetIndex(GetSecidx(found.name) % 256))' = GetIndex(GetSecidx(found.name) % 256)
        BY <1>2, <3>1 DEF GetIndex, GetSecidx
      <3> QED
        BY <2>2, <3>1, <3>2 DEF LookedUp
    <2> QED
      BY <2>1, <2>2 DEF Inv, LookedUp
  <1> QED
    BY <1>3, <1>4, <1>5 DEF Inv

(* All steps keep the invariant. *)
LEMMA NextInv == Inv /\ [Next]_vars => Inv'
  <1> SUFFICES ASSUME Inv, [Next]_vars PROVE Inv'
    OBVIOUS
  <1>1. CASE ReadDino
    BY <1>1, GiveUpInv DEF ReadDino
  <1>2. CASE ReadDhdr \/ AllocSectab \/ ReadShdrs
    BY <1>2, ReadDhdrInv
  <1>3. CASE ReadSec64
    BY <1>3, ReadSec64Inv
  <1>4. CASE PlaceSections
    BY <1>4, PlaceSectionsInv
  <1>5. CASE ReadNamtab
    BY <1>5, ReadNamtabInv
  <1>6. CASE LoadIndexes \/ LoadEnd
    BY <1>6, LoadInv
  <1>7. CASE LoadNext
    BY <1>7, LoadNextInv
  <1>8. CASE GetIndexByname
    BY <1>8, GetIndexInv
  <1>9. CASE UNCHANGED vars
    BY <1>9, StutterInv
  <1> QED
    BY <1>1, <1>2, <1>3, <1>4, <1>5, <1>6, <1>7, <1>8, <1>9 DEF Next

(* What is true between any two steps of reading an object *)
THEOREM Invariant == Spec => []Inv
  BY InitInv, NextInv, PTL DEF Spec

----------------------------------------------------------------------------
(* Of numbers there is a least one. *)
LEMMA LeastNumber ==
    ASSUME NEW S \in SUBSET Nat, S # {}
    PROVE  \E k \in S : \A l \in S : k <= l
  <1> DEFINE P == {m \in Nat : (\E k \in S : k < m) => \E k \in S : \A l \in S : k <= l}
  <1>1. 0 \in P
    OBVIOUS
  <1>2. ASSUME NEW m \in P PROVE m + 1 \in P
    <2>1. CASE \E k \in S : k < m
      BY <2>1
    <2>2. CASE ~ \E k \in S : k < m
      <3>1. \A k \in S : k < m + 1 => k = m
        BY <2>2
      <3>2. \A l \in S : m <= l
        BY <2>2
      <3> QED
        BY <3>1, <3>2
    <2> QED
      BY <2>1, <2>2
  <1>3. P = Nat
    <2>1. P \in SUBSET Nat
      OBVIOUS
    <2> HIDE DEF P
    <2> QED
      BY <1>1, <1>2, <2>1, Induction
  <1>4. PICK k \in S : TRUE
    OBVIOUS
  <1>5. k + 1 \in P /\ k < k + 1
    BY <1>3
  <1> QED
    BY <1>4, <1>5

(* The section that a name is looked up to is the first that has it. *)
IsFirst(k, name) ==
    secs[k].name = name /\ \A l \in 0 .. k - 1 : secs[l].name # name

(* A lookup finds the first section of that name, or there is none. *)
LEMMA FirstOfName ==
    ASSUME Written, dino.count = section_count, NEW name
    PROVE  \/ /\ GetSecidx(name) = -1
              /\ \A k \in Indices : secs[k].name # name
           \/ /\ GetSecidx(name) \in Indices
              /\ \A k \in Indices : IsFirst(k, name) <=> k = GetSecidx(name)
  <1> DEFINE named == {k \in 0 .. dino.count - 1 : secs[k].name = name}
             first(k) == \A l \in named : k <= l
  <1>1. section_count \in Nat /\ Indices = 0 .. dino.count - 1
    <2>1. section_count \in 0 .. 255
      BY ObjectParts
    <2> QED
      BY <2>1 DEF Indices
  <1>2. CASE named = {}
    BY <1>1, <1>2 DEF GetSecidx
  <1>3. CASE named # {}
    <2>1. GetSecidx(name) = CHOOSE k \in named : first(k)
      BY <1>3 DEF GetSecidx
    <2>2. \E k \in named : first(k)
      <3>1. named \in SUBSET Nat
        BY <1>1
      <3> HIDE DEF named
      <3> QED
        BY <1>3, <3>1, LeastNumber
    <2>3. GetSecidx(name) \in named /\ first(GetSecidx(name))
      <3> HIDE DEF named, first
      <3> QED
        BY <2>1, <2>2
    <2> DEFINE s == GetSecidx(name)
    <2>4. s \in Indices /\ secs[s].name = name /\ \A l \in Indices : secs[l].name = name => s <= l
      BY <1>1, <2>3
    <2> HIDE DEF s, named, first
    <2>5. ASSUME NEW k \in Indices PROVE IsFirst(k, name) <=> k = s
      <3>1. ASSUME IsFirst(k, name) PROVE k = s
        <4>1. s <= k /\ (s < k => s \in 0 .. k - 1)
          BY <1>1, <2>4, <3>1 DEF IsFirst
        <4>2. ~(s < k)
          BY <2>4, <3>1, <4>1 DEF IsFirst
        <4> QED
          BY <1>1, <2>4, <4>1, <4>2
      <3>2. IsFirst(s, name)
        BY <1>1, <2>4 DEF IsFirst
      <3> QED
        BY <3>1, <3>2
    <2> QED
      BY <2>4, <2>5 DEF s
  <1> QED
    BY <1>2, <1>3

(* No section has the index that -1 becomes. *)
LEMMA IndexByte ==
    ASSUME Written, dino.count = section_count, NEW s \in Indices \cup {-1}
    PROVE  GetIndex(s % 256) =
             IF s # -1 /\ secs[s].type = "index" /\ dino.sec[s].data # "none" THEN s ELSE -1
  <1>1. section_count \in 0 .. 255
    BY ObjectParts
  <1>2. CASE s = -1
    <2>1. s \in Int /\ s + 1 = 0
      BY <1>2
    <2>2. /\ \A n \in Int : n % 256 \in 0 .. 255
          /\ \A n \in Int : n = 256 * (n \div 256) + (n % 256)
      OBVIOUS
    <2>3. s % 256 = 255
      BY <2>1, <2>2
    <2> QED
      BY <1>1, <1>2, <2>3 DEF GetIndex
  <1>3. CASE s \in Indices
    <2>1. s \in 0 .. 255 /\ s < section_count
      BY <1>1, <1>3 DEF Indices
    <2>2. s % 256 = s
      BY <2>1
    <2> QED
      BY <2>1, <2>2 DEF GetIndex
  <1> QED
    BY <1>2, <1>3

(* The answer to the last lookup *)
LEMMA Answer ==
    ASSUME Inv
    PROVE  \/ found = NotFound
           \/ /\ Opened /\ dino.count = section_count /\ Written
              /\ found.name \in Names
              /\ LET s == GetSecidx(found.name)
                 IN  /\ s \in Indices \cup {-1}
                     /\ found.idx = IF /\ s # -1 /\ secs[s].type = "index"
                                       /\ dino.sec[s].data # "none"
                                    THEN s ELSE -1
  <1> SUFFICES ASSUME found # NotFound
      PROVE  /\ Opened /\ dino.count = section_count /\ Written
             /\ found.name \in Names
             /\ GetSecidx(found.name) \in Indices \cup {-1}
             /\ found.idx = IF /\ GetSecidx(found.name) # -1
                               /\ secs[GetSecidx(found.name)].type = "index"
                               /\ dino.sec[GetSecidx(found.name)].data # "none"
                            THEN GetSecidx(found.name) ELSE -1
    OBVIOUS
  <1>1. /\ pc = "open" /\ Written /\ dino.count = section_count /\ found.name \in Names
        /\ found.idx = GetIndex(GetSecidx(found.name) % 256)
    BY DEF Inv, Types, LookedUp, SectionsRead, Placing
  <1>2. GetSecidx(found.name) \in Indices \cup {-1}
    BY <1>1, FirstOfName
  <1> QED
    BY <1>1, <1>2, IndexByte DEF Opened

(* The invariant has the types. *)
LEMMA TypesAreOK == Inv => TypeOK
  <1> SUFFICES ASSUME Inv PROVE TypeOK
    OBVIOUS
  <1>1. /\ dino \in Dinos /\ i \in 0 .. section_count /\ cnt \in Int /\ ret \in Int
        /\ section_count \in Nat
    BY ObjectParts DEF Inv, Types
  <1>2. dino.sec = << >> \/ dino.sec \in [Indices -> Rows]
    BY <1>1 DEF Dinos
  <1>3. \A k \in DOMAIN dino.sec :
          /\ dino.sec[k].offset \in Nat /\ dino.sec[k].size \in Nat
          /\ dino.sec[k].data \in {"none", "half", "full"}
    BY <1>2 DEF Rows
  <1>4. found.idx \in -1 .. section_count - 1
    <2>1. CASE found = NotFound
      BY <1>1, <2>1 DEF NotFound
    <2>2. CASE found # NotFound
      <3>1. found.idx \in Indices \cup {-1}
        BY <2>2, Answer
      <3> QED
        BY <1>1, <3>1 DEF Indices
    <2> QED
      BY <2>1, <2>2
  <1> QED
    BY <1>1, <1>3, <1>4 DEF TypeOK, Dinos

(* A Dino is returned only if all of the headers were in the file, however *)
(* it was cut off and whichever reads failed.                              *)
THEOREM Whole == Spec => []OpenMeansWhole
  <1>1. Inv => OpenMeansWhole
    BY TypesAreOK DEF Inv, HeadersRead, SectionsRead, Placing, Opened, OpenMeansWhole
  <1> QED
    BY <1>1, Invariant, PTL

(* The running sum finds every section where it is, up to the first that   *)
(* has its size in the table; a size that is not there is not made up.     *)
THEOREM Placed == Spec => []SectionsInPlace
  <1>1. Inv => SectionsInPlace
    BY DEF Inv, SectionsRead, Placing, Opened, InPlace, Indices, SectionsInPlace
  <1> QED
    BY <1>1, Invariant, PTL

(* An index that is cut off is noticed: it has all its parts, or a read    *)
(* has failed.                                                             *)
THEOREM Noticed == Spec => []CutOffIsNoticed
  <1>1. Inv => CutOffIsNoticed
    BY DEF Inv
  <1> QED
    BY <1>1, Invariant, PTL

(* A lookup finds the first section of the name or nothing; and if that is *)
(* an index, it is found when load_indexes() has ended without an error.   *)
THEOREM Found == Spec => []FindsWhatIsThere
  <1>1. ASSUME Inv, NEW k \in Indices
        PROVE  /\ found.idx = k => IsFirst(k, found.name) /\ secs[k].type = "index"
               /\ IsFirst(k, found.name) /\ secs[k].type = "index" /\ loaded => found.idx = k
    <2>1. Written /\ section_count \in Nat /\ k # -1
      <3>1. Written
        BY <1>1 DEF Inv, Types
      <3>2. section_count \in 0 .. 255
        BY <3>1, ObjectParts
      <3> QED
        BY <3>1, <3>2 DEF Indices
    <2>2. CASE found = NotFound
      BY <2>1, <2>2, SectionType DEF NotFound, IsFirst
    <2>3. CASE found # NotFound
      <3> DEFINE s == GetSecidx(found.name)
      <3>1. /\ dino.count = section_count
            /\ s \in Indices \cup {-1}
            /\ found.idx = IF s # -1 /\ secs[s].type = "index" /\ dino.sec[s].data # "none"
                           THEN s ELSE -1
        BY <1>1, <2>3, Answer
      <3>2. \/ s = -1 /\ ~IsFirst(k, found.name)
            \/ s \in Indices /\ (IsFirst(k, found.name) <=> k = s)
        BY <2>1, <3>1, FirstOfName DEF IsFirst
      <3>3. loaded /\ s \in Indices /\ secs[s].type = "index" => dino.sec[s].data # "none"
        BY <1>1 DEF Inv, IndexesLoaded, AllLoaded, Indices
      <3> HIDE DEF s
      <3> QED
        BY <2>1, <3>1, <3>2, <3>3 DEF Indices
    <2> QED
      BY <2>2, <2>3
  <1>2. Inv => FindsWhatIsThere
    BY <1>1 DEF FindsWhatIsThere, IsFirst, Indices
  <1> QED
    BY <1>2, Invariant, PTL

----------------------------------------------------------------------------
(* Mkdino *)
Word == Nat \X Nat

Buffers == [null : BOOLEAN, buf : Seq(Word)]

InRpm == {"hdr", "digest"} \cup {"start", "compress", "compress_hdr", "end", "import"}

RpmTypes ==
    /\ MkTypeOK
    /\ rpms \in Seq(Rpms)
    /\ stage \in InRpm => nth \in 1 .. Len(rpms)
    /\ outsize \in Nat
    /\ sigbuf \in Buffers /\ hdrbuf \in Buffers
    /\ held \in Seq(Word) /\ in \in Seq(Word) /\ out \in Seq(Word)

(* After the first header: fd is where the second starts, or at the end.   *)
SigIsRead ==
    stage = "hdr" =>
       \/ sigbuf.null
       \/ sigbuf.buf = SigOf(nth) /\ pos = HdrAt(rpms[nth])
       \/ pos >= rpms[nth].fsize

(* After the second: both are those of the RPM. *)
BothAreRead ==
    ((stage = "digest" /\ ~sigbuf.null) \/ Compressing) /\ ~EndsInIntro(rpms[nth]) =>
       /\ rpms[nth].fsize = HdrEnd(rpms[nth])
       /\ sigbuf.buf = SigOf(nth) /\ hdrbuf.buf = HdrOf(nth)

DigestIsOwn == Compressing /\ hashed => digest = Magic \o hdrbuf.buf

(* What the stream has taken is in the output or held, unless that is full *)
(* and something will be left of the frame.                                *)
Taken(data) == Len(out) = outsize \/ out \o held = data

FrameSoFar ==
    ~lost =>
       /\ stage \in {"next", "hdr", "digest", "start"} => held = << >> /\ out = << >>
       /\ stage = "compress" => in = sigbuf.buf /\ Taken(<<Begin>>)
       /\ stage = "compress_hdr" => in = hdrbuf.buf /\ Taken(<<Begin>> \o sigbuf.buf)
       /\ stage = "end" => Taken(<<Begin>> \o sigbuf.buf \o hdrbuf.buf)
       /\ stage = "import" =>
            held = << >> /\ out = <<Begin>> \o sigbuf.buf \o hdrbuf.buf \o <<End>>

RpmInv == RpmTypes /\ SigIsRead /\ BothAreRead /\ DigestIsOwn /\ FrameSoFar

----------------------------------------------------------------------------
(* A signature header is padded to a multiple of Align.                    *)
LEMMA PadType == ASSUME NEW s \in Nat PROVE Pad(s) \in Nat
  <1>1. Align \in Nat \ {0}
    BY MkdinoAssumption
  <1>2. s % Align \in 0 .. Align - 1
    BY <1>1
  <1> DEFINE d == Align - (s % Align)
  <1>3. d \in Nat
    BY <1>1, <1>2
  <1>4. d % Align \in 0 .. Align - 1
    BY <1>1, <1>3
  <1> QED
    BY <1>1, <1>4 DEF Pad

(* Words of a file are words. *)
LEMMA WordsType ==
    ASSUME NEW r \in Nat, NEW p \in Nat, NEW len \in Nat, NEW n \in Int
    PROVE  Words(r, p, len, n) \in Seq(Word)
  <1>1. \A w \in 1 .. len : (IF w <= n THEN <<r, p + w - 1>> ELSE NoWord) \in Word
    BY DEF Word, NoWord
  <1>2. Words(r, p, len, n) \in [1 .. len -> Word]
    BY <1>1 DEF Words
  <1> QED
    BY <1>2, SeqDef

(* An RPM that was given has sizes. *)
LEMMA RpmType ==
    ASSUME RpmTypes, nth \in 1 .. Len(rpms)
    PROVE  /\ rpms[nth] \in Rpms
           /\ rpms[nth].sig \in Nat /\ rpms[nth].hdr \in Nat
           /\ rpms[nth].fsize \in 0 .. HdrEnd(rpms[nth])
           /\ SigAt \in Nat /\ HdrAt(rpms[nth]) \in Nat /\ SigAt < HdrAt(rpms[nth])
           /\ HdrAt(rpms[nth]) = SigAt + Intro + rpms[nth].sig + Pad(rpms[nth].sig)
           /\ HdrEnd(rpms[nth]) = HdrAt(rpms[nth]) + Intro + rpms[nth].hdr
  <1>1. rpms[nth] \in Rpms
    BY ElementOfSeq DEF RpmTypes
  <1>2. /\ rpms[nth].sig \in Nat /\ rpms[nth].hdr \in Nat
        /\ rpms[nth].fsize \in 0 .. HdrEnd(rpms[nth])
    BY <1>1, RpmAssumption
  <1>3. Pad(rpms[nth].sig) \in Nat
    BY <1>2, PadType
  <1>4. Lead \in Nat
    BY MkdinoAssumption
  <1> QED
    BY <1>1, <1>2, <1>3, <1>4 DEF SigAt, HdrAt, HdrEnd, Intro

(* What is left of a file, and when it is enough. *)
LEMMA Enough ==
    ASSUME NEW size \in Nat, NEW off \in Nat, NEW len \in Nat,
           len \in ReadRetry(len, size, off)
    PROVE  off + len <= size \/ len = 0
  BY DEF ReadRetry, Least, Left


(* What was read of an intro is in the file; if some is missing, the file  *)
(* ends.                                                                   *)
LEMMA Intros ==
    ASSUME NEW size \in Nat, NEW off \in Nat, NEW n \in 1 .. Intro,
           n \in ReadRetry(Intro, size, off)
    PROVE  off + n <= size /\ (n < Intro => off + n = size)
  BY DEF ReadRetry, Least, Left, Intro

(* headerReadRaw() fails, or there was at least one word of a header.      *)
PadSize(is_sig, s) == IF is_sig THEN Pad(s) ELSE 0

IsHeader(r, p, is_sig, n, s) ==
    /\ n \in 1 .. Intro /\ n \in Fread(rpms[nth], p, Intro)
    /\ s \in Sizes(rpms[nth], p, n)
    /\ s \in Fread(rpms[nth], p + n, s)
    /\ PadSize(is_sig, s) \in Fread(rpms[nth], p + n + s, PadSize(is_sig, s))
    /\ r.h = [null |-> FALSE, buf |-> Words(nth, p + 2, 2 + s, n - 2 + s)]
    /\ r.pos = p + n + s + PadSize(is_sig, s)

(* headerReadRaw() has a header, or leaves the position where it was. *)
LEMMA HeaderCases ==
    ASSUME NEW p, NEW is_sig, NEW r \in HeaderReadRaw(p, is_sig)
    PROVE  \/ r.h = NoHeader /\ r.pos = p
           \/ \E n, s : IsHeader(r, p, is_sig, n, s)
  <1>1. CASE r = [h |-> NoHeader, pos |-> p]
    BY <1>1
  <1>2. ASSUME r # [h |-> NoHeader, pos |-> p]
        PROVE  \E n, s : IsHeader(r, p, is_sig, n, s)
    <2> DEFINE complete(n, s) ==
                  /\ s \in Fread(rpms[nth], p + n, s)
                  /\ PadSize(is_sig, s) \in Fread(rpms[nth], p + n + s, PadSize(is_sig, s))
               header(n, s) ==
                  HeaderBuf(Words(nth, p + 2, 2 + s, n - 2 + s), p + n + s + PadSize(is_sig, s))
               both(n) == {header(n, s) : s \in {size \in Sizes(rpms[nth], p, n) : complete(n, size)}}
    <2>1. HeaderReadRaw(p, is_sig) =
             {[h |-> NoHeader, pos |-> p]}
             \cup UNION {both(n) : n \in Fread(rpms[nth], p, Intro) \cap 1 .. Intro}
      BY DEF HeaderReadRaw, PadSize
    <2> HIDE DEF both
    <2>2. PICK n \in Fread(rpms[nth], p, Intro) \cap 1 .. Intro : r \in both(n)
      BY <1>2, <2>1
    <2>3. PICK s \in Sizes(rpms[nth], p, n) : complete(n, s) /\ r = header(n, s)
      BY <2>2 DEF both
    <2>4. IsHeader(r, p, is_sig, n, s)
      BY <2>2, <2>3 DEF IsHeader, HeaderBuf
    <2> QED
      BY <2>4
  <1> QED
    BY <1>1, <1>2

(* What it leaves has its types, and what it takes for the size is one.    *)
LEMMA HeaderTypes ==
    ASSUME RpmTypes, nth \in 1 .. Len(rpms), NEW p \in Nat, NEW is_sig \in BOOLEAN,
           NEW r \in HeaderReadRaw(p, is_sig)
    PROVE  /\ r.h \in Buffers /\ r.pos \in Nat
           /\ \A n, s : IsHeader(r, p, is_sig, n, s) => s \in Nat /\ PadSize(is_sig, s) \in Nat
  <1>1. ASSUME NEW n, NEW s, IsHeader(r, p, is_sig, n, s)
        PROVE  /\ s \in Nat /\ PadSize(is_sig, s) \in Nat
               /\ r.h \in Buffers /\ r.pos \in Nat
    <2>1. n \in 1 .. 4 /\ s \in Sizes(rpms[nth], p, n)
      BY <1>1 DEF IsHeader, Intro
    <2>2. s \in Nat
      BY <2>1, RpmType, MkdinoAssumption DEF Sizes, SizeAt
    <2>3. PadSize(is_sig, s) \in Nat
      BY <2>2, PadType DEF PadSize
    <2>4. Words(nth, p + 2, 2 + s, n - 2 + s) \in Seq(Word)
      BY <2>1, <2>2, WordsType
    <2> QED
      BY <1>1, <2>1, <2>2, <2>3, <2>4 DEF IsHeader, Buffers
  <1>2. r.h = NoHeader /\ r.pos = p => r.h \in Buffers /\ r.pos \in Nat
    BY EmptySeq DEF NoHeader, Buffers
  <1> QED
    BY <1>1, <1>2, HeaderCases

----------------------------------------------------------------------------
(* The first header is that of the RPM, with fd behind its padding; or the *)
(* file ends in its intro, and fd is there.                                *)
LEMMA SigHeader ==
    ASSUME RpmTypes, nth \in 1 .. Len(rpms), NEW r \in HeaderReadRaw(SigAt, TRUE)
    PROVE  \/ r.h.null
           \/ r.h.buf = SigOf(nth) /\ r.pos = HdrAt(rpms[nth])
           \/ r.pos >= rpms[nth].fsize
  <1>1. CASE r.h = NoHeader
    BY <1>1 DEF NoHeader
  <1>2. ASSUME NEW n, NEW s, IsHeader(r, SigAt, TRUE, n, s)
        PROVE  \/ r.h.buf = SigOf(nth) /\ r.pos = HdrAt(rpms[nth])
               \/ r.pos >= rpms[nth].fsize
    <2>1. s \in Nat /\ Pad(s) \in Nat
      BY <1>2, RpmType, HeaderTypes DEF PadSize
    <2>2. /\ n \in 1 .. Intro /\ n \in ReadRetry(Intro, rpms[nth].fsize, SigAt)
          /\ s \in Sizes(rpms[nth], SigAt, n) /\ Intro = 4
          /\ r.h.buf = Words(nth, SigAt + 2, 2 + s, n - 2 + s)
          /\ r.pos = SigAt + n + s + Pad(s)
      BY <1>2 DEF IsHeader, PadSize, Fread, Intro
    <2>3. CASE n = Intro
      <3>1. SizeAt(rpms[nth], SigAt) = {rpms[nth].sig} /\ ~(n < Intro)
        BY <2>2, <2>3, RpmType DEF SizeAt
      <3>2. s = rpms[nth].sig
        BY <2>2, <3>1 DEF Sizes
      <3>3. n - 2 + s = 2 + s
        BY <2>1, <2>2, <2>3
      <3>4. r.h.buf = SigOf(nth)
        BY <2>2, <3>2, <3>3 DEF SigOf
      <3>5. r.pos = HdrAt(rpms[nth])
        BY <2>2, <2>3, <3>2, RpmType
      <3> QED
        BY <3>4, <3>5
    <2>4. CASE n < Intro
      <3>1. rpms[nth].fsize \in Nat /\ SigAt \in Nat
        BY RpmType DEF HdrEnd
      <3>2. SigAt + n = rpms[nth].fsize
        BY <2>2, <2>4, <3>1, Intros
      <3> QED
        BY <2>1, <2>2, <3>1, <3>2
    <2>5. n = Intro \/ n < Intro
      BY <2>2
    <2> QED
      BY <2>3, <2>4, <2>5
  <1> QED
    BY <1>1, <1>2, HeaderCases

(* If fd is where the second header starts, it is that of the RPM, all of  *)
(* which is there; or the file ends in its intro.                          *)
LEMMA HdrHeader ==
    ASSUME RpmTypes, nth \in 1 .. Len(rpms), NEW p \in Nat, NEW r \in HeaderReadRaw(p, FALSE),
           ~r.h.null
    PROVE  /\ p < rpms[nth].fsize
           /\ p = HdrAt(rpms[nth]) /\ ~EndsInIntro(rpms[nth]) =>
                r.h.buf = HdrOf(nth) /\ rpms[nth].fsize = HdrEnd(rpms[nth])
  <1> NoHeader.null
    BY DEF NoHeader
  <1>1. PICK n, s : IsHeader(r, p, FALSE, n, s)
    BY HeaderCases
  <1>0. s \in Nat /\ Intro = 4
    BY <1>1, HeaderTypes DEF Intro
  <1>2. /\ n \in 1 .. 4 /\ Intro = 4 /\ s \in Nat
        /\ n \in ReadRetry(Intro, rpms[nth].fsize, p)
        /\ s \in ReadRetry(s, rpms[nth].fsize, p + n)
        /\ s \in Sizes(rpms[nth], p, n)
        /\ r.h.buf = Words(nth, p + 2, 2 + s, n - 2 + s)
    BY <1>0, <1>1 DEF IsHeader, Fread
  <1>3. rpms[nth].fsize \in Nat
    BY RpmType DEF HdrEnd
  <1>4. p + n <= rpms[nth].fsize /\ (n < 4 => p + n = rpms[nth].fsize)
    BY <1>2, <1>3, Intros
  <1>5. ASSUME p = HdrAt(rpms[nth]), ~EndsInIntro(rpms[nth])
        PROVE  r.h.buf = HdrOf(nth) /\ rpms[nth].fsize = HdrEnd(rpms[nth])
    <2>1. n = 4
      BY <1>2, <1>3, <1>4, <1>5 DEF EndsInIntro
    <2>2. Sizes(rpms[nth], p, n) = {rpms[nth].hdr}
      BY <1>2, <1>5, <2>1, RpmType DEF Sizes, SizeAt
    <2>3. p + n + s <= rpms[nth].fsize
      <3>1. p + n \in Nat
        BY <1>2
      <3>2. p + n + s <= rpms[nth].fsize \/ s = 0
        BY <1>2, <1>3, <3>1, Enough
      <3> QED
        BY <1>2, <1>3, <1>4, <3>2
    <2>4. n - 2 + s = 2 + s
      BY <1>2, <2>1
    <2>5. s = rpms[nth].hdr
      BY <1>2, <2>2
    <2>6. r.h.buf = HdrOf(nth)
      BY <1>2, <1>5, <2>4, <2>5 DEF HdrOf
    <2>7. p + 4 + s = HdrEnd(rpms[nth]) /\ rpms[nth].fsize <= p + 4 + s
      <3>1. HdrEnd(rpms[nth]) = HdrAt(rpms[nth]) + Intro + rpms[nth].hdr
            /\ rpms[nth].fsize \in 0 .. HdrEnd(rpms[nth])
        BY RpmType
      <3> QED
        BY <1>2, <1>5, <2>5, <3>1
    <2> QED
      BY <1>2, <1>3, <1>4, <2>1, <2>3, <2>6, <2>7
  <1> QED
    BY <1>2, <1>3, <1>4, <1>5

----------------------------------------------------------------------------
(* Of three parts, it does not matter which two are joined first.          *)
LEMMA Associative ==
    \A s, t, u \in Seq(Word) : s \o (t \o u) = (s \o t) \o u
  BY ConcatAssociative

(* What is given out is appended, what is not is kept, and nothing between *)
(* is lost.                                                                *)
LEMMA GivenOut ==
    ASSUME RpmTypes, NEW from \in Seq(Word), NEW n \in 0 .. Len(from), GiveOut(n, from)
    PROVE  /\ out' \in Seq(Word) /\ held' \in Seq(Word)
           /\ Len(out') = Len(out) + n
           /\ Len(held') = Len(from) - n
           /\ out' \o held' = out \o from
  <1> DEFINE given == SubSeq(from, 1, n)
             kept == SubSeq(from, n + 1, Len(from))
  <1>1. Len(from) \in Nat /\ out \in Seq(Word) /\ \A w \in 1 .. Len(from) : from[w] \in Word
    BY LenProperties, ElementOfSeq DEF RpmTypes
  <1>2. given \in Seq(Word) /\ Len(given) = n
    BY <1>1, SubSeqProperties
  <1>3. kept \in Seq(Word) /\ Len(kept) = Len(from) - n
    BY <1>1, SubSeqProperties
  <1>4. given \o kept = from
    <2>1. 1 \in 1 .. Len(from) + 1 /\ n \in 1 - 1 .. Len(from) /\ Len(from) \in n .. Len(from)
      BY <1>1
    <2>2. SubSeq(from, 1, n) \o SubSeq(from, n + 1, Len(from)) = SubSeq(from, 1, Len(from))
      BY <2>1, ConcatAdjacentSubSeq
    <2> QED
      BY <2>2, SubSeqFull
  <1>5. out' = out \o given /\ held' = kept
    BY DEF GiveOut
  <1> HIDE DEF given, kept
  <1>6. (out \o given) \o kept = out \o from
    <2>1. (out \o given) \o kept = out \o (given \o kept)
      BY <1>1, <1>2, <1>3, Associative
    <2> QED
      BY <1>4, <2>1
  <1> QED
    BY <1>1, <1>2, <1>3, <1>5, <1>6, ConcatProperties

(* A stream that takes its input in full has all that it had and that, in  *)
(* order; if it does not, or did not before, then its output is full.      *)
LEMMA TakenMore ==
    ASSUME RpmTypes, Take
    PROVE  /\ out' \in Seq(Word) /\ held' \in Seq(Word)
           /\ Len(out') <= outsize
           /\ \/ Len(out') = outsize
              \/ Len(out) # outsize /\ out' \o held' = (out \o held) \o in
  <1>1. /\ in \in Seq(Word) /\ held \in Seq(Word) /\ out \in Seq(Word)
        /\ outsize \in Nat /\ Len(out) \in Nat /\ Len(in) \in Nat /\ Len(out) <= outsize
    BY LenProperties DEF RpmTypes, MkTypeOK
  <1>2. PICK t \in 0 .. Len(in), n \in 0 .. Room :
           /\ t < Len(in) => n = Room
           /\ n <= Len(held) + t
           /\ GiveOut(n, held \o SubSeq(in, 1, t))
    BY DEF Take
  <1> DEFINE took == SubSeq(in, 1, t)
  <1>3. took \in Seq(Word) /\ Len(took) = t
    <2>1. \A w \in 1 .. t : in[w] \in Word
      BY <1>1, ElementOfSeq
    <2> QED
      BY <1>1, <2>1, SubSeqProperties
  <1>4. t = Len(in) => took = in
    BY <1>1, SubSeqFull
  <1> HIDE DEF took
  <1>5. held \o took \in Seq(Word) /\ n \in 0 .. Len(held \o took)
    <2>1. Len(held) \in Nat /\ Len(held \o took) = Len(held) + t /\ held \o took \in Seq(Word)
      BY <1>1, <1>3, ConcatProperties, LenProperties
    <2> QED
      BY <1>1, <1>2, <2>1
  <1>6. /\ out' \in Seq(Word) /\ held' \in Seq(Word)
        /\ Len(out') = Len(out) + n
        /\ out' \o held' = out \o (held \o took)
    BY <1>2, <1>5, GivenOut DEF took
  <1>7. n \in Nat /\ n <= outsize - Len(out) /\ (t < Len(in) => n = outsize - Len(out))
    BY <1>1, <1>2 DEF Room
  <1>8. CASE t = Len(in)
    <2>1. out \o (held \o in) = (out \o held) \o in
      BY <1>1, Associative
    <2>2. out' \o held' = (out \o held) \o in
      BY <1>4, <1>6, <1>8, <2>1
    <2> QED
      BY <1>1, <1>6, <1>7, <2>2
  <1>9. CASE t # Len(in)
    BY <1>1, <1>2, <1>6, <1>7, <1>9
  <1> QED
    BY <1>8, <1>9

(* The size that an output is made for two headers *)
LEMMA PadPageType ==
    ASSUME NEW s \in Seq(Word), NEW t \in Seq(Word)
    PROVE  PadPage(Len(s) + Len(t)) \in Nat
  <1>1. Page \in Nat \ {0}
    BY MkdinoAssumption
  <1>0. Len(s) \in Nat /\ Len(t) \in Nat
    BY LenProperties
  <1> DEFINE q == (Len(s) + Len(t) + Page - 1) \div Page
  <1>2. q \in Nat
    BY <1>0, <1>1
  <1> HIDE DEF q
  <1>3. q * Page \in Nat
    BY <1>1, <1>2
  <1> QED
    BY <1>3 DEF PadPage, q

(* The words that are in no header *)
LEMMA MarkTypes ==
    /\ Magic \in Seq(Word) /\ << >> \in Seq(Word)
    /\ <<Begin>> \in Seq(Word) /\ <<End>> \in Seq(Word)
    /\ NoHeader \in Buffers /\ NoHeader.buf = << >>
  BY DEF Magic, Begin, End, Word, NoHeader, Buffers

----------------------------------------------------------------------------
(* Nothing has been read.                                                  *)
LEMMA RpmInitInv == MkInit => RpmInv
  <1> SUFFICES ASSUME MkInit PROVE RpmInv
    OBVIOUS
  <1>1. PICK n \in 1 .. MaxRpms : rpms \in [1 .. n -> Rpms]
    BY DEF MkInit
  <1>2. n \in Nat /\ rpms \in Seq(Rpms) /\ Len(rpms) = n
    BY <1>1, SeqDef, MkdinoAssumption
  <1>3. outsize \in Nat
    BY MkdinoAssumption DEF MkInit
  <1>4. Len(<< >>) = 0 /\ stage \in {"next", "error", "died"} /\ hashed \in BOOLEAN
        /\ lost \in BOOLEAN
    BY DEF MkInit
  <1>5. MkTypeOK
    BY <1>2, <1>3, <1>4 DEF MkInit, MkTypeOK
  <1>6. RpmTypes
    BY <1>2, <1>3, <1>4, <1>5, MarkTypes DEF MkInit, RpmTypes, InRpm
  <1> QED
    BY <1>4, <1>6 DEF MkInit, RpmInv, SigIsRead, BothAreRead, DigestIsOwn, FrameSoFar,
       Compressing

(* The first header of an RPM is read. *)
LEMMA ReadSigInv == RpmInv /\ ReadSig => RpmInv'
  <1> SUFFICES ASSUME RpmInv, ReadSig PROVE RpmInv'
    OBVIOUS
  <1>1. RpmTypes /\ stage = "next" /\ nth \in 1 .. Len(rpms)
    BY LenProperties DEF RpmInv, RpmTypes, ReadSig
  <1>2. PICK r \in HeaderReadRaw(SigAt, TRUE) :
           /\ sigbuf' = r.h /\ pos' = r.pos
           /\ stage' \in {"hdr", "died"}
    BY DEF ReadSig
  <1>3. UNCHANGED <<rpms, nth, hdrbuf, hasher, digest, hashed, held, in, out, outsize, lost>>
    BY DEF ReadSig
  <1>4. r.h \in Buffers /\ r.pos \in Nat
    BY <1>1, RpmType, HeaderTypes
  <1>5. RpmTypes'
    BY <1>1, <1>2, <1>3, <1>4 DEF RpmTypes, MkTypeOK, InRpm
  <1>6. SigIsRead'
    <2>1. SigOf(nth)' = SigOf(nth)
      BY <1>3 DEF SigOf
    <2> QED
      BY <1>1, <1>2, <1>3, <2>1, SigHeader DEF SigIsRead
  <1>7. BothAreRead' /\ DigestIsOwn'
    BY <1>2 DEF BothAreRead, DigestIsOwn, Compressing
  <1>8. FrameSoFar'
    BY <1>1, <1>2, <1>3 DEF RpmInv, FrameSoFar
  <1> QED
    BY <1>5, <1>6, <1>7, <1>8 DEF RpmInv

(* The second is read where the first has ended. *)
LEMMA ReadHdrInv == RpmInv /\ ReadHdr => RpmInv'
  <1> SUFFICES ASSUME RpmInv, ReadHdr PROVE RpmInv'
    OBVIOUS
  <1>1. RpmTypes /\ SigIsRead /\ stage = "hdr" /\ nth \in 1 .. Len(rpms) /\ pos \in Nat
    BY DEF RpmInv, RpmTypes, MkTypeOK, InRpm, ReadHdr
  <1>2. PICK r \in HeaderReadRaw(pos, FALSE) :
           /\ hdrbuf' = r.h /\ pos' = r.pos
           /\ stage' = IF r.h.null THEN "died" ELSE "digest"
    BY DEF ReadHdr
  <1>3. UNCHANGED <<rpms, nth, sigbuf, hasher, digest, hashed, held, in, out, outsize, lost>>
    BY DEF ReadHdr
  <1>4. r.h \in Buffers /\ r.pos \in Nat
    BY <1>1, HeaderTypes
  <1>5. RpmTypes'
    BY <1>1, <1>2, <1>3, <1>4 DEF RpmTypes, MkTypeOK, InRpm
  <1>6. SigIsRead' /\ DigestIsOwn'
    BY <1>2 DEF SigIsRead, DigestIsOwn, Compressing
  <1>7. BothAreRead'
    <2> SUFFICES ASSUME stage' = "digest", ~sigbuf.null, ~EndsInIntro(rpms[nth])
                 PROVE  /\ rpms[nth].fsize = HdrEnd(rpms[nth])
                        /\ sigbuf.buf = SigOf(nth) /\ hdrbuf'.buf = HdrOf(nth)
      BY <1>2, <1>3 DEF BothAreRead, Compressing, SigOf, HdrOf
    <2>1. ~r.h.null
      BY <1>2
    <2>2. pos < rpms[nth].fsize
      BY <1>1, <2>1, HdrHeader
    <2>3. rpms[nth].fsize \in Nat
      BY <1>1, RpmType DEF HdrEnd
    <2>4. sigbuf.buf = SigOf(nth) /\ pos = HdrAt(rpms[nth])
      BY <1>1, <2>2, <2>3 DEF SigIsRead
    <2>5. r.h.buf = HdrOf(nth) /\ rpms[nth].fsize = HdrEnd(rpms[nth])
      BY <1>1, <2>1, <2>4, HdrHeader
    <2> QED
      BY <1>2, <2>4, <2>5
  <1>8. FrameSoFar'
    BY <1>1, <1>2, <1>3 DEF RpmInv, FrameSoFar
  <1> QED
    BY <1>5, <1>6, <1>7, <1>8 DEF RpmInv

(* If no call of the hasher fails, the digest is that of the header.       *)
LEMMA DigestInv == RpmInv /\ Digest => RpmInv'
  <1> SUFFICES ASSUME RpmInv, Digest PROVE RpmInv'
    OBVIOUS
  <1>1. RpmTypes /\ BothAreRead /\ stage = "digest" /\ nth \in 1 .. Len(rpms)
        /\ hdrbuf.buf \in Seq(Word)
    BY DEF RpmInv, RpmTypes, MkTypeOK, InRpm, Digest, Buffers
  <1>2. stage' = IF sigbuf.null THEN "died" ELSE "start"
    BY DEF Digest
  <1>3. UNCHANGED <<rpms, nth, pos, sigbuf, hdrbuf, held, in, out, outsize, lost>>
    BY DEF Digest
  <1>4. PICK s \in HasherStart(hasher) : \E m \in HasherUpdate(s.hasher, Magic) :
          \E u \in HasherUpdate(m.hasher, hdrbuf.buf) : \E f \in HasherFinish(u.hasher, digest) :
             /\ hasher' = f.hasher
             /\ digest' = f.out
             /\ hashed' = ({s.ret, m.ret, u.ret, f.ret} = {1})
    BY DEF Digest
  <1>5. PICK m \in HasherUpdate(s.hasher, Magic) :
          \E u \in HasherUpdate(m.hasher, hdrbuf.buf) : \E f \in HasherFinish(u.hasher, digest) :
             /\ hasher' = f.hasher
             /\ digest' = f.out
             /\ hashed' = ({s.ret, m.ret, u.ret, f.ret} = {1})
    BY <1>4
  <1>50. PICK u \in HasherUpdate(m.hasher, hdrbuf.buf) : \E f \in HasherFinish(u.hasher, digest) :
             /\ hasher' = f.hasher
             /\ digest' = f.out
             /\ hashed' = ({s.ret, m.ret, u.ret, f.ret} = {1})
    BY <1>5
  <1>6. PICK f \in HasherFinish(u.hasher, digest) :
             /\ hasher' = f.hasher
             /\ digest' = f.out
             /\ hashed' = ({s.ret, m.ret, u.ret, f.ret} = {1})
    BY <1>50
  <1>7. ASSUME hashed' PROVE digest' = Magic \o hdrbuf.buf
    <2>1. s.ret = 1 /\ m.ret = 1 /\ u.ret = 1 /\ f.ret = 1
      BY <1>6, <1>7
    <2>2. s.hasher.data = << >>
      BY <2>1 DEF HasherStart, Failed, Result, Context
    <2>3. m.hasher.data = << >> \o Magic
      BY <2>1, <2>2 DEF HasherUpdate, Failed, Result, Context
    <2>4. u.hasher.data = (<< >> \o Magic) \o hdrbuf.buf
      BY <2>1, <2>3 DEF HasherUpdate, Failed, Result, Context
    <2>5. f.out = u.hasher.data
      BY <2>1 DEF HasherFinish, Failed, Result, Context
    <2>6. << >> \o Magic = Magic
      BY MarkTypes, ConcatEmptySeq
    <2> QED
      BY <1>6, <2>4, <2>5, <2>6
  <1>8. hashed' \in BOOLEAN
    BY <1>6
  <1>9. RpmTypes'
    BY <1>1, <1>2, <1>3, <1>8 DEF RpmTypes, MkTypeOK, InRpm
  <1>10. SigIsRead' /\ DigestIsOwn'
    BY <1>2, <1>3, <1>7 DEF SigIsRead, DigestIsOwn
  <1>11. BothAreRead'
    BY <1>1, <1>2, <1>3 DEF BothAreRead, Compressing, SigOf, HdrOf
  <1>12. FrameSoFar'
    BY <1>1, <1>2, <1>3 DEF RpmInv, FrameSoFar
  <1> QED
    BY <1>9, <1>10, <1>11, <1>12 DEF RpmInv

----------------------------------------------------------------------------
(* What else an action keeps while an RPM is compressed                    *)
LEMMA KeepsHeaders ==
    ASSUME BothAreRead, DigestIsOwn, Compressing,
           UNCHANGED <<rpms, nth, sigbuf, hdrbuf, hashed, digest>>, stage' \notin {"hdr", "digest"}
    PROVE  SigIsRead' /\ BothAreRead' /\ DigestIsOwn'
  <1>1. SigIsRead'
    BY DEF SigIsRead
  <1>2. BothAreRead'
    BY DEF BothAreRead, Compressing, SigOf, HdrOf
  <1>3. DigestIsOwn'
    BY DEF DigestIsOwn, Compressing
  <1> QED
    BY <1>1, <1>2, <1>3

(* A frame is started with room for both headers, if there is memory.      *)
LEMMA CompressStartInv == RpmInv /\ CompressStart => RpmInv'
  <1> SUFFICES ASSUME RpmInv, CompressStart PROVE RpmInv'
    OBVIOUS
  <1> DEFINE size == PadPage(Len(sigbuf.buf) + Len(hdrbuf.buf))
  <1>1. /\ RpmTypes /\ BothAreRead /\ DigestIsOwn /\ FrameSoFar /\ stage = "start"
        /\ sigbuf.buf \in Seq(Word) /\ hdrbuf.buf \in Seq(Word) /\ held \in Seq(Word)
    BY DEF RpmInv, RpmTypes, CompressStart, Buffers
  <1>2. /\ stage' = "compress" /\ held' = held \o <<Begin>> /\ in' = sigbuf.buf
        /\ outsize' \in IF size > outsize THEN {size, outsize} ELSE {outsize}
        /\ UNCHANGED <<rpms, nth, pos, sigbuf, hdrbuf, hasher, digest, hashed, out, lost>>
    BY DEF CompressStart
  <1>3. size \in Nat
    BY <1>1, PadPageType
  <1> HIDE DEF size
  <1>4. outsize \in Nat /\ Len(out) \in Nat /\ Len(out) <= outsize
    BY <1>1, LenProperties DEF RpmTypes, MkTypeOK
  <1>5. outsize' \in Nat /\ Len(out) <= outsize'
    BY <1>2, <1>3, <1>4
  <1>6. held' \in Seq(Word)
    BY <1>1, <1>2, MarkTypes, ConcatProperties
  <1>7. RpmTypes'
    BY <1>1, <1>2, <1>5, <1>6 DEF RpmTypes, MkTypeOK, InRpm
  <1>8. SigIsRead' /\ BothAreRead' /\ DigestIsOwn'
    BY <1>1, <1>2, KeepsHeaders DEF Compressing
  <1>9. FrameSoFar'
    <2>1. << >> \o (<< >> \o <<Begin>>) = <<Begin>>
      BY MarkTypes, ConcatEmptySeq
    <2>2. ~lost => out' \o held' = <<Begin>>
      BY <1>1, <1>2, <2>1 DEF FrameSoFar
    <2> QED
      BY <1>2, <2>2 DEF FrameSoFar, Taken
  <1> QED
    BY <1>7, <1>8, <1>9 DEF RpmInv

(* The signature header goes in after what begins a frame, *)
LEMMA CompressSigInv == RpmInv /\ CompressSig => RpmInv'
  <1> SUFFICES ASSUME RpmInv, CompressSig PROVE RpmInv'
    OBVIOUS
  <1>1. /\ RpmTypes /\ BothAreRead /\ DigestIsOwn /\ FrameSoFar /\ stage = "compress"
        /\ hdrbuf.buf \in Seq(Word)
    BY DEF RpmInv, RpmTypes, CompressSig, Buffers
  <1>2. /\ stage' = "compress_hdr" /\ in' = hdrbuf.buf
        /\ UNCHANGED <<rpms, nth, pos, sigbuf, hdrbuf, hasher, digest, hashed, outsize, lost>>
    BY DEF CompressSig
  <1>3. /\ out' \in Seq(Word) /\ held' \in Seq(Word) /\ Len(out') <= outsize
        /\ \/ Len(out') = outsize
           \/ Len(out) # outsize /\ out' \o held' = (out \o held) \o in
    BY <1>1, TakenMore DEF CompressSig
  <1>4. RpmTypes'
    BY <1>1, <1>2, <1>3 DEF RpmTypes, MkTypeOK, InRpm
  <1>5. SigIsRead' /\ BothAreRead' /\ DigestIsOwn'
    BY <1>1, <1>2, KeepsHeaders DEF Compressing
  <1>6. FrameSoFar'
    BY <1>1, <1>2, <1>3 DEF FrameSoFar, Taken
  <1> QED
    BY <1>4, <1>5, <1>6 DEF RpmInv

(* and the other after it. *)
LEMMA CompressHdrInv == RpmInv /\ CompressHdr => RpmInv'
  <1> SUFFICES ASSUME RpmInv, CompressHdr PROVE RpmInv'
    OBVIOUS
  <1>1. /\ RpmTypes /\ BothAreRead /\ DigestIsOwn /\ FrameSoFar /\ stage = "compress_hdr"
        /\ sigbuf.buf \in Seq(Word) /\ hdrbuf.buf \in Seq(Word)
    BY DEF RpmInv, RpmTypes, CompressHdr, Buffers
  <1>2. /\ stage' = "end" /\ in' = << >>
        /\ UNCHANGED <<rpms, nth, pos, sigbuf, hdrbuf, hasher, digest, hashed, outsize, lost>>
    BY DEF CompressHdr
  <1>3. /\ out' \in Seq(Word) /\ held' \in Seq(Word) /\ Len(out') <= outsize
        /\ \/ Len(out') = outsize
           \/ Len(out) # outsize /\ out' \o held' = (out \o held) \o in
    BY <1>1, TakenMore DEF CompressHdr
  <1>4. RpmTypes'
    BY <1>1, <1>2, <1>3, MarkTypes DEF RpmTypes, MkTypeOK, InRpm
  <1>5. SigIsRead' /\ BothAreRead' /\ DigestIsOwn'
    BY <1>1, <1>2, KeepsHeaders DEF Compressing
  <1>6. FrameSoFar'
    <2>1. (<<Begin>> \o sigbuf.buf) \o hdrbuf.buf = <<Begin>> \o sigbuf.buf \o hdrbuf.buf
      OBVIOUS
    <2> QED
      BY <1>1, <1>2, <1>3, <2>1 DEF FrameSoFar, Taken
  <1> QED
    BY <1>4, <1>5, <1>6 DEF RpmInv

(* The frame is whole if nothing is left over; then its output was not     *)
(* full before.                                                            *)
LEMMA CompressEndInv == RpmInv /\ CompressEnd => RpmInv'
  <1> SUFFICES ASSUME RpmInv, CompressEnd PROVE RpmInv'
    OBVIOUS
  <1> DEFINE whole == held \o <<End>>
             n == Least(Room, Len(whole))
  <1>1. /\ RpmTypes /\ BothAreRead /\ DigestIsOwn /\ FrameSoFar /\ stage = "end"
        /\ sigbuf.buf \in Seq(Word) /\ hdrbuf.buf \in Seq(Word)
        /\ held \in Seq(Word) /\ out \in Seq(Word) /\ lost \in BOOLEAN
    BY DEF RpmInv, RpmTypes, MkTypeOK, CompressEnd, Buffers
  <1>2. /\ stage' = "import" /\ GiveOut(n, whole) /\ lost' = (lost \/ held' # << >>)
        /\ UNCHANGED <<rpms, nth, pos, sigbuf, hdrbuf, hasher, digest, hashed, in, outsize>>
    BY DEF CompressEnd
  <1>3. whole \in Seq(Word) /\ Len(whole) = Len(held) + 1 /\ Len(held) \in Nat
    BY <1>1, MarkTypes, ConcatProperties, LenProperties
  <1>4. outsize \in Nat /\ Len(out) \in Nat /\ Len(out) <= outsize
    BY <1>1, LenProperties DEF RpmTypes, MkTypeOK
  <1>5. n \in 0 .. Len(whole) /\ n <= outsize - Len(out)
    BY <1>3, <1>4 DEF Least, Room
  <1> HIDE DEF n
  <1>6. /\ out' \in Seq(Word) /\ held' \in Seq(Word)
        /\ Len(out') = Len(out) + n
        /\ Len(held') = Len(whole) - n
        /\ out' \o held' = out \o whole
    BY <1>1, <1>2, <1>3, <1>5, GivenOut
  <1>7. lost' \in BOOLEAN /\ Len(out') <= outsize
    BY <1>2, <1>4, <1>5, <1>6
  <1>8. RpmTypes'
    BY <1>1, <1>2, <1>6, <1>7 DEF RpmTypes, MkTypeOK, InRpm
  <1>9. SigIsRead' /\ BothAreRead' /\ DigestIsOwn'
    BY <1>1, <1>2, KeepsHeaders DEF Compressing
  <1>10. ASSUME ~lost'
         PROVE  /\ held' = << >>
                /\ out' = <<Begin>> \o sigbuf.buf \o hdrbuf.buf \o <<End>>
    <2>1. ~lost /\ held' = << >>
      BY <1>1, <1>2, <1>10
    <2>2. Len(held') = 0
      BY <2>1
    <2>3. Len(out) # outsize
      BY <1>3, <1>4, <1>5, <1>6, <2>2
    <2>4. out \o held = <<Begin>> \o sigbuf.buf \o hdrbuf.buf
      BY <1>1, <2>1, <2>3 DEF FrameSoFar, Taken
    <2>5. out' = out \o (held \o <<End>>)
      BY <1>6, <2>1, ConcatEmptySeq
    <2>6. out \o (held \o <<End>>) = (out \o held) \o <<End>>
      BY <1>1, MarkTypes, Associative
    <2> QED
      BY <2>1, <2>4, <2>5, <2>6
  <1>11. FrameSoFar'
    BY <1>2, <1>10 DEF FrameSoFar
  <1> QED
    BY <1>8, <1>9, <1>11 DEF RpmInv

----------------------------------------------------------------------------
(* The RPM is done with: its headers and its output are forgotten.         *)
LEMMA ImportInv == RpmInv /\ Import => RpmInv'
  <1> SUFFICES ASSUME RpmInv, Import PROVE RpmInv'
    OBVIOUS
  <1>1. RpmTypes /\ FrameSoFar /\ stage = "import" /\ nth \in 1 .. Len(rpms) /\ Len(rpms) \in Nat
    BY LenProperties DEF RpmInv, RpmTypes, InRpm, Import
  <1>2. /\ \/ stage' = "next" /\ nth' = nth + 1
           \/ stage' = "died" /\ nth' = nth
        /\ sigbuf' = NoHeader /\ hdrbuf' = NoHeader /\ out' = << >>
        /\ UNCHANGED <<rpms, pos, hasher, digest, hashed, held, in, outsize, lost>>
    BY DEF Import, Cleared
  <1>3. outsize \in Nat /\ Len(<< >>) = 0
    BY <1>1 DEF RpmTypes
  <1>4. nth' \in 1 .. Len(rpms) + 1
    BY <1>1, <1>2
  <1>5. MkTypeOK'
    BY <1>1, <1>2, <1>3, <1>4 DEF RpmTypes, MkTypeOK
  <1>6. RpmTypes'
    BY <1>1, <1>2, <1>5, MarkTypes DEF RpmTypes, InRpm
  <1>7. SigIsRead' /\ BothAreRead' /\ DigestIsOwn'
    BY <1>2 DEF SigIsRead, BothAreRead, DigestIsOwn, Compressing
  <1>8. FrameSoFar'
    BY <1>1, <1>2 DEF FrameSoFar
  <1> QED
    BY <1>6, <1>7, <1>8 DEF RpmInv

(* All RPMs are done with, or nothing happens.                             *)
LEMMA FinishedInv == RpmInv /\ (Finished \/ UNCHANGED mkvars) => RpmInv'
  <1>1. ASSUME RpmInv, Finished PROVE RpmInv'
    <2>1. stage' = "done" /\ UNCHANGED <<rpms, nth, pos, sigbuf, hdrbuf, hasher, digest, hashed,
                                      held, in, out, outsize, lost>>
      BY <1>1 DEF Finished
    <2>2. RpmTypes'
      BY <1>1, <2>1 DEF RpmInv, RpmTypes, MkTypeOK, InRpm
    <2> QED
      BY <1>1, <2>1, <2>2
      DEF RpmInv, SigIsRead, BothAreRead, DigestIsOwn, FrameSoFar, Compressing
  <1>2. ASSUME RpmInv, UNCHANGED mkvars PROVE RpmInv'
    BY <1>2 DEF mkvars, RpmInv, RpmTypes, MkTypeOK, SigIsRead, BothAreRead, DigestIsOwn,
       FrameSoFar, Compressing, Taken, SigOf, HdrOf, InRpm
  <1> QED
    BY <1>1, <1>2

(* Every step keeps the invariant. *)
LEMMA RpmNextInv == RpmInv /\ [MkNext]_mkvars => RpmInv'
  BY ReadSigInv, ReadHdrInv, DigestInv, CompressStartInv, CompressSigInv, CompressHdrInv,
     CompressEndInv, ImportInv, FinishedInv DEF MkNext

(* The invariant holds in every state that mkdino can be in.               *)
THEOREM RpmInvariant == MkSpec => []RpmInv
  <1>1. MkInit => RpmInv
    BY RpmInitInv
  <1>2. RpmInv /\ [MkNext]_mkvars => RpmInv'
    BY RpmNextInv
  <1> QED
    BY <1>1, <1>2, PTL DEF MkSpec

(* KeyIsOfHeader: an RPM that is processed has both its headers in full,   *)
(* and its key is the digest of its own header.                            *)
THEOREM KeysAreOfHeaders == MkSpec => []KeyIsOfHeader
  <1>1. RpmInv => KeyIsOfHeader
    BY DEF RpmInv, BothAreRead, DigestIsOwn, KeyIsOfHeader
  <1>2. MkSpec => []RpmInv
    BY RpmInvariant
  <1> QED
    BY <1>1, <1>2, PTL

(* FrameIsOfRpm: an output that is complete is one frame, of both headers  *)
(* of its RPM and nothing else.                                            *)
THEOREM FramesAreOfRpms == MkSpec => []FrameIsOfRpm
  <1>1. RpmInv => FrameIsOfRpm
    BY DEF RpmInv, RpmTypes, BothAreRead, FrameSoFar, FrameIsOfRpm, Compressing
  <1>2. MkSpec => []RpmInv
    BY RpmInvariant
  <1> QED
    BY <1>1, <1>2, PTL

----------------------------------------------------------------------------
(* AdaptedStreams: the invariant says what each byte in transit is.        *)
(*                                                                         *)
(* Where a frame begins in all that the encoder is given: each has its     *)
(* data and its end. *)
StartOf(f) == Len(DataBefore[f]) + (f - 1)

(* What the byte number p is. *)
Belongs(b, p) ==
    \A f \in 1 .. Len(sizes) :
       /\ \A j \in 1 .. sizes[f] : p = StartOf(f) + j => b = <<f, j>>
       /\ p = StartOf(f) + (sizes[f] + 1) => b = FrameEnd

Segment(s, p) == \A k \in 1 .. Len(s) : Belongs(s[k], p + k)

(* The bytes after the p-th, up to the q-th *)
Between(s, p, q) == q = p + Len(s) /\ Segment(s, p)

Wire == Nat \X Nat

AdaptedTypes ==
    /\ AdaptedTypeOK
    /\ algo \in {"xz", "zstd"}
    /\ sizes \in Seq(FrameSizes) /\ Len(sizes) >= 1
    /\ place \in Nat /\ piece \in Nat
    /\ {careful, unflushed, erred, aborted} \subseteq BOOLEAN
    /\ {cin, cout, file, din, dout, received} \subseteq Seq(Wire)
    /\ enc \in [held : Seq(Wire), flushing : BOOLEAN, ending : BOOLEAN, over : BOOLEAN,
                avail_in : Nat]
    /\ dec \in [held : Seq(Wire), ended : BOOLEAN, over : BOOLEAN]

(* How much the encoder has been given, ends of frames included *)
written ==
    IF frame = 0 THEN 0
    ELSE StartOf(frame) + (place + (IF ~open \/ enc.ending THEN 1 ELSE 0))

(* The sender is in a frame whose end it has not given, or has given and   *)
(* goes on to end, or it is between two frames. *)
InFrame ==
    /\ frame # 0 /\ ~enc.over
    /\ enc.ending => place = sizes[frame] /\ cin = << >>

BetweenFrames ==
    /\ cin = << >> /\ enc.held = << >>
    /\ frame # 0 => place = sizes[frame]
    /\ algo # "xz" => enc = NewEnc

(* What a careful sender knows of the encoder, and what is true of zstd:   *)
(* nothing stands in the way of its next call.                             *)
Callable ==
    /\ NeverRefused
    /\ careful /\ enc.flushing => unflushed
    /\ careful /\ unflushed => enc.avail_in = 0
    /\ algo = "zstd" => ~enc.flushing /\ enc.avail_in = 0

Encoding ==
    /\ Callable
    /\ enc.avail_in <= Len(cin)
    /\ frame = 0 => place = 0
    /\ frame # 0 => place <= sizes[frame]
    /\ IF open THEN InFrame ELSE BetweenFrames
    /\ ~enc.ending => Len(enc.held) <= Hold

(* All the bytes from the p-th on are on the way to the decoder. *)
InTransit(p) ==
    \E p1, p2, p3, p4 \in Nat :
       /\ Between(din, p, p1) /\ Between(file, p1, p2) /\ Between(cout, p2, p3)
       /\ Between(enc.held, p3, p4) /\ Between(cin, p4, written)

(* The decoder that the next call uses *)
Decoder == IF algo = "xz" /\ dret = 0 THEN NewDec ELSE dec

(* A decoder that has read b bytes of the frame g, or its end too *)
DecodesFrame(d, g, b) ==
    /\ ~d.over
    /\ IF g = Len(sizes) + 1 THEN b = 0 /\ ~d.ended
       ELSE b <= sizes[g] /\ (d.ended => b = sizes[g])

ReadTo(d, g, b) == StartOf(g) + (b + (IF d.ended THEN 1 ELSE 0))

Decoding ==
    \E g \in 1 .. Len(sizes) + 1, b \in Nat :
       /\ decompressed \o Decoder.held = DataBefore[g] \o Data(g, 0, b)
       /\ DecodesFrame(Decoder, g, b)
       /\ InTransit(ReadTo(Decoder, g, b))

AdaptedInv == AdaptedTypes /\ Encoding /\ Decoding /\ ZeroMeansComplete
----------------------------------------------------------------------------
(* The constants, one by one *)
LEMMA AdaptedConstants ==
    /\ Hold \in Nat /\ CinSize \in Nat /\ CoutSize \in Nat /\ DinSize \in Nat /\ DoutSize \in Nat
    /\ RecInSize \in Nat /\ RecInSize >= 1 /\ Frames \in Nat
    /\ FrameSizes \subseteq Nat /\ Algos \subseteq {"xz", "zstd"}
  BY AdaptedStreamsAssumption

(* The bytes of frames, and their ends, are on the wire. *)
LEMMA OnTheWire ==
    /\ \A f \in Nat, j \in Nat : <<f, j>> \in Wire
    /\ FrameEnd \in Wire
  BY DEF Wire, FrameEnd

(* Pieces of a frame *)
LEMMA DataType ==
    ASSUME NEW f \in Nat, NEW a \in Nat, NEW b \in Nat, a <= b
    PROVE  /\ Data(f, a, b) \in Seq(Wire) /\ Len(Data(f, a, b)) = b - a
           /\ \A k \in 1 .. b - a : Data(f, a, b)[k] = <<f, a + k>>
  <1>1. b - a \in Nat /\ \A k \in 1 .. b - a : a + k \in Nat
    OBVIOUS
  <1>2. \A k \in 1 .. b - a : <<f, a + k>> \in Wire
    BY <1>1, OnTheWire
  <1>3. Data(f, a, b) \in [1 .. b - a -> Wire]
    BY <1>2 DEF Data
  <1>4. Data(f, a, b) \in Seq(Wire) /\ Len(Data(f, a, b)) = b - a
    BY <1>1, <1>3
  <1> QED
    BY <1>4 DEF Data

(* Two pieces that meet are one. *)
LEMMA DataConcat ==
    ASSUME NEW f \in Nat, NEW a \in Nat, NEW b \in Nat, NEW c \in Nat, a <= b, b <= c
    PROVE  Data(f, a, b) \o Data(f, b, c) = Data(f, a, c)
  <1> DEFINE s == Data(f, a, b)
             t == Data(f, b, c)
             u == Data(f, a, c)
  <1>1. /\ s \in Seq(Wire) /\ t \in Seq(Wire) /\ u \in Seq(Wire)
        /\ Len(s) = b - a /\ Len(t) = c - b /\ Len(u) = c - a
        /\ \A k \in 1 .. b - a : s[k] = <<f, a + k>>
        /\ \A k \in 1 .. c - b : t[k] = <<f, b + k>>
        /\ \A k \in 1 .. c - a : u[k] = <<f, a + k>>
    <2>1. a <= c
      OBVIOUS
    <2> QED
      BY <2>1, DataType
  <1> HIDE DEF s, t, u
  <1>2. /\ s \o t \in Seq(Wire) /\ Len(s \o t) = Len(s) + Len(t)
        /\ \A k \in 1 .. Len(s) + Len(t) :
              (s \o t)[k] = IF k <= Len(s) THEN s[k] ELSE t[k - Len(s)]
    BY <1>1, ConcatProperties
  <1>3. ASSUME NEW k \in 1 .. Len(s \o t) PROVE (s \o t)[k] = u[k]
    <2>1. k \in 1 .. c - a /\ u[k] = <<f, a + k>> /\ Len(s) = b - a
      BY <1>1, <1>2
    <2>2. CASE k <= b - a
      BY <1>1, <1>2, <2>1, <2>2
    <2>3. CASE ~(k <= b - a)
      <3>1. k - (b - a) \in 1 .. c - b /\ b + (k - (b - a)) = a + k
        BY <2>1, <2>3
      <3>2. (s \o t)[k] = t[k - (b - a)]
        BY <1>1, <1>2, <2>3
      <3> QED
        BY <1>1, <2>1, <3>1, <3>2
    <2> QED
      BY <2>2, <2>3
  <1>4. Len(s \o t) = Len(u)
    BY <1>1, <1>2
  <1>5. s \o t = u
    BY <1>1, <1>2, <1>3, <1>4, SeqEqual
  <1> QED
    BY <1>5 DEF s, t, u

(* The first bytes of a frame *)
LEMMA FirstData ==
    ASSUME NEW f \in Nat, NEW n \in Nat
    PROVE  Data(f, 0, n) \in Seq(Wire) /\ Len(Data(f, 0, n)) = n
  <1>1. 0 \in Nat /\ 0 <= n /\ n - 0 = n
    OBVIOUS
  <1> QED
    BY <1>1, DataType

(* The first bytes of a buffer, and those after them *)
LEMMA FirstAndAfter ==
    ASSUME NEW s \in Seq(Wire), NEW n \in 0 .. Len(s)
    PROVE  /\ First(n, s) \in Seq(Wire) /\ Len(First(n, s)) = n
           /\ \A k \in 1 .. n : First(n, s)[k] = s[k]
           /\ After(n, s) \in Seq(Wire) /\ Len(After(n, s)) = Len(s) - n
           /\ \A k \in 1 .. Len(s) - n : After(n, s)[k] = s[n + k]
           /\ First(n, s) \o After(n, s) = s
  <1>1. Len(s) \in Nat /\ \A k \in 1 .. Len(s) : s[k] \in Wire
    BY ElementOfSeq, LenProperties
  <1>2. /\ First(n, s) \in Seq(Wire) /\ Len(First(n, s)) = n
        /\ \A k \in 1 .. n : First(n, s)[k] = s[k]
    <2>1. \A k \in 1 .. n : s[k] \in Wire
      BY <1>1
    <2>2. /\ SubSeq(s, 1, n) \in Seq(Wire)
          /\ Len(SubSeq(s, 1, n)) = IF 1 <= n THEN n - 1 + 1 ELSE 0
          /\ \A k \in 1 .. n - 1 + 1 : SubSeq(s, 1, n)[k] = s[1 + k - 1]
      BY <1>1, <2>1, SubSeqProperties
    <2> QED
      BY <1>1, <2>2 DEF First
  <1>3. /\ After(n, s) \in Seq(Wire) /\ Len(After(n, s)) = Len(s) - n
        /\ \A k \in 1 .. Len(s) - n : After(n, s)[k] = s[n + k]
    <2>1. \A k \in n + 1 .. Len(s) : s[k] \in Wire
      BY <1>1
    <2>2. /\ SubSeq(s, n + 1, Len(s)) \in Seq(Wire)
          /\ Len(SubSeq(s, n + 1, Len(s))) = IF n + 1 <= Len(s) THEN Len(s) - (n + 1) + 1 ELSE 0
          /\ \A k \in 1 .. Len(s) - (n + 1) + 1 :
                SubSeq(s, n + 1, Len(s))[k] = s[(n + 1) + k - 1]
      BY <1>1, <2>1, SubSeqProperties
    <2> QED
      BY <1>1, <2>2 DEF After
  <1>4. First(n, s) \o After(n, s) = s
    <2> DEFINE t == First(n, s)
               d == After(n, s)
    <2>0. t \in Seq(Wire) /\ d \in Seq(Wire) /\ Len(t) = n /\ Len(d) = Len(s) - n
      BY <1>2, <1>3
    <2>1. /\ t \o d \in Seq(Wire) /\ Len(t \o d) = Len(t) + Len(d)
          /\ \A k \in 1 .. Len(t) + Len(d) :
                (t \o d)[k] = IF k <= Len(t) THEN t[k] ELSE d[k - Len(t)]
      <3> HIDE DEF t, d
      <3> QED
        BY <2>0, ConcatProperties
    <2>2. ASSUME NEW k \in 1 .. Len(t \o d) PROVE (t \o d)[k] = s[k]
      <3>1. k \in 1 .. Len(s) /\ (t \o d)[k] = IF k <= n THEN t[k] ELSE d[k - n]
        <4> HIDE DEF t, d
        <4> QED
          BY <1>1, <2>0, <2>1
      <3>2. CASE k <= n
        BY <1>2, <3>1, <3>2
      <3>3. CASE ~(k <= n)
        <4>1. k - n \in 1 .. Len(s) - n /\ n + (k - n) = k
          BY <1>1, <3>1, <3>3
        <4> QED
          BY <1>3, <3>1, <3>3, <4>1
      <3> QED
        BY <3>2, <3>3
    <2>3. Len(t \o d) = Len(s)
      <3> HIDE DEF t, d
      <3> QED
        BY <1>1, <2>0, <2>1
    <2> HIDE DEF t, d
    <2>4. t \o d = s
      BY <2>1, <2>2, <2>3, SeqEqual
    <2> QED
      BY <2>4 DEF t, d
  <1> QED
    BY <1>2, <1>3, <1>4

(* What is a segment of all that is written stays one, without its first   *)
(* bytes and with those that follow it.                                    *)
LEMMA SegmentDrop ==
    ASSUME NEW s \in Seq(Wire), NEW p \in Nat, Segment(s, p), NEW n \in 0 .. Len(s)
    PROVE  Segment(After(n, s), p + n)
  <1>1. Len(s) \in Nat
    BY LenProperties
  <1>2. ASSUME NEW k \in 1 .. Len(After(n, s)) PROVE Belongs(After(n, s)[k], (p + n) + k)
    <2>1. k \in 1 .. Len(s) - n /\ After(n, s)[k] = s[n + k]
      BY FirstAndAfter
    <2>2. n + k \in 1 .. Len(s) /\ p + (n + k) = (p + n) + k
      BY <1>1, <2>1
    <2>3. Belongs(s[n + k], p + (n + k))
      BY <2>2 DEF Segment
    <2> QED
      BY <2>1, <2>2, <2>3
  <1> QED
    BY <1>2 DEF Segment

(* Two segments that meet are one. *)
LEMMA SegmentConcat ==
    ASSUME NEW s \in Seq(Wire), NEW t \in Seq(Wire), NEW p \in Nat,
           Segment(s, p), Segment(t, p + Len(s))
    PROVE  Segment(s \o t, p)
  <1>0. Len(s) \in Nat /\ Len(t) \in Nat
    BY LenProperties
  <1>1. /\ Len(s \o t) = Len(s) + Len(t)
        /\ \A k \in 1 .. Len(s) + Len(t) :
              (s \o t)[k] = IF k <= Len(s) THEN s[k] ELSE t[k - Len(s)]
    BY ConcatProperties
  <1>2. ASSUME NEW k \in 1 .. Len(s \o t) PROVE Belongs((s \o t)[k], p + k)
    <2>1. CASE k <= Len(s)
      <3>1. k \in 1 .. Len(s) /\ (s \o t)[k] = s[k]
        BY <1>0, <1>1, <2>1
      <3> QED
        BY <3>1 DEF Segment
    <2>2. CASE ~(k <= Len(s))
      <3> DEFINE j == k - Len(s)
      <3>1. j \in 1 .. Len(t) /\ (s \o t)[k] = t[j] /\ (p + Len(s)) + j = p + k
        BY <1>0, <1>1, <2>2
      <3> HIDE DEF j
      <3>2. Belongs(t[j], (p + Len(s)) + j)
        BY <3>1 DEF Segment
      <3> QED
        BY <3>1, <3>2
    <2> QED
      BY <2>1, <2>2
  <1> QED
    BY <1>2 DEF Segment

(* Concatenation as an operator of which only what is cited is known *)
Cat(s, t) == s \o t

(* It joins sequences of bytes, in whatever order it is applied. *)
LEMMA CatFacts ==
    /\ \A s \in Seq(Wire), t \in Seq(Wire) : Cat(s, t) \in Seq(Wire)
    /\ \A s \in Seq(Wire), t \in Seq(Wire), u \in Seq(Wire) :
          Cat(Cat(s, t), u) = Cat(s, Cat(t, u))
  <1>1. ASSUME NEW s \in Seq(Wire), NEW t \in Seq(Wire) PROVE Cat(s, t) \in Seq(Wire)
    BY ConcatProperties DEF Cat
  <1>2. ASSUME NEW s \in Seq(Wire), NEW t \in Seq(Wire), NEW u \in Seq(Wire)
        PROVE  Cat(Cat(s, t), u) = Cat(s, Cat(t, u))
    BY ConcatAssociative DEF Cat
  <1> QED
    BY <1>1, <1>2

(* and the next data of a frame goes on with those before. *)
LEMMA MoreOfFrame ==
    ASSUME NEW f \in Nat, NEW b \in Nat, NEW e \in Nat, b <= e, NEW s \in Seq(Wire)
    PROVE  (s \o Data(f, 0, b)) \o Data(f, b, e) = s \o Data(f, 0, e)
  <1>1. 0 \in Nat /\ 0 <= b
    OBVIOUS
  <1>2. Data(f, 0, b) \in Seq(Wire) /\ Data(f, b, e) \in Seq(Wire)
    BY FirstData, DataType
  <1>3. Data(f, 0, b) \o Data(f, b, e) = Data(f, 0, e)
    BY <1>1, DataConcat
  <1>4. Cat(Cat(s, Data(f, 0, b)), Data(f, b, e)) = Cat(s, Cat(Data(f, 0, b), Data(f, b, e)))
    BY <1>2, CatFacts
  <1> QED
    BY <1>3, <1>4 DEF Cat

----------------------------------------------------------------------------
(* The frames *)
HasFrames == sizes \in Seq(FrameSizes) /\ Len(sizes) >= 1

(* There is a frame, and each has a size. *)
LEMMA FrameSize ==
    ASSUME HasFrames
    PROVE  /\ Len(sizes) \in Nat /\ Len(sizes) >= 1
           /\ \A f \in 1 .. Len(sizes) : sizes[f] \in Nat
  <1>1. Len(sizes) \in Nat /\ \A f \in 1 .. Len(sizes) : sizes[f] \in FrameSizes
    BY ElementOfSeq, LenProperties DEF HasFrames
  <1> QED
    BY <1>1, AdaptedConstants DEF HasFrames

(* The data before a frame ends with that of the frame before it. *)
LEMMA DataRecurs ==
    ASSUME HasFrames
    PROVE  /\ DataBefore[0] = << >> /\ DataBefore[1] = << >>
           /\ \A f \in 0 .. Len(sizes) + 1 : DataBefore[f] \in Seq(Wire)
           /\ \A f \in 1 .. Len(sizes) :
                 DataBefore[f + 1] = DataBefore[f] \o Data(f, 0, sizes[f])
  <1> DEFINE n == Len(sizes) + 1
             R == Seq(Wire)
             Next1(s, f) == IF f = 0 THEN << >> ELSE s \o Data(f, 0, sizes[f])
             step == [x \in R \X (0 .. n - 1) |-> Next1(x[1], x[2])]
             Body(g) == [f \in 0 .. n |-> IF f <= 1 THEN << >>
                                          ELSE g[f - 1] \o Data(f - 1, 0, sizes[f - 1])]
  <1>1. n \in Nat /\ n >= 2 /\ n - 1 = Len(sizes) /\ << >> \in R
    BY FrameSize
  <1>2. ASSUME NEW s \in R, NEW f \in 0 .. n - 1 PROVE Next1(s, f) \in R
    <2>1. CASE f = 0
      BY <1>1, <2>1
    <2>2. CASE f # 0
      <3>1. f \in 1 .. Len(sizes) /\ f \in Nat
        BY <1>1, <2>2
      <3>2. Data(f, 0, sizes[f]) \in R
        BY <3>1, FrameSize, FirstData
      <3>3. s \o Data(f, 0, sizes[f]) \in R
        BY <3>2, ConcatProperties
      <3> QED
        BY <2>2, <3>3
    <2> QED
      BY <2>1, <2>2
  <1>3. step \in [R \X (0 .. n - 1) -> R]
    <2> HIDE DEF Next1, n, R
    <2> QED
      BY <1>2
  <1>4. PICK g : Accumulated(g, n, R, << >>, step)
    <2> HIDE DEF step, n, R
    <2> QED
      BY <1>1, <1>3, Accumulates
  <1>5. ASSUME NEW f \in 0 .. n
        PROVE  g[f] = IF f <= 1 THEN << >> ELSE g[f - 1] \o Data(f - 1, 0, sizes[f - 1])
    <2> HIDE DEF n, R
    <2>1. g \in [0 .. n -> R] /\ g[f] = IF f = 0 THEN << >> ELSE step[<<g[f - 1], f - 1>>]
      <3> HIDE DEF step
      <3> QED
        BY <1>4 DEF Accumulated
    <2>2. CASE f = 0
      BY <2>1, <2>2
    <2>3. CASE f # 0
      <3>1. f - 1 \in 0 .. n - 1 /\ f - 1 \in 0 .. n /\ (f - 1 = 0 <=> f <= 1)
        BY <1>1, <2>3
      <3>2. <<g[f - 1], f - 1>> \in R \X (0 .. n - 1)
        BY <2>1, <3>1
      <3>3. step[<<g[f - 1], f - 1>>] = Next1(g[f - 1], f - 1)
        <4> HIDE DEF Next1
        <4> QED
          BY <3>2
      <3> HIDE DEF step
      <3>4. g[f] = Next1(g[f - 1], f - 1)
        BY <2>1, <2>3, <3>3
      <3> QED
        BY <3>1, <3>4
    <2> QED
      BY <2>2, <2>3
  <1>6. g = Body(g)
    <2> HIDE DEF n, R, step
    <2>1. g \in [0 .. n -> R]
      BY <1>4 DEF Accumulated
    <2> QED
      BY <1>5, <2>1
  <1>7. DataBefore = Body(DataBefore)
    <2> HIDE DEF step, R
    <2> QED
      BY <1>6 DEF DataBefore
  <1>8. \A f \in 0 .. n : DataBefore[f] = IF f <= 1 THEN << >>
                             ELSE DataBefore[f - 1] \o Data(f - 1, 0, sizes[f - 1])
    <2>1. \A f \in 0 .. n : Body(DataBefore)[f] = IF f <= 1 THEN << >>
                             ELSE DataBefore[f - 1] \o Data(f - 1, 0, sizes[f - 1])
      <3> HIDE DEF n
      <3> QED
        OBVIOUS
    <2> HIDE DEF Body
    <2> QED
      BY <1>7, <2>1
  <1> HIDE DEF step, Next1, Body, n
  <1>9. DataBefore[0] = << >> /\ DataBefore[1] = << >>
    <2>1. 0 \in 0 .. n /\ 1 \in 0 .. n
      BY <1>1
    <2> QED
      BY <1>8, <2>1
  <1>10. \A f \in 1 .. Len(sizes) : DataBefore[f + 1] = DataBefore[f] \o Data(f, 0, sizes[f])
    <2> SUFFICES ASSUME NEW f \in 1 .. Len(sizes)
                 PROVE  DataBefore[f + 1] = DataBefore[f] \o Data(f, 0, sizes[f])
      OBVIOUS
    <2>1. f + 1 \in 0 .. n /\ ~(f + 1 <= 1) /\ (f + 1) - 1 = f
      BY <1>1
    <2>2. DataBefore[f + 1] = DataBefore[(f + 1) - 1] \o Data((f + 1) - 1, 0, sizes[(f + 1) - 1])
      BY <1>8, <2>1
    <2> QED
      BY <2>1, <2>2
  <1> DEFINE P == {f \in Nat : f <= n => DataBefore[f] \in R}
  <1>11. 0 \in P
    BY <1>1, <1>9
  <1>12. ASSUME NEW f \in P PROVE f + 1 \in P
    <2>1. f \in Nat /\ f + 1 \in Nat
      OBVIOUS
    <2>2. CASE f = 0
      BY <1>1, <1>9, <2>2
    <2>3. CASE f # 0 /\ f + 1 <= n
      <3>1. f \in 1 .. Len(sizes) /\ DataBefore[f] \in R
        BY <1>1, <2>1, <2>3
      <3>2. Data(f, 0, sizes[f]) \in R
        BY <2>1, <3>1, FrameSize, FirstData
      <3>3. DataBefore[f] \o Data(f, 0, sizes[f]) \in R
        BY <3>1, <3>2, ConcatProperties
      <3>4. DataBefore[f + 1] \in R
        BY <1>10, <3>1, <3>3
      <3> QED
        BY <2>1, <3>4
    <2> QED
      BY <2>1, <2>2, <2>3
  <1>13. P = Nat
    <2>1. P \in SUBSET Nat
      OBVIOUS
    <2> HIDE DEF P
    <2> QED
      BY <1>11, <1>12, <2>1, Induction
  <1>14. \A f \in 0 .. n : DataBefore[f] \in R
    <2> SUFFICES ASSUME NEW f \in 0 .. n PROVE DataBefore[f] \in R
      OBVIOUS
    <2>1. f \in Nat /\ f <= n
      BY <1>1
    <2>2. f \in P
      BY <1>13, <2>1
    <2> QED
      BY <2>1, <2>2
  <1> QED
    BY <1>9, <1>10, <1>14 DEF n

(* Where frames begin: each where the one before it ends. *)
LEMMA FramesFollow ==
    ASSUME HasFrames
    PROVE  /\ StartOf(1) = 0
           /\ \A f \in 1 .. Len(sizes) + 1 : StartOf(f) \in Nat
           /\ \A f \in 1 .. Len(sizes) : StartOf(f + 1) = StartOf(f) + (sizes[f] + 1)
  <1>1. Len(sizes) \in Nat
    BY FrameSize
  <1>2. StartOf(1) = 0
    <2>1. Len(DataBefore[1]) = 0
      BY DataRecurs, EmptySeq
    <2> QED
      BY <1>1, <2>1 DEF StartOf
  <1>3. ASSUME NEW f \in 1 .. Len(sizes) + 1 PROVE StartOf(f) \in Nat
    <2>1. DataBefore[f] \in Seq(Wire)
      <3>1. f \in 0 .. Len(sizes) + 1
        BY <1>1
      <3> QED
        BY <3>1, DataRecurs
    <2>2. Len(DataBefore[f]) \in Nat /\ f - 1 \in Nat
      BY <1>1, <2>1, LenProperties
    <2> QED
      BY <2>2 DEF StartOf
  <1>4. ASSUME NEW f \in 1 .. Len(sizes)
        PROVE  StartOf(f + 1) = StartOf(f) + (sizes[f] + 1)
    <2>1. f \in Nat /\ f \in 0 .. Len(sizes) + 1 /\ sizes[f] \in Nat
      BY <1>1, FrameSize
    <2>2. DataBefore[f] \in Seq(Wire) /\ Data(f, 0, sizes[f]) \in Seq(Wire)
          /\ Len(Data(f, 0, sizes[f])) = sizes[f]
      BY <2>1, DataRecurs, FirstData
    <2>3. Len(DataBefore[f] \o Data(f, 0, sizes[f]))
            = Len(DataBefore[f]) + Len(Data(f, 0, sizes[f])) /\ Len(DataBefore[f]) \in Nat
      BY <2>2, ConcatProperties, LenProperties
    <2> DEFINE a == Len(DataBefore[f])
               b == Len(DataBefore[f + 1])
    <2>4. StartOf(f) = a + (f - 1) /\ StartOf(f + 1) = b + ((f + 1) - 1)
      BY DEF StartOf
    <2>5. b = a + sizes[f] /\ a \in Nat
      BY <2>1, <2>2, <2>3, DataRecurs
    <2> HIDE DEF a, b
    <2> QED
      BY <2>1, <2>4, <2>5
  <1> QED
    BY <1>2, <1>3, <1>4

(* No two frames overlap. *)
LEMMA FramesApart ==
    ASSUME HasFrames, NEW f \in 1 .. Len(sizes), NEW g \in 1 .. Len(sizes) + 1, f < g
    PROVE  StartOf(f) + (sizes[f] + 1) <= StartOf(g)
  <1> DEFINE P == {k \in Nat : f + 1 + k <= Len(sizes) + 1 =>
                                 StartOf(f + 1) <= StartOf(f + 1 + k)}
  <1>1. Len(sizes) \in Nat /\ \A k \in 1 .. Len(sizes) : sizes[k] \in Nat
    BY FrameSize
  <1>2. 0 \in P
    <2>1. f + 1 + 0 = f + 1 /\ f + 1 \in 1 .. Len(sizes) + 1
      BY <1>1
    <2>2. StartOf(f + 1) \in Nat
      BY <2>1, FramesFollow
    <2> QED
      BY <2>1, <2>2
  <1>3. ASSUME NEW k \in P PROVE k + 1 \in P
    <2>1. CASE f + 1 + (k + 1) <= Len(sizes) + 1
      <3> DEFINE j == f + 1 + k
      <3>1. j \in 1 .. Len(sizes) /\ f + 1 + (k + 1) = j + 1 /\ k \in Nat
            /\ j \in 1 .. Len(sizes) + 1 /\ f + 1 \in 1 .. Len(sizes) + 1
        BY <1>1, <2>1
      <3>2. StartOf(f + 1) <= StartOf(j)
        BY <1>1, <3>1
      <3> HIDE DEF j
      <3>3. StartOf(j + 1) = StartOf(j) + (sizes[j] + 1) /\ StartOf(j) \in Nat
            /\ StartOf(f + 1) \in Nat /\ sizes[j] \in Nat
        BY <1>1, <3>1, FramesFollow
      <3>4. StartOf(f + 1) <= StartOf(j + 1)
        BY <1>1, <3>2, <3>3
      <3> QED
        BY <3>1, <3>4
    <2> QED
      BY <2>1
  <1>4. P = Nat
    <2>1. P \in SUBSET Nat
      OBVIOUS
    <2> HIDE DEF P
    <2> QED
      BY <1>2, <1>3, <2>1, Induction
  <1>5. g - (f + 1) \in Nat /\ f + 1 + (g - (f + 1)) = g /\ g <= Len(sizes) + 1
    BY <1>1
  <1>6. StartOf(f + 1) <= StartOf(g)
    <2>1. g - (f + 1) \in P
      BY <1>4, <1>5
    <2> QED
      BY <1>5, <2>1
  <1> QED
    BY <1>6, FramesFollow

----------------------------------------------------------------------------
(* The data up to a place of a frame *)
UpTo(f, n) == DataBefore[f] \o Data(f, 0, n)

(* and the sequences that go on after another. *)
Extends(s, t) == \E u \in Seq(Wire) : t = s \o u

(* A sequence is a prefix of one that goes on after it, *)
LEMMA ExtendsIsPrefix ==
    ASSUME NEW s \in Seq(Wire), NEW t, Extends(s, t)
    PROVE  Chan!IsPrefix(s, t)
  <1>1. PICK u \in Seq(Wire) : t = s \o u
    BY DEF Extends
  <1> DEFINE n == Len(s)
  <1>2. n \in Nat /\ Len(u) \in Nat
    BY LenProperties
  <1>3. /\ t \in Seq(Wire) /\ Len(t) = n + Len(u)
        /\ \A k \in 1 .. n + Len(u) : t[k] = IF k <= n THEN s[k] ELSE u[k - n]
    BY <1>1, ConcatProperties
  <1>4. n \in 0 .. Len(s) /\ n \in 0 .. Len(t)
    BY <1>2, <1>3
  <1>5. /\ First(n, s) \in Seq(Wire) /\ Len(First(n, s)) = n
        /\ \A k \in 1 .. n : First(n, s)[k] = s[k]
    <2> HIDE DEF n
    <2> QED
      BY <1>4, FirstAndAfter
  <1>6. /\ First(n, t) \in Seq(Wire) /\ Len(First(n, t)) = n
        /\ \A k \in 1 .. n : First(n, t)[k] = t[k]
    <2> HIDE DEF n
    <2> QED
      BY <1>3, <1>4, FirstAndAfter
  <1>7. First(n, s) = First(n, t)
    <2> DEFINE v == First(n, s)
               w == First(n, t)
    <2>1. \A k \in 1 .. n : v[k] = w[k]
      BY <1>2, <1>3, <1>5, <1>6
    <2>2. v \in Seq(Wire) /\ w \in Seq(Wire) /\ Len(v) = n /\ Len(w) = n
      BY <1>5, <1>6
    <2> HIDE DEF v, w, n
    <2>3. v = w
      BY <2>1, <2>2, SeqEqual
    <2> QED
      BY <2>3 DEF v, w
  <1>8. SubSeq(s, 1, Len(s)) = SubSeq(t, 1, Len(s)) /\ Len(s) <= Len(t)
    BY <1>2, <1>3, <1>7 DEF First
  <1> QED
    BY <1>8 DEF Chan!IsPrefix

(* of itself, *)
LEMMA ExtendsSelf == ASSUME NEW s \in Seq(Wire) PROVE Extends(s, s)
  <1>1. << >> \in Seq(Wire) /\ s \o << >> = s
    BY EmptySeq, ConcatEmptySeq
  <1> QED
    BY <1>1 DEF Extends

(* and of one that goes on after that. *)
LEMMA ExtendsTwice ==
    ASSUME NEW s \in Seq(Wire), NEW t, NEW v, Extends(s, t), Extends(t, v)
    PROVE  Extends(s, v)
  <1>1. PICK a \in Seq(Wire) : t = s \o a
    BY DEF Extends
  <1>2. PICK b \in Seq(Wire) : v = t \o b
    BY DEF Extends
  <1>3. a \o b \in Seq(Wire)
    BY ConcatProperties
  <1>4. Cat(Cat(s, a), b) = Cat(s, Cat(a, b))
    BY CatFacts
  <1>5. v = s \o (a \o b)
    BY <1>1, <1>2, <1>4 DEF Cat
  <1> QED
    BY <1>3, <1>5 DEF Extends

(* The data up to a place is a sequence of bytes. *)
LEMMA UpToType ==
    ASSUME HasFrames, NEW f \in 0 .. Len(sizes) + 1, NEW n \in Nat
    PROVE  UpTo(f, n) \in Seq(Wire) /\ DataBefore[f] \in Seq(Wire) /\ UpTo(f, 0) = DataBefore[f]
  <1>1. f \in Nat /\ 0 \in Nat
    BY FrameSize
  <1>2. DataBefore[f] \in Seq(Wire)
    BY DataRecurs
  <1>3. UpTo(f, n) \in Seq(Wire)
    <2>1. Data(f, 0, n) \in Seq(Wire)
      BY <1>1, FirstData
    <2> QED
      BY <1>2, <2>1, ConcatProperties DEF UpTo
  <1>4. UpTo(f, 0) = DataBefore[f]
    <2>1. Data(f, 0, 0) \in Seq(Wire) /\ Len(Data(f, 0, 0)) = 0
      BY <1>1, FirstData
    <2>2. Data(f, 0, 0) = << >>
      BY <2>1, EmptySeq
    <2> QED
      BY <1>2, <2>2, ConcatEmptySeq DEF UpTo
  <1> QED
    BY <1>2, <1>3, <1>4

(* More of the same frame goes on after less of it. *)
LEMMA UpToExtends ==
    ASSUME HasFrames, NEW f \in 0 .. Len(sizes) + 1, NEW m \in Nat, NEW n \in Nat, m <= n
    PROVE  Extends(UpTo(f, m), UpTo(f, n))
  <1>1. f \in Nat /\ DataBefore[f] \in Seq(Wire)
    <2>1. Len(sizes) \in Nat
      BY FrameSize
    <2>2. f \in Nat
      BY <2>1
    <2>3. DataBefore[f] \in Seq(Wire)
      BY DataRecurs
    <2> QED
      BY <2>2, <2>3
  <1>2. UpTo(f, m) \o Data(f, m, n) = UpTo(f, n)
    BY <1>1, MoreOfFrame DEF UpTo
  <1>3. Data(f, m, n) \in Seq(Wire)
    BY <1>1, DataType
  <1> QED
    BY <1>2, <1>3 DEF Extends

(* The data before a later frame goes on after that before an earlier one. *)
LEMMA LaterExtends ==
    ASSUME HasFrames, NEW f \in 1 .. Len(sizes) + 1, NEW g \in 1 .. Len(sizes) + 1, f <= g
    PROVE  Extends(DataBefore[f], DataBefore[g])
  <1> DEFINE P == {k \in Nat : f + k <= Len(sizes) + 1 =>
                                 Extends(DataBefore[f], DataBefore[f + k])}
  <1>1. Len(sizes) \in Nat /\ f \in 0 .. Len(sizes) + 1
    BY FrameSize
  <1>2. DataBefore[f] \in Seq(Wire)
    BY <1>1, DataRecurs
  <1>3. 0 \in P
    <2>1. f + 0 = f
      BY <1>1
    <2> QED
      BY <1>2, <2>1, ExtendsSelf
  <1>4. ASSUME NEW k \in P PROVE k + 1 \in P
    <2>1. CASE f + (k + 1) <= Len(sizes) + 1
      <3> DEFINE j == f + k
      <3>1. j \in 1 .. Len(sizes) /\ f + (k + 1) = j + 1 /\ k \in Nat
        BY <1>1, <2>1
      <3>2. Extends(DataBefore[f], DataBefore[j])
        BY <1>1, <3>1
      <3> HIDE DEF j
      <3>3. DataBefore[j + 1] = DataBefore[j] \o Data(j, 0, sizes[j])
        BY <3>1, DataRecurs
      <3>4. Data(j, 0, sizes[j]) \in Seq(Wire)
        <4>1. j \in Nat /\ sizes[j] \in Nat
          BY <3>1, FrameSize
        <4> QED
          BY <4>1, FirstData
      <3>5. Extends(DataBefore[j], DataBefore[j + 1])
        BY <3>3, <3>4 DEF Extends
      <3>6. Extends(DataBefore[f], DataBefore[j + 1])
        BY <1>2, <3>2, <3>5, ExtendsTwice
      <3> QED
        BY <3>1, <3>6
    <2> QED
      BY <2>1
  <1>5. P = Nat
    <2>1. P \in SUBSET Nat
      OBVIOUS
    <2> HIDE DEF P
    <2> QED
      BY <1>3, <1>4, <2>1, Induction
  <1>6. g - f \in Nat /\ f + (g - f) = g /\ g <= Len(sizes) + 1
    BY <1>1
  <1>7. g - f \in P
    BY <1>5, <1>6
  <1> QED
    BY <1>6, <1>7

(* The data up to a later place goes on after that up to an earlier one. *)
LEMMA BeforeExtends ==
    ASSUME HasFrames, NEW f \in 1 .. Len(sizes), NEW g \in 1 .. Len(sizes),
           NEW m \in Nat, NEW n \in Nat, m <= sizes[f], f < g \/ (f = g /\ m <= n)
    PROVE  Extends(UpTo(f, m), UpTo(g, n))
  <1>1. /\ Len(sizes) \in Nat /\ f \in 0 .. Len(sizes) + 1 /\ g \in 0 .. Len(sizes) + 1
        /\ sizes[f] \in Nat /\ 0 \in Nat /\ 0 <= n
    BY FrameSize
  <1>2. CASE f = g /\ m <= n
    BY <1>1, <1>2, UpToExtends
  <1>3. CASE f < g
    <2>1. f + 1 \in 1 .. Len(sizes) + 1 /\ g \in 1 .. Len(sizes) + 1 /\ f + 1 <= g
      BY <1>1, <1>3
    <2>2. Extends(UpTo(f, m), UpTo(f, sizes[f]))
      BY <1>1, UpToExtends
    <2>3. UpTo(f, sizes[f]) = DataBefore[f + 1]
      BY DataRecurs DEF UpTo
    <2>4. Extends(DataBefore[f + 1], DataBefore[g])
      BY <2>1, LaterExtends
    <2>5. Extends(DataBefore[g], UpTo(g, n))
      BY <1>1, UpToExtends, UpToType
    <2>6. UpTo(f, m) \in Seq(Wire)
      BY <1>1, UpToType
    <2>7. Extends(UpTo(f, m), DataBefore[g])
      BY <2>2, <2>3, <2>4, <2>6, ExtendsTwice
    <2> QED
      BY <2>5, <2>6, <2>7, ExtendsTwice
  <1> QED
    BY <1>2, <1>3

----------------------------------------------------------------------------
(* What follows a byte: nothing, *)
LEMMA BetweenNone == ASSUME NEW p \in Nat PROVE Between(<< >>, p, p)
  BY EmptySeq DEF Between, Segment

(* more, *)
LEMMA BetweenMore ==
    ASSUME NEW s \in Seq(Wire), NEW t \in Seq(Wire), NEW p \in Nat, NEW q \in Nat,
           Between(s, p, q), Segment(t, q)
    PROVE  Between(s \o t, p, q + Len(t))
  <1>1. Len(s) \in Nat /\ Len(t) \in Nat /\ Len(s \o t) = Len(s) + Len(t)
    BY LenProperties, ConcatProperties
  <1>2. q = p + Len(s) /\ Segment(s, p)
    BY DEF Between
  <1>3. Segment(s \o t, p)
    BY <1>2, SegmentConcat
  <1>4. q + Len(t) = p + Len(s \o t)
    BY <1>1, <1>2
  <1> QED
    BY <1>3, <1>4 DEF Between

(* or less, when its first bytes are taken away; *)
LEMMA BetweenLess ==
    ASSUME NEW t \in Seq(Wire), NEW q \in Nat, NEW r \in Nat, Between(t, q, r),
           NEW n \in 0 .. Len(t)
    PROVE  /\ Segment(First(n, t), q)
           /\ Between(After(n, t), q + n, r)
  <1>1. /\ Len(t) \in Nat /\ r = q + Len(t) /\ Segment(t, q)
        /\ Len(First(n, t)) = n /\ \A k \in 1 .. n : First(n, t)[k] = t[k]
        /\ Len(After(n, t)) = Len(t) - n
    BY LenProperties, FirstAndAfter DEF Between
  <1>2. Segment(First(n, t), q)
    <2> SUFFICES ASSUME NEW k \in 1 .. n PROVE Belongs(First(n, t)[k], q + k)
      BY <1>1 DEF Segment
    <2>1. k \in 1 .. Len(t)
      BY <1>1
    <2> QED
      BY <1>1, <2>1 DEF Segment
  <1>3. Segment(After(n, t), q + n)
    BY <1>1, SegmentDrop
  <1>4. r = (q + n) + Len(After(n, t))
    BY <1>1
  <1> QED
    BY <1>2, <1>3, <1>4 DEF Between

(* they can be moved to what is before, *)
LEMMA BetweenMoves ==
    ASSUME NEW s \in Seq(Wire), NEW t \in Seq(Wire),
           NEW p \in Nat, NEW q \in Nat, NEW r \in Nat, Between(s, p, q), Between(t, q, r),
           NEW n \in 0 .. Len(t)
    PROVE  Between(s \o First(n, t), p, q + n) /\ Between(After(n, t), q + n, r)
  <1>1. First(n, t) \in Seq(Wire) /\ Len(First(n, t)) = n
    BY FirstAndAfter
  <1>2. Segment(First(n, t), q) /\ Between(After(n, t), q + n, r)
    BY BetweenLess
  <1> QED
    BY <1>1, <1>2, BetweenMore

(* and so can all of it. *)
LEMMA BetweenBoth ==
    ASSUME NEW s \in Seq(Wire), NEW t \in Seq(Wire),
           NEW p \in Nat, NEW q \in Nat, NEW r \in Nat, Between(s, p, q), Between(t, q, r)
    PROVE  Between(s \o t, p, r) /\ Between(<< >>, r, r)
  <1>1. r = q + Len(t) /\ Segment(t, q)
    BY DEF Between
  <1> QED
    BY <1>1, BetweenMore, BetweenNone

(* What is in a frame is in no other, *)
LEMMA OneFrame ==
    ASSUME HasFrames, NEW f \in 1 .. Len(sizes), NEW g \in 1 .. Len(sizes),
           NEW j \in 1 .. sizes[f] + 1, NEW k \in 1 .. sizes[g] + 1,
           StartOf(f) + j = StartOf(g) + k
    PROVE  f = g /\ j = k
  <1>1. /\ Len(sizes) \in Nat /\ sizes[f] \in Nat /\ sizes[g] \in Nat
        /\ f \in 1 .. Len(sizes) + 1 /\ g \in 1 .. Len(sizes) + 1
    BY FrameSize
  <1>2. StartOf(f) \in Nat /\ StartOf(g) \in Nat
    BY <1>1, FramesFollow
  <1>3. CASE f < g
    <2>1. StartOf(f) + (sizes[f] + 1) <= StartOf(g)
      BY <1>1, <1>3, FramesApart
    <2> QED
      BY <1>1, <1>2, <2>1
  <1>4. CASE g < f
    <2>1. StartOf(g) + (sizes[g] + 1) <= StartOf(f)
      BY <1>1, <1>4, FramesApart
    <2> QED
      BY <1>1, <1>2, <2>1
  <1>5. CASE f = g
    BY <1>1, <1>2, <1>5
  <1> QED
    BY <1>1, <1>3, <1>4, <1>5

(* and so the data of a frame belongs where the frame has it, *)
LEMMA DataBelongs ==
    ASSUME HasFrames, NEW f \in 1 .. Len(sizes), NEW a \in Nat, NEW b \in Nat,
           a <= b, b <= sizes[f]
    PROVE  Segment(Data(f, a, b), StartOf(f) + a)
  <1>1. /\ Len(sizes) \in Nat /\ \A g \in 1 .. Len(sizes) : sizes[g] \in Nat /\ StartOf(g) \in Nat
    BY FrameSize, FramesFollow
  <1>2. Len(Data(f, a, b)) = b - a /\ \A k \in 1 .. b - a : Data(f, a, b)[k] = <<f, a + k>>
    <2>1. f \in Nat
      BY <1>1
    <2> QED
      BY <2>1, DataType
  <1>3. ASSUME NEW k \in 1 .. b - a PROVE Belongs(<<f, a + k>>, (StartOf(f) + a) + k)
    <2> DEFINE at == a + k
    <2>1. at \in 1 .. sizes[f] /\ at \in 1 .. sizes[f] + 1 /\ (StartOf(f) + a) + k = StartOf(f) + at
      BY <1>1
    <2> HIDE DEF at
    <2>2. ASSUME NEW g \in 1 .. Len(sizes), NEW j \in 1 .. sizes[g] + 1,
                 StartOf(f) + at = StartOf(g) + j
          PROVE  f = g /\ at = j
      BY <2>1, <2>2, OneFrame
    <2>3. ASSUME NEW g \in 1 .. Len(sizes)
          PROVE  /\ \A j \in 1 .. sizes[g] : StartOf(f) + at = StartOf(g) + j => <<f, at>> = <<g, j>>
                 /\ StartOf(f) + at = StartOf(g) + (sizes[g] + 1) => <<f, at>> = FrameEnd
      <3>1. sizes[g] \in Nat
        BY <1>1
      <3>2. ASSUME NEW j \in 1 .. sizes[g], StartOf(f) + at = StartOf(g) + j
            PROVE  <<f, at>> = <<g, j>>
        <4>1. j \in 1 .. sizes[g] + 1
          BY <3>1
        <4> QED
          BY <2>2, <3>2, <4>1
      <3>3. StartOf(f) + at # StartOf(g) + (sizes[g] + 1)
        <4>1. sizes[g] + 1 \in 1 .. sizes[g] + 1
          BY <3>1
        <4>2. f = g /\ at = sizes[g] + 1 => FALSE
          BY <2>1, <3>1
        <4> QED
          BY <2>2, <4>1, <4>2
      <3> QED
        BY <3>2, <3>3
    <2>4. Belongs(<<f, at>>, StartOf(f) + at)
      BY <2>3 DEF Belongs
    <2> QED
      BY <2>1, <2>4 DEF at
  <1> QED
    BY <1>2, <1>3 DEF Segment

(* and the end of a frame after it. *)
LEMMA EndBelongs ==
    ASSUME HasFrames, NEW f \in 1 .. Len(sizes)
    PROVE  Segment(<<FrameEnd>>, StartOf(f) + sizes[f])
  <1>1. /\ Len(sizes) \in Nat /\ \A g \in 1 .. Len(sizes) : sizes[g] \in Nat /\ StartOf(g) \in Nat
    BY FrameSize, FramesFollow
  <1> DEFINE at == sizes[f] + 1
  <1>2. at \in 1 .. sizes[f] + 1 /\ (StartOf(f) + sizes[f]) + 1 = StartOf(f) + at
    BY <1>1
  <1>3. ASSUME NEW g \in 1 .. Len(sizes), NEW j \in 1 .. sizes[g],
               StartOf(f) + at = StartOf(g) + j
        PROVE  FALSE
    <2>1. sizes[g] \in Nat /\ sizes[f] \in Nat /\ j \in 1 .. sizes[g] + 1
      BY <1>1
    <2>2. f = g /\ at = j
      <3> HIDE DEF at
      <3> QED
        BY <1>2, <1>3, <2>1, OneFrame
    <2> QED
      BY <2>1, <2>2
  <1> HIDE DEF at
  <1>4. Belongs(FrameEnd, StartOf(f) + at)
    BY <1>3 DEF Belongs
  <1>5. Len(<<FrameEnd>>) = 1 /\ <<FrameEnd>>[1] = FrameEnd
    OBVIOUS
  <1>6. ASSUME NEW k \in 1 .. 1 PROVE Belongs(<<FrameEnd>>[k], (StartOf(f) + sizes[f]) + k)
    <2>1. k = 1
      OBVIOUS
    <2> QED
      BY <1>2, <1>4, <1>5, <2>1
  <1> QED
    BY <1>5, <1>6 DEF Segment

(* No step changes the frames. *)
LEMMA SameFrames ==
    ASSUME sizes' = sizes
    PROVE  /\ DataBefore' = DataBefore
           /\ \A f : StartOf(f)' = StartOf(f)
  <1>1. DataBefore' = DataBefore
    BY DEF DataBefore
  <1> QED
    BY <1>1 DEF StartOf

----------------------------------------------------------------------------
(* The codecs: what a call may do.                                         *)
(*                                                                         *)
(* Of what an encoder holds and reads it gives out the first bytes. *)
GivesFirst(r, e, kept, room) ==
    \E m \in 0 .. Len(kept) :
       /\ m <= room /\ r.out = First(m, kept)
       /\ r.ctx.held = After(m, kept)
       /\ r.ctx.avail_in = e.avail_in

(* The smaller of two numbers *)
LEMMA LeastOfTwo == ASSUME NEW a \in Nat, NEW b \in Nat
                    PROVE  Least(a, b) \in Nat /\ Least(a, b) <= a /\ Least(a, b) <= b
                           /\ (a # 0 /\ b # 0 => Least(a, b) # 0)
  BY DEF Least

Encoder ==
    [held : Seq(Wire), flushing : BOOLEAN, ending : BOOLEAN, over : BOOLEAN, avail_in : Nat]

(* A refused call changes nothing: it reads and gives out no bytes.        *)
LEMMA NoneMoved ==
    ASSUME NEW e \in Encoder, NEW room \in Nat, NEW r \in Refused(e)
    PROVE  /\ r.ctx = e /\ r.used = 0 /\ r.out = << >> /\ r.ret = "PROG_ERROR"
           /\ GivesFirst(r, e, e.held, room)
           /\ \A s \in Seq(Wire) : First(0, s) = << >> /\ After(0, s) = s
  <1>1. r.ctx = e /\ r.used = 0 /\ r.out = << >> /\ r.ret = "PROG_ERROR"
    BY DEF Refused, Results
  <1>2. ASSUME NEW s \in Seq(Wire) PROVE First(0, s) = << >> /\ After(0, s) = s /\ 0 \in 0 .. Len(s)
    <2>1. Len(s) \in Nat
      BY LenProperties
    <2>2. 0 \in 0 .. Len(s)
      BY <2>1
    <2>3. /\ First(0, s) \in Seq(Wire) /\ Len(First(0, s)) = 0 /\ After(0, s) \in Seq(Wire)
          /\ First(0, s) \o After(0, s) = s
      BY <2>2, FirstAndAfter
    <2>4. First(0, s) = << >>
      BY <2>3, EmptySeq
    <2> QED
      BY <2>2, <2>3, <2>4, ConcatEmptySeq
  <1>3. GivesFirst(r, e, e.held, room)
    <2>1. e.held \in Seq(Wire)
      BY DEF Encoder
    <2>2. First(0, e.held) = << >> /\ After(0, e.held) = e.held /\ 0 \in 0 .. Len(e.held) /\ 0 <= room
      BY <1>2, <2>1
    <2> QED
      BY <1>1, <2>2 DEF GivesFirst
  <1> QED
    BY <1>1, <1>2, <1>3

(* lzma_code(strm, LZMA_RUN): some of the input goes the same way, unless  *)
(* that is refused; and all is well if there is room.                      *)
LEMMA RunMoves ==
    ASSUME NEW e \in Encoder, ~e.over, ~e.ending, Len(e.held) <= Hold,
           NEW input \in Seq(Wire), NEW room \in Nat, NEW r \in Run(e, input, room)
    PROVE  /\ r.ctx \in Encoder /\ ~r.ctx.over /\ ~r.ctx.ending /\ r.ctx.flushing = e.flushing
           /\ r.used \in 0 .. Len(input)
           /\ GivesFirst(r, e, e.held \o First(r.used, input), room)
           /\ Len(r.ctx.held) <= Hold
           /\ ~Busy(e) => /\ r.ret # "PROG_ERROR"
                          /\ input # << >> /\ room > 0 => r.ret = "OK"
  <1>0. CASE Busy(e)
    <2>1. r \in Refused(e)
      BY <1>0 DEF Run
    <2>2. /\ r.ctx = e /\ r.used = 0 /\ GivesFirst(r, e, e.held, room)
          /\ First(0, input) = << >>
      BY <2>1, NoneMoved
    <2>3. e.held \in Seq(Wire) /\ Len(input) \in Nat
      BY LenProperties DEF Encoder
    <2>4. e.held \o First(r.used, input) = e.held /\ 0 \in 0 .. Len(input)
      BY <2>2, <2>3, ConcatEmptySeq
    <2> QED
      BY <1>0, <2>2, <2>4
  <1>1. CASE ~Busy(e)
    <2> DEFINE kept(n) == e.held \o First(n, input)
               Outs(n, m) == Results([e EXCEPT !.held = After(m, kept(n))], n, First(m, kept(n)),
                                     OKOr(n + m > 0))
               Moves(n) == {m \in 0 .. Least(room, Len(kept(n))) :
                               /\ n = Len(input) \/ m = room
                               /\ Len(kept(n)) - m <= Hold}
    <2>1. Run(e, input, room) = UNION {UNION {Outs(n, m) : m \in Moves(n)} : n \in 0 .. Len(input)}
      BY <1>1 DEF Run
    <2> HIDE DEF Outs, Moves
    <2>2. PICK n \in 0 .. Len(input) : r \in UNION {Outs(n, m) : m \in Moves(n)}
      BY <2>1
    <2>3. PICK m \in Moves(n) : r \in Outs(n, m)
      BY <2>2
    <2>4. /\ r.ctx = [e EXCEPT !.held = After(m, kept(n))]
          /\ r.used = n /\ r.out = First(m, kept(n)) /\ r.ret \in OKOr(n + m > 0)
          /\ n = Len(input) \/ m = room
      <3> HIDE DEF kept
      <3> QED
        BY <2>3 DEF Outs, Moves, Results
    <2>5. kept(n) \in Seq(Wire) /\ Len(kept(n)) \in Nat
      <3>1. First(n, input) \in Seq(Wire) /\ e.held \in Seq(Wire)
        BY FirstAndAfter DEF Encoder
      <3> QED
        BY <3>1, ConcatProperties, LenProperties
    <2>6. m \in 0 .. Len(kept(n)) /\ m <= room /\ Len(kept(n)) - m <= Hold
      <3> HIDE DEF kept
      <3>1. /\ m \in 0 .. Least(room, Len(kept(n))) /\ Len(kept(n)) - m <= Hold
        BY <2>3 DEF Moves
      <3>2. /\ Least(room, Len(kept(n))) \in Nat
            /\ Least(room, Len(kept(n))) <= room /\ Least(room, Len(kept(n))) <= Len(kept(n))
        BY <2>5, LeastOfTwo
      <3> QED
        BY <2>5, <3>1, <3>2
    <2> HIDE DEF kept
    <2>7. After(m, kept(n)) \in Seq(Wire) /\ Len(After(m, kept(n))) = Len(kept(n)) - m
      BY <2>5, <2>6, FirstAndAfter
    <2>8. r.ctx \in Encoder /\ ~r.ctx.over /\ ~r.ctx.ending /\ r.ctx.avail_in = e.avail_in
          /\ r.ctx.flushing = e.flushing
          /\ r.ctx.held = After(m, kept(n))
      BY <2>4, <2>7 DEF Encoder
    <2>9. /\ r.ret # "PROG_ERROR"
          /\ input # << >> /\ room > 0 => r.ret = "OK"
      <3>1. r.ret \in {"OK", "BUF_ERROR"}
        BY <2>4 DEF OKOr
      <3>2. ASSUME input # << >>, room > 0 PROVE n + m > 0
        <4>1. Len(input) \in Nat /\ Len(input) # 0
          BY <3>2, EmptySeq, LenProperties
        <4>2. n \in Nat /\ m \in Nat
          BY <2>5, <2>6, <4>1
        <4> QED
          BY <2>4, <3>2, <4>1, <4>2
      <3> QED
        BY <2>4, <3>1, <3>2 DEF OKOr
    <2> QED
      BY <2>4, <2>6, <2>7, <2>8, <2>9 DEF GivesFirst, kept
  <1> QED
    BY <1>0, <1>1

(* What an encoder does that has to give out all it holds: it tells that   *)
(* it has done so, and is over, no sooner; liblzma maybe later.            *)
GaveOut(r, e, room, over) ==
    /\ r.ctx \in Encoder /\ r.ctx.ending = e.ending
    /\ r.ctx.over <=> over /\ r.ret = "STREAM_END"
    /\ r.ctx.flushing => algo = "xz" /\ ~over /\ r.ret # "STREAM_END"
    /\ GivesFirst(r, e, e.held, room)
    /\ r.ret \in {"STREAM_END", "OK", "BUF_ERROR"}
    /\ r.ret = "STREAM_END" => r.ctx.held = << >>
    /\ algo = "zstd" /\ r.ctx.held = << >> => r.ret = "STREAM_END"

(* Its results are so.                                                     *)
LEMMA GivesOutAll ==
    ASSUME NEW e \in Encoder, NEW room \in Nat, NEW over \in BOOLEAN,
           algo \in {"xz", "zstd"}, NEW r \in GivesOut(e, room, over)
    PROVE  GaveOut(r, e, room, over)
  <1> DEFINE m == Least(room, Len(e.held))
             rest == After(m, e.held)
             mayTell == IF rest # << >> THEN {FALSE}
                        ELSE IF algo = "zstd" \/ m < room THEN {TRUE}
                        ELSE {FALSE, room > 0}
             flushing(told) == algo = "xz" /\ ~over /\ ~told
             rets(told) == IF told THEN {"STREAM_END"} ELSE OKOr(m > 0)
             Gives(told) ==
                 Results([e EXCEPT !.held = rest, !.over = (over /\ told),
                                   !.flushing = flushing(told)],
                         0, First(m, e.held), rets(told))
  <1>1. GivesOut(e, room, over) = UNION {Gives(told) : told \in mayTell}
    BY DEF GivesOut
  <1>2. m \in 0 .. Len(e.held) /\ m <= room /\ e.held \in Seq(Wire)
    BY LenProperties, LeastOfTwo DEF Encoder
  <1> HIDE DEF m
  <1>3. rest \in Seq(Wire)
    BY <1>2, FirstAndAfter
  <1> HIDE DEF rest, Gives, mayTell
  <1>4. PICK told \in mayTell : r \in Gives(told)
    BY <1>1
  <1>5. /\ told \in BOOLEAN /\ (told => rest = << >>)
        /\ algo = "zstd" /\ rest = << >> => told
    <2>1. CASE rest # << >>
      BY <1>4, <2>1, Zenon DEF mayTell
    <2>2. CASE rest = << >> /\ (algo = "zstd" \/ m < room)
      BY <1>4, <2>2, Zenon DEF mayTell
    <2>3. CASE rest = << >> /\ ~(algo = "zstd" \/ m < room)
      <3> DEFINE some == room > 0
      <3>1. some \in BOOLEAN
        OBVIOUS
      <3>2. told \in {FALSE, some}
        BY <1>4, <2>3, Zenon DEF mayTell
      <3> HIDE DEF some
      <3>3. told \in BOOLEAN
        BY <3>1, <3>2, Zenon
      <3> QED
        BY <2>3, <3>3
    <2> QED
      BY <2>1, <2>2, <2>3
  <1>6. flushing(told) \in BOOLEAN
    OBVIOUS
  <1>7. told => rets(told) = {"STREAM_END"}
    OBVIOUS
  <1>8. ~told => rets(told) \subseteq {"OK", "BUF_ERROR"}
    BY DEF OKOr
  <1> HIDE DEF rets
  <1>9. /\ r.ctx = [e EXCEPT !.held = rest, !.over = (over /\ told), !.flushing = flushing(told)]
        /\ r.out = First(m, e.held) /\ r.ret \in rets(told)
    BY <1>4 DEF Gives, Results
  <1> HIDE DEF flushing
  <1>10. /\ r.ctx \in Encoder /\ r.ctx.ending = e.ending /\ r.ctx.avail_in = e.avail_in
         /\ r.ctx.held = rest
         /\ r.ctx.over <=> over /\ told
         /\ r.ctx.flushing <=> flushing(told)
    BY <1>3, <1>5, <1>6, <1>9 DEF Encoder
  <1>11. GivesFirst(r, e, e.held, room)
    BY <1>2, <1>9, <1>10 DEF GivesFirst, rest
  <1>12. /\ told <=> r.ret = "STREAM_END"
         /\ r.ret \in {"STREAM_END", "OK", "BUF_ERROR"}
    BY <1>5, <1>7, <1>8, <1>9
  <1> QED
    BY <1>5, <1>10, <1>11, <1>12 DEF GaveOut, flushing

(* LZMA_FULL_FLUSH *)
LEMMA FlushGivesOut ==
    ASSUME NEW e \in Encoder, ~e.over, ~e.ending, NEW room \in Nat, NEW r \in Flushed(e, room)
    PROVE  r \in GivesOut(e, room, FALSE)
  BY DEF Flushed

(* LZMA_FINISH, unless liblzma refuses it *)
LEMMA FinishGivesOut ==
    ASSUME NEW e \in Encoder, ~e.over, NEW room \in Nat, NEW r \in Finish(e, room)
    PROVE  IF algo = "xz" /\ e.flushing THEN r \in Refused(e)
                                        ELSE r \in GivesOut(Ending(e), room, TRUE)
  BY DEF Finish

(* An encoder that is ending holds the end of the frame too, once.         *)
LEMMA EndingType ==
    ASSUME NEW e \in Encoder
    PROVE  /\ Ending(e) \in Encoder /\ Ending(e).ending /\ Ending(e).avail_in = e.avail_in
           /\ Ending(e).held = IF e.ending THEN e.held ELSE e.held \o <<FrameEnd>>
  <1>1. e.held \in Seq(Wire) /\ FrameEnd \in Wire
    BY OnTheWire DEF Encoder
  <1>2. Append(e.held, FrameEnd) = e.held \o <<FrameEnd>>
    BY <1>1, AppendIsConcat
  <1>3. e.held \o <<FrameEnd>> \in Seq(Wire)
    BY <1>1, ConcatProperties, OnTheWire
  <1> DEFINE kept == IF e.ending THEN e.held ELSE e.held \o <<FrameEnd>>
  <1>4. kept \in Seq(Wire)
    BY <1>1, <1>3
  <1>5. Ending(e) = [e EXCEPT !.ending = TRUE, !.held = kept]
    BY <1>2 DEF Ending
  <1> HIDE DEF kept
  <1>6. /\ Ending(e) \in Encoder /\ Ending(e).ending /\ Ending(e).avail_in = e.avail_in
        /\ Ending(e).held = kept
    BY <1>4, <1>5 DEF Encoder
  <1> QED
    BY <1>6 DEF kept

(* lzma_code() of a decoder: what it reads before the end of a frame, *)
DataOnly(n, input) == \A j \in 1 .. n : input[j] # FrameEnd

DecoderType == [held : Seq(Wire), ended : BOOLEAN, over : BOOLEAN]

(* and what it has become: it gives out some of what it has, and has told  *)
(* of the end when it has given out all of it.                             *)
DecodesTo(r, ended, kept, room) ==
    \E m \in 0 .. Len(kept) :
       /\ m <= room /\ r.out = First(m, kept)
       /\ r.ctx = [held |-> After(m, kept), ended |-> ended, over |-> ended /\ m = Len(kept)]
       /\ Len(kept) - m <= Hold
       /\ r.ret = "STREAM_END" <=> ended /\ m = Len(kept)
       /\ r.ret \in {"STREAM_END", "OK", "BUF_ERROR"}

(* It has read nothing, data only, or data and the end of the frame. *)
LEMMA DecodeReads ==
    ASSUME NEW d \in DecoderType, ~d.over, NEW input \in Seq(Wire), NEW room \in Nat,
           NEW r \in Decode(d, input, room)
    PROVE  /\ r.used \in 0 .. Len(input)
           /\ \/ r.used = 0 /\ DecodesTo(r, d.ended, d.held, room)
              \/ /\ ~d.ended /\ DataOnly(r.used, input)
                 /\ DecodesTo(r, FALSE, d.held \o First(r.used, input), room)
              \/ /\ ~d.ended /\ r.used # 0 /\ DataOnly(r.used - 1, input) /\ input[r.used] = FrameEnd
                 /\ DecodesTo(r, TRUE, d.held \o First(r.used - 1, input), room)
  <1> DEFINE ends == {j \in 1 .. Len(input) : input[j] = FrameEnd}
             cut == IF d.ended THEN 0
                    ELSE IF ends = {} THEN Len(input) ELSE CHOOSE j \in ends : \A k \in ends : j <= k
             ended(n) == d.ended \/ n \in ends
             kept(n) == d.held \o First(IF n \in ends THEN n - 1 ELSE n, input)
             told(n, m) == ended(n) /\ m = Len(kept(n))
             Outs(n, m) == Results([held |-> After(m, kept(n)), ended |-> ended(n), over |-> told(n, m)],
                                   n, First(m, kept(n)),
                                   IF told(n, m) THEN {"STREAM_END"} ELSE OKOr(n + m > 0))
             Moves(n) == {m \in 0 .. Least(room, Len(kept(n))) :
                             /\ n = cut \/ m = room
                             /\ ended(n) => m = Least(room, Len(kept(n)))
                             /\ Len(kept(n)) - m <= Hold}
  <1>1. Decode(d, input, room) = UNION {UNION {Outs(n, m) : m \in Moves(n)} : n \in 0 .. cut}
    BY DEF Decode
  <1>2. Len(input) \in Nat /\ d.held \in Seq(Wire) /\ d.ended \in BOOLEAN
    BY LenProperties DEF DecoderType
  <1>3. cut \in 0 .. Len(input) /\ (d.ended => cut = 0)
        /\ (~d.ended => \A j \in ends : cut <= j)
    <2>1. CASE d.ended
      BY <1>2, <2>1
    <2>2. CASE ~d.ended /\ ends = {}
      BY <1>2, <2>2
    <2>3. CASE ~d.ended /\ ends # {}
      <3>1. ends \in SUBSET Nat
        BY <1>2
      <3>2. PICK n \in ends : TRUE
        BY <2>3
      <3>3. \E j \in ends : \A k \in ends : j <= k
        <4> HIDE DEF ends
        <4> QED
          BY <3>1, <3>2, HasLeast
      <3>4. cut \in ends /\ \A k \in ends : cut <= k
        <4> HIDE DEF ends
        <4> QED
          BY <2>3, <3>3
      <3>5. cut \in 0 .. Len(input)
        <4> HIDE DEF cut
        <4> QED
          BY <1>2, <3>4
      <3> HIDE DEF cut, ends
      <3> QED
        BY <2>3, <3>4, <3>5
    <2> QED
      BY <2>1, <2>2, <2>3
  <1> HIDE DEF cut, Outs, Moves
  <1>4. PICK n \in 0 .. cut : r \in UNION {Outs(n, m) : m \in Moves(n)}
    BY <1>1
  <1>5. PICK m \in Moves(n) : r \in Outs(n, m)
    BY <1>4
  <1> HIDE DEF ends
  <1>6. n \in 0 .. Len(input) /\ n \in Nat
    BY <1>2, <1>3, <1>4
  <1>7. r.used = n /\ r.out = First(m, kept(n))
        /\ r.ctx = [held |-> After(m, kept(n)), ended |-> ended(n), over |-> told(n, m)]
        /\ r.ret \in (IF told(n, m) THEN {"STREAM_END"} ELSE OKOr(n + m > 0))
    <2> HIDE DEF kept, ended, told
    <2> QED
      BY <1>5 DEF Outs, Results
  <1>8. r.ret = "STREAM_END" <=> told(n, m)
    <2> HIDE DEF told
    <2> QED
      BY <1>7 DEF OKOr
  <1>9. r.ret \in {"STREAM_END", "OK", "BUF_ERROR"}
    <2> HIDE DEF told
    <2> QED
      BY <1>7 DEF OKOr
  <1>10. kept(n) \in Seq(Wire) /\ Len(kept(n)) \in Nat
    <2> DEFINE k == IF n \in ends THEN n - 1 ELSE n
    <2>1. k \in 0 .. Len(input)
      <3>1. n \in ends => n # 0
        BY DEF ends
      <3> QED
        BY <1>2, <1>6, <3>1
    <2> HIDE DEF k
    <2>2. First(k, input) \in Seq(Wire)
      BY <2>1, FirstAndAfter
    <2>3. d.held \o First(k, input) \in Seq(Wire)
      BY <1>2, <2>2, ConcatProperties
    <2> QED
      BY <2>3, LenProperties DEF k
  <1>11. m \in 0 .. Len(kept(n)) /\ m <= room /\ Len(kept(n)) - m <= Hold
    <2> HIDE DEF kept
    <2>1. m \in 0 .. Least(room, Len(kept(n))) /\ Len(kept(n)) - m <= Hold
      BY <1>5 DEF Moves
    <2>2. /\ Least(room, Len(kept(n))) \in Nat
          /\ Least(room, Len(kept(n))) <= room /\ Least(room, Len(kept(n))) <= Len(kept(n))
      BY <1>10, LeastOfTwo
    <2> QED
      BY <1>10, <2>1, <2>2
  <1>12. ASSUME ended(n) = TRUE PROVE DecodesTo(r, TRUE, kept(n), room)
    <2> HIDE DEF kept
    <2> QED
      BY <1>7, <1>8, <1>9, <1>11, <1>12 DEF DecodesTo
  <1>13. ASSUME ended(n) = FALSE PROVE DecodesTo(r, FALSE, kept(n), room)
    <2> HIDE DEF kept
    <2> QED
      BY <1>7, <1>8, <1>9, <1>11, <1>13 DEF DecodesTo
  <1>14. CASE d.ended
    <2>1. n = 0 /\ n \notin ends
      <3>1. cut = 0
        BY <1>3, <1>14
      <3> QED
        BY <1>4, <3>1 DEF ends
    <2>2. kept(n) = d.held
      <3>1. First(0, input) \in Seq(Wire) /\ Len(First(0, input)) = 0
        BY <1>2, FirstAndAfter
      <3>2. First(0, input) = << >>
        BY <3>1, EmptySeq
      <3> QED
        BY <1>2, <2>1, <3>2, ConcatEmptySeq
    <2>3. ended(n) = TRUE
      BY <1>14
    <2>4. DecodesTo(r, TRUE, d.held, room)
      BY <1>12, <2>2, <2>3
    <2>5. d.ended = TRUE
      BY <1>2, <1>14
    <2> HIDE DEF kept, ended, told
    <2>6. r.used = 0
      BY <1>7, <2>1
    <2>7. r.used \in 0 .. Len(input)
      BY <1>2, <2>6
    <2> QED
      BY <2>4, <2>5, <2>6, <2>7
  <1>15. CASE ~d.ended /\ n \in ends
    <2>1. ended(n) = TRUE /\ kept(n) = d.held \o First(n - 1, input)
      BY <1>15
    <2>2. DecodesTo(r, TRUE, d.held \o First(n - 1, input), room)
      BY <1>12, <2>1
    <2>3. input[n] = FrameEnd /\ n # 0
      BY <1>15 DEF ends
    <2>4. DataOnly(n - 1, input)
      <3> SUFFICES ASSUME NEW j \in 1 .. n - 1, input[j] = FrameEnd PROVE FALSE
        BY DEF DataOnly
      <3>1. j \in ends /\ j < n
        BY <1>2, <1>6 DEF ends
      <3> QED
        BY <1>2, <1>3, <1>4, <1>15, <3>1
    <2> HIDE DEF kept, ended
    <2> QED
      BY <1>6, <1>7, <1>15, <2>2, <2>3, <2>4
  <1>16. CASE ~d.ended /\ n \notin ends
    <2>1. ended(n) = FALSE /\ kept(n) = d.held \o First(n, input)
      BY <1>16
    <2>2. DecodesTo(r, FALSE, d.held \o First(n, input), room)
      BY <1>13, <2>1
    <2>3. DataOnly(n, input)
      <3> SUFFICES ASSUME NEW j \in 1 .. n, input[j] = FrameEnd PROVE FALSE
        BY DEF DataOnly
      <3>1. j \in ends /\ j <= n
        BY <1>2, <1>6 DEF ends
      <3>2. j # n
        BY <1>16, <3>1
      <3> QED
        BY <1>2, <1>3, <1>4, <1>16, <3>1, <3>2
    <2> HIDE DEF kept, ended
    <2> QED
      BY <1>6, <1>7, <1>16, <2>2, <2>3
  <1> QED
    BY <1>14, <1>15, <1>16

(* The bytes of a frame before its end are its data, *)
LEMMA DataRead ==
    ASSUME HasFrames, NEW g \in 1 .. Len(sizes), NEW b \in Nat, b <= sizes[g],
           NEW input \in Seq(Wire), Segment(input, StartOf(g) + b), NEW n \in 0 .. Len(input), DataOnly(n, input)
    PROVE  b + n <= sizes[g] /\ First(n, input) = Data(g, b, b + n)
  <1>1. /\ Len(input) \in Nat /\ sizes[g] \in Nat /\ StartOf(g) \in Nat /\ g \in Nat /\ n \in Nat
    BY LenProperties, FrameSize, FramesFollow
  <1>2. ASSUME NEW j \in 1 .. n PROVE Belongs(input[j], StartOf(g) + (b + j))
    <2>1. j \in 1 .. Len(input) /\ (StartOf(g) + b) + j = StartOf(g) + (b + j)
      BY <1>1
    <2>2. Belongs(input[j], (StartOf(g) + b) + j)
      BY <2>1 DEF Segment
    <2> QED
      BY <2>1, <2>2
  <1>3. b + n <= sizes[g]
    <2> SUFFICES ASSUME ~(b + n <= sizes[g]) PROVE FALSE
      OBVIOUS
    <2> DEFINE j == (sizes[g] + 1) - b
    <2>1. j \in 1 .. n /\ b + j = sizes[g] + 1
      BY <1>1
    <2> HIDE DEF j
    <2>2. Belongs(input[j], StartOf(g) + (sizes[g] + 1))
      BY <1>2, <2>1
    <2>3. input[j] = FrameEnd
      BY <2>2 DEF Belongs
    <2> QED
      BY <2>1, <2>3 DEF DataOnly
  <1>4. ASSUME NEW j \in 1 .. n PROVE input[j] = <<g, b + j>>
    <2>1. b + j \in 1 .. sizes[g]
      BY <1>1, <1>3
    <2> QED
      BY <1>2, <2>1 DEF Belongs
  <1>5. /\ Data(g, b, b + n) \in Seq(Wire) /\ Len(Data(g, b, b + n)) = n
        /\ \A k \in 1 .. n : Data(g, b, b + n)[k] = <<g, b + k>>
    <2> DEFINE c == b + n
    <2>1. c \in Nat /\ b <= c /\ c - b = n
      BY <1>1
    <2> HIDE DEF c
    <2>2. /\ Data(g, b, c) \in Seq(Wire) /\ Len(Data(g, b, c)) = c - b
          /\ \A k \in 1 .. c - b : Data(g, b, c)[k] = <<g, b + k>>
      BY <1>1, <2>1, DataType
    <2> QED
      BY <2>1, <2>2 DEF c
  <1>6. /\ First(n, input) \in Seq(Wire) /\ Len(First(n, input)) = n
        /\ \A k \in 1 .. n : First(n, input)[k] = input[k]
    BY FirstAndAfter
  <1>7. First(n, input) = Data(g, b, b + n)
    <2> DEFINE s == First(n, input)
               t == Data(g, b, b + n)
    <2>1. s \in Seq(Wire) /\ t \in Seq(Wire) /\ Len(s) = Len(t) /\ Len(s) = n
          /\ \A k \in 1 .. n : s[k] = t[k]
      BY <1>4, <1>5, <1>6
    <2> HIDE DEF s, t
    <2>2. s = t
      BY <2>1, SeqEqual
    <2> QED
      BY <2>2 DEF s, t
  <1> QED
    BY <1>3, <1>7

(* and the end comes when there is no more of them. *)
LEMMA EndRead ==
    ASSUME HasFrames, NEW g \in 1 .. Len(sizes), NEW b \in Nat, b <= sizes[g],
           NEW input \in Seq(Wire), Segment(input, StartOf(g) + b), NEW n \in 1 .. Len(input),
           DataOnly(n - 1, input), input[n] = FrameEnd
    PROVE  b + (n - 1) = sizes[g] /\ First(n - 1, input) = Data(g, b, sizes[g])
  <1>1. /\ Len(input) \in Nat /\ sizes[g] \in Nat /\ StartOf(g) \in Nat /\ g \in Nat /\ g # 0
        /\ n - 1 \in 0 .. Len(input)
    BY LenProperties, FrameSize, FramesFollow
  <1>2. b + (n - 1) <= sizes[g] /\ First(n - 1, input) = Data(g, b, b + (n - 1))
    BY <1>1, DataRead
  <1>3. b + (n - 1) = sizes[g]
    <2> SUFFICES ASSUME b + (n - 1) # sizes[g] PROVE FALSE
      OBVIOUS
    <2>1. b + n \in 1 .. sizes[g] /\ (StartOf(g) + b) + n = StartOf(g) + (b + n)
      BY <1>1, <1>2
    <2>2. Belongs(input[n], (StartOf(g) + b) + n)
      BY DEF Segment
    <2>3. Belongs(input[n], StartOf(g) + (b + n))
      BY <2>1, <2>2
    <2>4. input[n] = <<g, b + n>>
      BY <2>1, <2>3 DEF Belongs
    <2>5. <<g, b + n>>[1] = 0
      BY <2>4 DEF FrameEnd
    <2> QED
      BY <1>1, <2>5
  <1> QED
    BY <1>2, <1>3

(* What a decoder has written and holds is what it held and read. *)
LEMMA DecodesKeeps ==
    ASSUME NEW ended \in BOOLEAN, NEW kept \in Seq(Wire), NEW output \in Seq(Wire), NEW room, NEW r,
           DecodesTo(r, ended, kept, room)
    PROVE  /\ r.out \in Seq(Wire) /\ Len(r.out) <= room
           /\ r.ctx \in DecoderType /\ Len(r.ctx.held) <= Hold /\ r.ctx.ended = ended
           /\ (output \o r.out) \o r.ctx.held = output \o kept
           /\ r.ctx.over <=> r.ret = "STREAM_END"
           /\ r.ctx.over => r.ctx.ended /\ r.ctx.held = << >>
           /\ r.ret \in {"STREAM_END", "OK", "BUF_ERROR"}
  <1>1. PICK m \in 0 .. Len(kept) :
       /\ m <= room /\ r.out = First(m, kept)
       /\ r.ctx = [held |-> After(m, kept), ended |-> ended, over |-> ended /\ m = Len(kept)]
       /\ Len(kept) - m <= Hold
       /\ r.ret = "STREAM_END" <=> ended /\ m = Len(kept)
       /\ r.ret \in {"STREAM_END", "OK", "BUF_ERROR"}
    BY DEF DecodesTo
  <1>2. /\ First(m, kept) \in Seq(Wire) /\ Len(First(m, kept)) = m
        /\ After(m, kept) \in Seq(Wire) /\ Len(After(m, kept)) = Len(kept) - m
        /\ First(m, kept) \o After(m, kept) = kept
    BY FirstAndAfter
  <1>3. r.ctx.held = After(m, kept) /\ r.ctx.ended = ended
        /\ (r.ctx.over <=> ended /\ m = Len(kept))
    <2> DEFINE told == ended /\ m = Len(kept)
    <2>1. r.ctx = [held |-> After(m, kept), ended |-> ended, over |-> told]
      BY <1>1
    <2> HIDE DEF told
    <2>2. r.ctx.held = After(m, kept) /\ r.ctx.ended = ended /\ r.ctx.over = told
      BY <2>1
    <2> QED
      BY <2>2 DEF told
  <1>4. r.ctx \in DecoderType
    BY <1>1, <1>2 DEF DecoderType
  <1>5. (output \o r.out) \o r.ctx.held = output \o kept
    <2>1. Cat(Cat(output, First(m, kept)), After(m, kept)) = Cat(output, Cat(First(m, kept), After(m, kept)))
      BY <1>2, CatFacts
    <2> QED
      BY <1>1, <1>2, <1>3, <2>1 DEF Cat
  <1>6. m = Len(kept) => After(m, kept) = << >>
    BY <1>2, LenProperties, EmptySeq
  <1> QED
    BY <1>1, <1>2, <1>3, <1>4, <1>5, <1>6

(* More of the data of a frame *)
LEMMA UpToMore ==
    ASSUME HasFrames, NEW f \in 0 .. Len(sizes) + 1, NEW m \in Nat, NEW n \in Nat, m <= n
    PROVE  UpTo(f, m) \o Data(f, m, n) = UpTo(f, n)
  <1>1. f \in Nat /\ DataBefore[f] \in Seq(Wire)
    <2>1. Len(sizes) \in Nat
      BY FrameSize
    <2>2. f \in Nat
      BY <2>1
    <2>3. DataBefore[f] \in Seq(Wire)
      BY DataRecurs
    <2> QED
      BY <2>2, <2>3
  <1> QED
    BY <1>1, MoreOfFrame DEF UpTo

(* Where a decoder is after a call: further on in its frame, and it has    *)
(* written what it has read of it, but for what it holds.                  *)
ReadsOn(r, d, input, output, room, g, b) ==
    /\ r.used \in 0 .. Len(input) /\ r.out \in Seq(Wire) /\ Len(r.out) <= room
    /\ r.ctx \in DecoderType /\ Len(r.ctx.held) <= Hold
    /\ r.ctx.over <=> r.ret = "STREAM_END"
    /\ r.ctx.over => r.ctx.ended /\ r.ctx.held = << >>
    /\ r.ret \in {"STREAM_END", "OK", "BUF_ERROR"}
    /\ \E c \in Nat :
         /\ (output \o r.out) \o r.ctx.held = UpTo(g, c)
         /\ IF g = Len(sizes) + 1 THEN c = 0 /\ ~r.ctx.ended
            ELSE c <= sizes[g] /\ (r.ctx.ended => c = sizes[g])
         /\ ReadTo(r.ctx, g, c) = ReadTo(d, g, b) + r.used

(* A call of the decoder reads on in the frame that it is in. *)
LEMMA DecodeFollows ==
    ASSUME HasFrames, NEW g \in 1 .. Len(sizes) + 1, NEW b \in Nat,
           NEW d \in DecoderType, DecodesFrame(d, g, b),
           NEW input \in Seq(Wire), Segment(input, ReadTo(d, g, b)), g = Len(sizes) + 1 => input = << >>,
           NEW output \in Seq(Wire), output \o d.held = UpTo(g, b),
           NEW room \in Nat, NEW r \in Decode(d, input, room)
    PROVE  ReadsOn(r, d, input, output, room, g, b)
  <1> DEFINE n == r.used
  <1>1. /\ Len(sizes) \in Nat /\ g \in Nat /\ g \in 0 .. Len(sizes) + 1 /\ Len(input) \in Nat
        /\ DataBefore[g] \in Seq(Wire) /\ StartOf(g) \in Nat
        /\ \A f \in 1 .. Len(sizes) : sizes[f] \in Nat
    <2>1. Len(sizes) \in Nat /\ \A f \in 1 .. Len(sizes) : sizes[f] \in Nat
      BY FrameSize
    <2>2. g \in Nat /\ g \in 0 .. Len(sizes) + 1
      BY <2>1
    <2> QED
      BY <2>1, <2>2, LenProperties, DataRecurs, FramesFollow
  <1>2. /\ ~d.over /\ d.held \in Seq(Wire) /\ d.ended \in BOOLEAN
        /\ IF g = Len(sizes) + 1 THEN b = 0 /\ ~d.ended
           ELSE b <= sizes[g] /\ (d.ended => b = sizes[g])
    BY DEF DecodesFrame, DecoderType
  <1>3. /\ n \in 0 .. Len(input)
        /\ \/ n = 0 /\ DecodesTo(r, d.ended, d.held, room)
           \/ /\ ~d.ended /\ DataOnly(n, input)
              /\ DecodesTo(r, FALSE, d.held \o First(n, input), room)
           \/ /\ ~d.ended /\ n # 0 /\ DataOnly(n - 1, input) /\ input[n] = FrameEnd
              /\ DecodesTo(r, TRUE, d.held \o First(n - 1, input), room)
    BY <1>2, DecodeReads
  <1> HIDE DEF n, ReadsOn
  <1>4. CASE n = 0 /\ DecodesTo(r, d.ended, d.held, room)
    <2>1. /\ r.out \in Seq(Wire) /\ Len(r.out) <= room
          /\ r.ctx \in DecoderType /\ Len(r.ctx.held) <= Hold /\ r.ctx.ended = d.ended
          /\ (output \o r.out) \o r.ctx.held = output \o d.held
          /\ r.ctx.over <=> r.ret = "STREAM_END"
          /\ r.ctx.over => r.ctx.ended /\ r.ctx.held = << >>
          /\ r.ret \in {"STREAM_END", "OK", "BUF_ERROR"}
      BY <1>2, <1>4, DecodesKeeps
    <2>2. ReadTo(r.ctx, g, b) = ReadTo(d, g, b) + n
      BY <1>1, <1>4, <2>1 DEF ReadTo
    <2>3. /\ (output \o r.out) \o r.ctx.held = UpTo(g, b)
          /\ IF g = Len(sizes) + 1 THEN b = 0 /\ ~r.ctx.ended
             ELSE b <= sizes[g] /\ (r.ctx.ended => b = sizes[g])
      BY <1>2, <2>1
    <2> QED
      BY <1>3, <2>1, <2>2, <2>3 DEF n, ReadsOn
  <1>5. CASE ~d.ended /\ DataOnly(n, input) /\ DecodesTo(r, FALSE, d.held \o First(n, input), room)
    <2>1. First(n, input) \in Seq(Wire)
      BY <1>3, FirstAndAfter
    <2>2. d.held \o First(n, input) \in Seq(Wire)
      BY <1>2, <2>1, ConcatProperties
    <2>3. /\ r.out \in Seq(Wire) /\ Len(r.out) <= room
          /\ r.ctx \in DecoderType /\ Len(r.ctx.held) <= Hold /\ r.ctx.ended = FALSE
          /\ (output \o r.out) \o r.ctx.held = output \o (d.held \o First(n, input))
          /\ r.ctx.over <=> r.ret = "STREAM_END"
          /\ r.ctx.over => r.ctx.ended /\ r.ctx.held = << >>
          /\ r.ret \in {"STREAM_END", "OK", "BUF_ERROR"}
      BY <1>5, <2>2, DecodesKeeps
    <2>4. ReadTo(d, g, b) = StartOf(g) + b /\ \A c \in Nat : ReadTo(r.ctx, g, c) = StartOf(g) + c
      BY <1>1, <1>2, <1>5, <2>3 DEF ReadTo
    <2>5. First(n, input) = Data(g, b, b + n)
          /\ (IF g = Len(sizes) + 1 THEN b + n = 0 ELSE b + n <= sizes[g])
      <3>1. CASE g = Len(sizes) + 1
        <4>1. n = 0 /\ b = 0
          BY <1>2, <1>3, <3>1, EmptySeq
        <4>2. Len(First(0, input)) = 0 /\ First(0, input) \in Seq(Wire)
          BY <1>1, FirstAndAfter
        <4>3. Len(Data(g, 0, 0)) = 0 /\ Data(g, 0, 0) \in Seq(Wire)
          BY <1>1, FirstData
        <4> QED
          BY <3>1, <4>1, <4>2, <4>3, EmptySeq
      <3>2. CASE g # Len(sizes) + 1
        <4>1. g \in 1 .. Len(sizes) /\ b <= sizes[g]
          BY <1>1, <1>2, <3>2
        <4> QED
          BY <1>3, <1>5, <2>4, <3>2, <4>1, DataRead
      <3> QED
        BY <3>1, <3>2
    <2>6. b + n \in Nat /\ b <= b + n /\ (StartOf(g) + b) + n = StartOf(g) + (b + n)
      BY <1>1, <1>3
    <2>7. output \o (d.held \o First(n, input)) = UpTo(g, b) \o First(n, input)
      <3>1. Cat(output, Cat(d.held, First(n, input))) = Cat(Cat(output, d.held), First(n, input))
        BY <1>2, <2>1, CatFacts
      <3> QED
        BY <3>1 DEF Cat
    <2> DEFINE c == b + n
    <2>8. c \in Nat /\ b <= c /\ First(n, input) = Data(g, b, c)
      BY <2>5, <2>6
    <2> HIDE DEF c
    <2>9. UpTo(g, b) \o Data(g, b, c) = UpTo(g, c)
      BY <1>1, <2>8, UpToMore
    <2>10. (output \o r.out) \o r.ctx.held = UpTo(g, c)
      BY <2>3, <2>7, <2>8, <2>9
    <2>11. ReadTo(r.ctx, g, c) = ReadTo(d, g, b) + n
      BY <2>4, <2>6 DEF c
    <2>12. IF g = Len(sizes) + 1 THEN c = 0 /\ ~r.ctx.ended
           ELSE c <= sizes[g] /\ (r.ctx.ended => c = sizes[g])
      BY <2>3, <2>5 DEF c
    <2> QED
      BY <1>3, <2>3, <2>8, <2>10, <2>11, <2>12 DEF n, ReadsOn
  <1>6. CASE /\ ~d.ended /\ n # 0 /\ DataOnly(n - 1, input) /\ input[n] = FrameEnd
             /\ DecodesTo(r, TRUE, d.held \o First(n - 1, input), room)
    <2>0. g \in 1 .. Len(sizes) /\ b <= sizes[g] /\ g # Len(sizes) + 1
      <3>1. g # Len(sizes) + 1
        BY <1>3, <1>6, EmptySeq
      <3> QED
        BY <1>1, <1>2, <3>1
    <2>1. First(n - 1, input) \in Seq(Wire)
      <3>1. n - 1 \in 0 .. Len(input)
        BY <1>1, <1>3, <1>6
      <3> QED
        BY <3>1, FirstAndAfter
    <2>2. d.held \o First(n - 1, input) \in Seq(Wire)
      BY <1>2, <2>1, ConcatProperties
    <2>3. /\ r.out \in Seq(Wire) /\ Len(r.out) <= room
          /\ r.ctx \in DecoderType /\ Len(r.ctx.held) <= Hold /\ r.ctx.ended = TRUE
          /\ (output \o r.out) \o r.ctx.held = output \o (d.held \o First(n - 1, input))
          /\ r.ctx.over <=> r.ret = "STREAM_END"
          /\ r.ctx.over => r.ctx.ended /\ r.ctx.held = << >>
          /\ r.ret \in {"STREAM_END", "OK", "BUF_ERROR"}
      BY <1>6, <2>2, DecodesKeeps
    <2>4. ReadTo(d, g, b) = StartOf(g) + b /\ \A c \in Nat : ReadTo(r.ctx, g, c) = StartOf(g) + (c + 1)
      BY <1>1, <1>2, <1>6, <2>3 DEF ReadTo
    <2> DEFINE c == sizes[g]
    <2>5. b + (n - 1) = c /\ First(n - 1, input) = Data(g, b, c)
      <3>1. n \in 1 .. Len(input) /\ Segment(input, StartOf(g) + b)
        BY <1>1, <1>3, <1>6, <2>4
      <3> QED
        BY <1>6, <2>0, <3>1, EndRead
    <2>6. c \in Nat /\ b <= c /\ c <= sizes[g]
      BY <1>1, <2>0
    <2> HIDE DEF c
    <2>7. output \o (d.held \o First(n - 1, input)) = UpTo(g, b) \o First(n - 1, input)
      <3>1. Cat(output, Cat(d.held, First(n - 1, input))) = Cat(Cat(output, d.held), First(n - 1, input))
        BY <1>2, <2>1, CatFacts
      <3> QED
        BY <3>1 DEF Cat
    <2>9. UpTo(g, b) \o Data(g, b, c) = UpTo(g, c)
      BY <1>1, <2>6, UpToMore
    <2>10. (output \o r.out) \o r.ctx.held = UpTo(g, c)
      BY <2>3, <2>5, <2>7, <2>9
    <2>11. ReadTo(r.ctx, g, c) = ReadTo(d, g, b) + n
      <3>1. StartOf(g) + (c + 1) = (StartOf(g) + b) + n
        <4> DEFINE a == StartOf(g)
        <4>1. n \in Nat /\ a \in Nat /\ b \in Nat /\ c \in Nat /\ b + (n - 1) = c
          BY <1>1, <1>3, <2>5, <2>6
        <4> HIDE DEF a
        <4>2. a + (c + 1) = (a + b) + n
          BY <4>1
        <4> QED
          BY <4>2 DEF a
      <3> QED
        BY <2>4, <2>6, <3>1
    <2>12. IF g = Len(sizes) + 1 THEN c = 0 /\ ~r.ctx.ended
           ELSE c <= sizes[g] /\ (r.ctx.ended => c = sizes[g])
      BY <2>0, <2>6 DEF c
    <2> QED
      BY <1>3, <2>3, <2>6, <2>10, <2>11, <2>12 DEF n, ReadsOn
  <1> QED
    BY <1>3, <1>4, <1>5, <1>6

----------------------------------------------------------------------------
(* The parts of the invariant, one by one *)
LEMMA AdaptedParts ==
    ASSUME AdaptedInv
    PROVE  /\ HasFrames /\ Len(sizes) \in Nat /\ algo \in {"xz", "zstd"}
           /\ frame \in 0 .. Len(sizes) /\ frame \in Nat /\ open \in BOOLEAN
           /\ place \in Nat /\ piece \in Nat
           /\ {careful, unflushed, erred, aborted} \subseteq BOOLEAN
           /\ cin \in Seq(Wire) /\ cout \in Seq(Wire) /\ file \in Seq(Wire)
           /\ din \in Seq(Wire) /\ dout \in Seq(Wire) /\ received \in Seq(Wire)
           /\ enc \in Encoder /\ dec \in DecoderType /\ Decoder \in DecoderType
           /\ decompressed \in Seq(Wire)
  <1>1. /\ HasFrames /\ algo \in {"xz", "zstd"} /\ frame \in 0 .. Len(sizes) /\ open \in BOOLEAN
        /\ place \in Nat /\ piece \in Nat
        /\ {careful, unflushed, erred, aborted} \subseteq BOOLEAN
        /\ cin \in Seq(Wire) /\ cout \in Seq(Wire) /\ file \in Seq(Wire)
        /\ din \in Seq(Wire) /\ dout \in Seq(Wire) /\ received \in Seq(Wire)
        /\ enc \in Encoder /\ dec \in DecoderType
    BY DEF AdaptedInv, AdaptedTypes, AdaptedTypeOK, HasFrames, Encoder, DecoderType
  <1>2. Len(sizes) \in Nat
    BY <1>1, FrameSize
  <1>3. NewDec \in DecoderType
    BY EmptySeq DEF NewDec, DecoderType
  <1>4. Decoder \in DecoderType
    BY <1>1, <1>3 DEF Decoder
  <1>5. decompressed \in Seq(Wire)
    BY <1>1, ConcatProperties DEF decompressed
  <1>6. frame \in Nat
    BY <1>1, <1>2
  <1> QED
    BY <1>1, <1>2, <1>4, <1>5, <1>6

(* The decoder has read some number of bytes. *)
LEMMA ReadToType ==
    ASSUME AdaptedInv, NEW g \in 1 .. Len(sizes) + 1, NEW b \in Nat, NEW d
    PROVE  ReadTo(d, g, b) \in Nat /\ StartOf(g) \in Nat
  <1>1. StartOf(g) \in Nat
    BY AdaptedParts, FramesFollow
  <1>2. ReadTo(d, g, b) \in {StartOf(g) + (b + 0), StartOf(g) + (b + 1)}
    BY DEF ReadTo
  <1> QED
    BY <1>1, <1>2

(* How much is written: never more than the frames so far. *)
LEMMA WrittenType ==
    ASSUME AdaptedInv
    PROVE  /\ written \in Nat
           /\ frame # 0 =>
                /\ frame \in 1 .. Len(sizes) /\ sizes[frame] \in Nat /\ StartOf(frame) \in Nat
                /\ place <= sizes[frame]
                /\ written \in {StartOf(frame) + place, StartOf(frame) + (place + 1)}
                /\ written = StartOf(frame) + (place + 1) => place = sizes[frame]
  <1>1. CASE frame = 0
    BY <1>1 DEF written
  <1>2. CASE frame # 0
    <2>1. frame \in 1 .. Len(sizes) /\ frame \in 1 .. Len(sizes) + 1
      BY <1>2, AdaptedParts
    <2>2. sizes[frame] \in Nat /\ StartOf(frame) \in Nat /\ place \in Nat /\ place <= sizes[frame]
      BY <1>2, <2>1, AdaptedParts, FrameSize, FramesFollow DEF AdaptedInv, Encoding
    <2>3. CASE ~open \/ enc.ending
      <3>1. written = StartOf(frame) + (place + 1)
        BY <1>2, <2>3 DEF written
      <3>2. place = sizes[frame]
        BY <1>2, <2>3 DEF AdaptedInv, Encoding, InFrame, BetweenFrames
      <3> QED
        BY <1>2, <2>1, <2>2, <3>1, <3>2
    <2>4. CASE ~(~open \/ enc.ending)
      <3>1. written = StartOf(frame) + (place + 0)
        BY <1>2, <2>4 DEF written
      <3>2. written = StartOf(frame) + place /\ written # StartOf(frame) + (place + 1)
        BY <2>2, <3>1
      <3> QED
        BY <1>2, <2>1, <2>2, <3>2
    <2> QED
      BY <2>3, <2>4
  <1> QED
    BY <1>1, <1>2

(* What is in transit after a step *)
LEMMA InTransitNext ==
    ASSUME sizes' = sizes, NEW p, NEW p1 \in Nat, NEW p2 \in Nat, NEW p3 \in Nat, NEW p4 \in Nat,
           Between(din', p, p1), Between(file', p1, p2), Between(cout', p2, p3),
           Between((enc').held, p3, p4), Between(cin', p4, written')
    PROVE  InTransit(p)'
  <1>1. \A f : StartOf(f)' = StartOf(f)
    BY SameFrames
  <1>2. /\ Between(din, p, p1)' /\ Between(file, p1, p2)' /\ Between(cout, p2, p3)'
        /\ Between(enc.held, p3, p4)' /\ Between(cin, p4, written)'
    BY <1>1 DEF Between, Segment, Belongs
  <1> QED
    BY <1>2 DEF InTransit

(* and before it: the positions are in order. *)
LEMMA TransitOrder ==
    ASSUME AdaptedInv, NEW p \in Nat, InTransit(p)
    PROVE  /\ p + Len(din) <= written
           /\ \E p1, p2, p3, p4 \in Nat :
                /\ Between(din, p, p1) /\ Between(file, p1, p2) /\ Between(cout, p2, p3)
                /\ Between(enc.held, p3, p4) /\ Between(cin, p4, written)
  <1>1. PICK p1, p2, p3, p4 \in Nat :
           /\ Between(din, p, p1) /\ Between(file, p1, p2) /\ Between(cout, p2, p3)
           /\ Between(enc.held, p3, p4) /\ Between(cin, p4, written)
    BY DEF InTransit
  <1>2. /\ Len(din) \in Nat /\ Len(file) \in Nat /\ Len(cout) \in Nat
        /\ Len(enc.held) \in Nat /\ Len(cin) \in Nat
    BY AdaptedParts, LenProperties DEF Encoder
  <1>3. /\ p1 = p + Len(din) /\ p2 = p1 + Len(file) /\ p3 = p2 + Len(cout)
        /\ p4 = p3 + Len(enc.held) /\ written = p4 + Len(cin)
    BY <1>1 DEF Between
  <1> DEFINE a == Len(din)
             b == Len(file)
             c == Len(cout)
             d == Len(enc.held)
             e == Len(cin)
  <1>4. p + a <= written
    <2>1. /\ a \in Nat /\ b \in Nat /\ c \in Nat /\ d \in Nat /\ e \in Nat
          /\ p1 = p + a /\ p2 = p1 + b /\ p3 = p2 + c /\ p4 = p3 + d /\ written = p4 + e
      BY <1>2, <1>3
    <2> HIDE DEF a, b, c, d, e
    <2> QED
      BY <2>1
  <1> QED
    BY <1>1, <1>4

(* What is to be shown of the decoder after a step: *)
LEMMA DecodingNext ==
    ASSUME sizes' = sizes, NEW g \in 1 .. Len(sizes) + 1, NEW b \in Nat,
           decompressed' \o (Decoder').held = UpTo(g, b),
           DecodesFrame(Decoder', g, b),
           NEW p, p = ReadTo(Decoder', g, b), InTransit(p)'
    PROVE  Decoding'
  <1>1. DataBefore' = DataBefore /\ \A f : StartOf(f)' = StartOf(f)
    BY SameFrames
  <1>2. (decompressed \o Decoder.held = DataBefore[g] \o Data(g, 0, b))'
    BY <1>1 DEF UpTo
  <1>3. DecodesFrame(Decoder, g, b)'
    BY DEF DecodesFrame
  <1>4. p = ReadTo(Decoder, g, b)'
    BY <1>1 DEF ReadTo
  <1>5. InTransit(ReadTo(Decoder, g, b))'
    <2>1. PICK p1, p2, p3, p4 \in Nat :
             /\ Between(din, p, p1)' /\ Between(file, p1, p2)' /\ Between(cout, p2, p3)'
             /\ Between(enc.held, p3, p4)' /\ Between(cin, p4, written)'
      BY DEF InTransit
    <2>2. Between(din, ReadTo(Decoder, g, b), p1)'
      BY <1>4, <2>1 DEF Between, Segment
    <2> QED
      BY <2>1, <2>2 DEF InTransit
  <1> QED
    BY <1>2, <1>3, <1>5 DEF Decoding

(* when the sender does it, nothing but that the transit goes on; *)
LEMMA DecodingSame ==
    ASSUME AdaptedInv, sizes' = sizes, algo' = algo, UNCHANGED <<dec, dret, decompressed>>,
           \A p \in Nat : InTransit(p) => InTransit(p)'
    PROVE  Decoding'
  <1>1. PICK g \in 1 .. Len(sizes) + 1, b \in Nat :
           /\ decompressed \o Decoder.held = DataBefore[g] \o Data(g, 0, b)
           /\ DecodesFrame(Decoder, g, b)
           /\ InTransit(ReadTo(Decoder, g, b))
    BY DEF AdaptedInv, Decoding
  <1>2. ReadTo(Decoder, g, b) \in Nat
    BY ReadToType
  <1>3. Decoder' = Decoder /\ decompressed' = decompressed
    BY DEF Decoder
  <1>4. PICK p \in Nat : p = ReadTo(Decoder, g, b)
    BY <1>2
  <1>5. p = ReadTo(Decoder', g, b)
    BY <1>3, <1>4
  <1>6. InTransit(p)'
    <2>1. InTransit(p)
      BY <1>1, <1>4
    <2> QED
      BY <2>1
  <1>7. decompressed' \o (Decoder').held = UpTo(g, b) /\ DecodesFrame(Decoder', g, b)
    BY <1>1, <1>3 DEF UpTo
  <1> QED
    BY <1>5, <1>6, <1>7, DecodingNext

(* the rest is then as it was. *)
LEMMA ZeroSame ==
    ASSUME AdaptedInv, Encoding', sizes' = sizes, UNCHANGED <<dec, dret, decompressed>>,
           frame' \in Nat, frame <= frame'
    PROVE  ZeroMeansComplete'
  <1>1. DataBefore' = DataBefore /\ decompressed' = decompressed
    BY SameFrames
  <1>2. ~open' => (enc').held = << >>
    BY DEF Encoding, BetweenFrames
  <1>3. dret = 0 => dec.held = << >>
                    /\ \E f \in 1 .. frame : decompressed = DataBefore[f] \o Data(f, 0, sizes[f])
    BY DEF AdaptedInv, ZeroMeansComplete
  <1>4. \A f \in 1 .. frame : f \in 1 .. frame'
    BY AdaptedParts
  <1> QED
    BY <1>1, <1>2, <1>3, <1>4 DEF ZeroMeansComplete

(* The receiver changes nothing of the encoder, nor of what it has written. *)
LEMMA SenderSame ==
    ASSUME AdaptedInv, sizes' = sizes, algo' = algo, UNCHANGED sender
    PROVE  Encoding' /\ written' = written
  <1>1. Encoding'
    BY DEF AdaptedInv, Encoding, Callable, NeverRefused, Acceptable, InFrame, BetweenFrames, sender
  <1>2. written' = written
    BY SameFrames DEF written, sender
  <1> QED
    BY <1>1, <1>2

(* Something is always in transit, be it nothing. *)
LEMMA SomethingInTransit == ASSUME AdaptedInv PROVE \E p \in Nat : InTransit(p)
  <1>1. PICK g \in 1 .. Len(sizes) + 1, b \in Nat : InTransit(ReadTo(Decoder, g, b))
    BY DEF AdaptedInv, Decoding
  <1>2. ReadTo(Decoder, g, b) \in Nat
    BY ReadToType
  <1>3. PICK p \in Nat : p = ReadTo(Decoder, g, b)
    BY <1>2
  <1>4. InTransit(p)
    BY <1>1, <1>3
  <1> QED
    BY <1>4

----------------------------------------------------------------------------
(* The steps of the sender                                                 *)
(*                                                                         *)
(* A new frame begins where the last one has ended. *)
LEMMA StartFrameInv == ASSUME AdaptedInv, StartFrame PROVE AdaptedInv'
  <1>1. /\ ~open /\ ~aborted /\ frame < Len(sizes)
        /\ frame' = frame + 1 /\ place' = 0 /\ open' = TRUE /\ enc' = Stream /\ unflushed' = FALSE
        /\ UNCHANGED <<algo, sizes, careful, cin, erred, aborted, cout, file,
                       dec, din, dout, piece, dret, received>>
    BY DEF StartFrame, receiver
  <1>2. /\ cin = << >> /\ enc.held = << >> /\ (frame # 0 => place = sizes[frame])
        /\ (algo # "xz" => enc = NewEnc)
    BY <1>1 DEF AdaptedInv, Encoding, BetweenFrames
  <1>3. enc' = NewEnc /\ NewEnc.held = << >> /\ NewEnc.avail_in = 0
        /\ ~NewEnc.over /\ ~NewEnc.ending /\ ~NewEnc.flushing /\ NewEnc \in Encoder
    BY <1>1, <1>2, EmptySeq DEF Stream, NewEnc, Encoder
  <1>4. frame' \in 1 .. Len(sizes) /\ frame' # 0 /\ frame' \in Nat /\ frame <= frame'
    BY <1>1, AdaptedParts
  <1>5. 0 <= sizes[frame']
    BY <1>4, AdaptedParts, FrameSize
  <1>6. AdaptedTypes'
    <2>1. Len(<< >>) <= Hold + 1
      BY EmptySeq, AdaptedConstants
    <2>2. frame' \in 0 .. Len(sizes')
      BY <1>1, <1>4, AdaptedParts
    <2> QED
      BY <1>1, <1>3, <2>1, <2>2 DEF AdaptedInv, AdaptedTypes, AdaptedTypeOK, Encoder
  <1>7. Encoding'
    <2>1. 0 <= Len(cin) /\ Len(<< >>) <= Hold
      BY AdaptedParts, LenProperties, EmptySeq, AdaptedConstants
    <2>2. Callable'
      BY <1>1, <1>3 DEF AdaptedInv, Encoding, Callable, NeverRefused, Acceptable
    <2> QED
      BY <1>1, <1>2, <1>3, <1>4, <1>5, <2>1, <2>2 DEF Encoding, InFrame
  <1>8. written' = written
    <2>1. written' = StartOf(frame') + (0 + 0)
      BY <1>1, <1>3, <1>4, SameFrames DEF written
    <2>2. CASE frame = 0
      <3>1. frame' = 1 /\ written = 0
        BY <1>1, <2>2 DEF written
      <3> QED
        BY <2>1, <3>1, AdaptedParts, FramesFollow
    <2>3. CASE frame # 0
      <3>1. frame \in 1 .. Len(sizes) /\ sizes[frame] \in Nat /\ StartOf(frame) \in Nat
        BY <2>3, WrittenType
      <3>2. written = StartOf(frame) + (sizes[frame] + 1)
        BY <1>1, <1>2, <2>3 DEF written
      <3>3. StartOf(frame') = StartOf(frame) + (sizes[frame] + 1)
        BY <1>1, <3>1, AdaptedParts, FramesFollow
      <3> QED
        BY <2>1, <3>1, <3>2, <3>3
    <2> QED
      BY <2>2, <2>3
  <1>9. ASSUME NEW p \in Nat, InTransit(p) PROVE InTransit(p)'
    <2>1. PICK p1, p2, p3, p4 \in Nat :
             /\ Between(din, p, p1) /\ Between(file, p1, p2) /\ Between(cout, p2, p3)
             /\ Between(enc.held, p3, p4) /\ Between(cin, p4, written)
      BY <1>9, TransitOrder
    <2>2. /\ Between(din', p, p1) /\ Between(file', p1, p2) /\ Between(cout', p2, p3)
          /\ Between((enc').held, p3, p4) /\ Between(cin', p4, written')
      BY <1>1, <1>2, <1>3, <1>8, <2>1
    <2> QED
      BY <1>1, <2>2, InTransitNext
  <1>10. Decoding'
    BY <1>1, <1>9, DecodingSame DEF decompressed
  <1>11. ZeroMeansComplete'
    BY <1>1, <1>4, <1>7, ZeroSame DEF decompressed
  <1> QED
    BY <1>6, <1>7, <1>10, <1>11 DEF AdaptedInv

(* More of the frame is read. *)
LEMMA FillInv == ASSUME AdaptedInv, Fill PROVE AdaptedInv'
  <1>1. /\ open /\ ~aborted
        /\ UNCHANGED <<algo, sizes, careful, frame, open, enc, unflushed, erred, aborted, cout, file,
                       dec, din, dout, piece, dret, received>>
    BY DEF Fill, receiver
  <1>2. PICK n \in 1 .. Least(CinSize - Len(cin), sizes[frame] - place) :
           /\ cin' = cin \o Data(frame, place, place + n)
           /\ place' = place + n
    BY DEF Fill
  <1>3. /\ frame # 0 /\ ~enc.over /\ (enc.ending => place = sizes[frame] /\ cin = << >>)
        /\ enc.avail_in <= Len(cin) /\ (~enc.ending => Len(enc.held) <= Hold)
    BY <1>1 DEF AdaptedInv, Encoding, InFrame
  <1>4. /\ frame \in 1 .. Len(sizes) /\ sizes[frame] \in Nat /\ StartOf(frame) \in Nat
        /\ place \in Nat /\ frame \in Nat /\ place <= sizes[frame] /\ written \in Nat
    BY <1>3, AdaptedParts, WrittenType
  <1>5. Len(cin) \in Nat /\ cin \in Seq(Wire) /\ Len(cin) <= CinSize /\ CinSize \in Nat
        /\ enc.avail_in \in Nat
    BY AdaptedParts, LenProperties, AdaptedConstants
       DEF AdaptedInv, AdaptedTypes, AdaptedTypeOK, Encoder
  <1>6. n \in Nat /\ n <= CinSize - Len(cin) /\ n <= sizes[frame] - place /\ n >= 1
    <2>1. CinSize - Len(cin) \in Nat /\ sizes[frame] - place \in Nat
      BY <1>4, <1>5
    <2>2. Least(CinSize - Len(cin), sizes[frame] - place) \in Nat
          /\ Least(CinSize - Len(cin), sizes[frame] - place) <= CinSize - Len(cin)
          /\ Least(CinSize - Len(cin), sizes[frame] - place) <= sizes[frame] - place
      BY <2>1, LeastOfTwo
    <2> QED
      BY <2>1, <2>2
  <1>7. ~enc.ending
    BY <1>3, <1>4, <1>6
  <1>8. place + n \in Nat /\ place <= place + n /\ place + n <= sizes[frame] /\ (place + n) - place = n
    BY <1>4, <1>6
  <1> DEFINE t == Data(frame, place, place + n)
  <1>9. t \in Seq(Wire) /\ Len(t) = n
    <2> DEFINE c == place + n
    <2>1. c \in Nat /\ place <= c /\ c - place = n
      BY <1>8
    <2> HIDE DEF c
    <2>2. Data(frame, place, c) \in Seq(Wire) /\ Len(Data(frame, place, c)) = c - place
      BY <1>4, <2>1, DataType
    <2> QED
      BY <2>1, <2>2 DEF c
  <1>10. Segment(t, StartOf(frame) + place)
    BY <1>4, <1>8, AdaptedParts, DataBelongs
  <1> HIDE DEF t
  <1>11. cin' = cin \o t /\ cin' \in Seq(Wire) /\ Len(cin') = Len(cin) + n
    BY <1>2, <1>5, <1>9, ConcatProperties DEF t
  <1>12. AdaptedTypes'
    <2>1. Len(cin') <= CinSize
      BY <1>5, <1>6, <1>11
    <2> QED
      BY <1>1, <1>2, <1>8, <1>11, <2>1 DEF AdaptedInv, AdaptedTypes, AdaptedTypeOK
  <1>13. Encoding'
    <2>1. (enc').avail_in <= Len(cin')
      BY <1>1, <1>3, <1>5, <1>6, <1>11
    <2>2. Callable'
      BY <1>1 DEF AdaptedInv, Encoding, Callable, NeverRefused, Acceptable
    <2> QED
      BY <1>1, <1>2, <1>3, <1>7, <1>8, <2>1, <2>2 DEF Encoding, InFrame
  <1>14. written = StartOf(frame) + place /\ written' = written + n
    <2>1. written = StartOf(frame) + (place + 0)
      BY <1>1, <1>3, <1>7 DEF written
    <2>2. written' = StartOf(frame) + ((place + n) + 0)
      BY <1>1, <1>2, <1>3, <1>7, SameFrames DEF written
    <2> QED
      BY <1>4, <1>6, <2>1, <2>2
  <1>15. ASSUME NEW p \in Nat, InTransit(p) PROVE InTransit(p)'
    <2>1. PICK p1, p2, p3, p4 \in Nat :
             /\ Between(din, p, p1) /\ Between(file, p1, p2) /\ Between(cout, p2, p3)
             /\ Between(enc.held, p3, p4) /\ Between(cin, p4, written)
      BY <1>15, TransitOrder
    <2>2. Between(cin \o t, p4, written + Len(t))
      <3>1. Segment(t, written)
        BY <1>10, <1>14
      <3> QED
        BY <1>4, <1>5, <1>9, <2>1, <3>1, BetweenMore
    <2>3. /\ Between(din', p, p1) /\ Between(file', p1, p2) /\ Between(cout', p2, p3)
          /\ Between((enc').held, p3, p4) /\ Between(cin', p4, written')
      BY <1>1, <1>9, <1>11, <1>14, <2>1, <2>2
    <2> QED
      BY <1>1, <2>3, InTransitNext
  <1>16. Decoding'
    BY <1>1, <1>15, DecodingSame DEF decompressed
  <1>17. ZeroMeansComplete'
    <2>1. frame' \in Nat /\ frame <= frame'
      BY <1>1, <1>4
    <2> QED
      BY <1>1, <1>13, <2>1, ZeroSame DEF decompressed
  <1> QED
    BY <1>12, <1>13, <1>16, <1>17 DEF AdaptedInv

(* What an encoder gives out goes from what it holds to the output. *)
LEMMA GivesOn ==
    ASSUME AdaptedInv, NEW kept \in Seq(Wire), NEW r,
           GivesFirst(r, enc, kept, CoutSize - Len(cout)),
           NEW p2 \in Nat, NEW p3 \in Nat, NEW q \in Nat,
           Between(cout, p2, p3), Between(kept, p3, q)
    PROVE  /\ cout \o r.out \in Seq(Wire) /\ Len(cout \o r.out) <= CoutSize
           /\ \E p \in Nat : Between(cout \o r.out, p2, p) /\ Between(r.ctx.held, p, q)
  <1>1. PICK m \in 0 .. Len(kept) :
           /\ m <= CoutSize - Len(cout) /\ r.out = First(m, kept)
           /\ r.ctx.held = After(m, kept)
    BY DEF GivesFirst
  <1>2. First(m, kept) \in Seq(Wire) /\ Len(First(m, kept)) = m
    BY FirstAndAfter
  <1>3. cout \in Seq(Wire) /\ Len(cout) \in Nat /\ CoutSize \in Nat /\ m \in Nat
    BY AdaptedParts, LenProperties, AdaptedConstants
  <1>4. /\ cout \o First(m, kept) \in Seq(Wire)
        /\ Len(cout \o First(m, kept)) = Len(cout) + m
    BY <1>2, <1>3, ConcatProperties
  <1>5. Between(cout \o First(m, kept), p2, p3 + m) /\ Between(After(m, kept), p3 + m, q)
    BY <1>3, BetweenMoves
  <1>6. Len(cout) + m <= CoutSize /\ p3 + m \in Nat
    BY <1>1, <1>3
  <1> QED
    BY <1>1, <1>4, <1>5, <1>6

(* compress() *)
LEMMA CompressMoreInv == ASSUME AdaptedInv, CompressMore PROVE AdaptedInv'
  <1>1. /\ open /\ ~aborted /\ cin # << >>
        /\ careful => ~unflushed /\ Len(cout) < CoutSize
        /\ UNCHANGED <<algo, sizes, careful, frame, place, open, unflushed, aborted, file,
                       dec, din, dout, piece, dret, received>>
    BY DEF CompressMore, receiver
  <1> DEFINE room == CoutSize - Len(cout)
  <1>2. PICK r \in Run(enc, cin, room) :
           /\ enc' = [r.ctx EXCEPT !.avail_in = AvailIn(r)]
           /\ cin' = After(r.used, cin)
           /\ cout' = cout \o r.out
           /\ erred' = (erred \/ CompressFails(r))
    BY DEF CompressMore
  <1>3. /\ frame # 0 /\ ~enc.over /\ ~enc.ending /\ place <= sizes[frame]
        /\ Len(enc.held) <= Hold
    BY <1>1 DEF AdaptedInv, Encoding, InFrame
  <1>4. /\ cin \in Seq(Wire) /\ cout \in Seq(Wire) /\ enc \in Encoder /\ Len(cin) \in Nat
        /\ room \in Nat /\ written \in Nat /\ enc.held \in Seq(Wire) /\ frame \in Nat
    <2>1. Len(cout) <= CoutSize
      BY DEF AdaptedInv, AdaptedTypes, AdaptedTypeOK
    <2>2. Len(cout) \in Nat /\ CoutSize \in Nat
      BY AdaptedParts, LenProperties, AdaptedConstants
    <2>3. room \in Nat
      BY <2>1, <2>2
    <2> HIDE DEF room
    <2> QED
      BY <2>3, AdaptedParts, LenProperties, WrittenType DEF Encoder
  <1> HIDE DEF room
  <1> DEFINE n == r.used
             kept == enc.held \o First(n, cin)
  <1>5. /\ r.ctx \in Encoder /\ ~r.ctx.over /\ ~r.ctx.ending
        /\ n \in 0 .. Len(cin) /\ GivesFirst(r, enc, kept, room) /\ Len(r.ctx.held) <= Hold
        /\ r.ctx.flushing = enc.flushing
        /\ ~Busy(enc) => r.ret # "PROG_ERROR" /\ (room > 0 => r.ret = "OK")
    BY <1>1, <1>3, <1>4, RunMoves
  <1> HIDE DEF n
  <1>6. /\ First(n, cin) \in Seq(Wire) /\ After(n, cin) \in Seq(Wire)
        /\ Len(After(n, cin)) = Len(cin) - n
    BY <1>4, <1>5, FirstAndAfter
  <1>7. kept \in Seq(Wire)
    BY <1>4, <1>6, ConcatProperties
  <1>8. AvailIn(r) \in Nat /\ AvailIn(r) <= Len(cin')
    <2>1. Len(cin') = Len(cin) - n
      BY <1>2, <1>6 DEF n
    <2>2. AvailIn(r) = Len(cin) - n \/ AvailIn(r) = 0
      BY DEF AvailIn, n
    <2> QED
      BY <1>4, <1>5, <2>1, <2>2
  <1>9. /\ enc' \in Encoder /\ ~(enc').over /\ ~(enc').ending
        /\ (enc').held = r.ctx.held /\ (enc').avail_in = AvailIn(r)
        /\ (enc').flushing = enc.flushing
    <2>1. ASSUME NEW c \in Encoder, NEW a \in Nat
          PROVE  /\ [c EXCEPT !.avail_in = a] \in Encoder
                 /\ [c EXCEPT !.avail_in = a].held = c.held
                 /\ [c EXCEPT !.avail_in = a].over = c.over
                 /\ [c EXCEPT !.avail_in = a].ending = c.ending
                 /\ [c EXCEPT !.avail_in = a].avail_in = a
                 /\ [c EXCEPT !.avail_in = a].flushing = c.flushing
      BY DEF Encoder
    <2> QED
      BY <1>2, <1>5, <1>8, <2>1
  <1> HIDE DEF kept
  <1>10. ASSUME NEW p \in Nat, InTransit(p)
         PROVE  InTransit(p)' /\ cout' \in Seq(Wire) /\ Len(cout') <= CoutSize
    <2>1. PICK p1, p2, p3, p4 \in Nat :
             /\ Between(din, p, p1) /\ Between(file, p1, p2) /\ Between(cout, p2, p3)
             /\ Between(enc.held, p3, p4) /\ Between(cin, p4, written)
      BY <1>10, TransitOrder
    <2>2. Between(kept, p3, p4 + n) /\ Between(After(n, cin), p4 + n, written)
      BY <1>4, <1>5, <2>1, BetweenMoves DEF kept
    <2>3. p4 + n \in Nat
      BY <1>4, <1>5
    <2>4. /\ cout \o r.out \in Seq(Wire) /\ Len(cout \o r.out) <= CoutSize
          /\ \E q \in Nat : Between(cout \o r.out, p2, q) /\ Between(r.ctx.held, q, p4 + n)
      <3>1. GivesFirst(r, enc, kept, CoutSize - Len(cout))
        BY <1>5 DEF room
      <3> QED
        BY <1>7, <2>1, <2>2, <2>3, <3>1, GivesOn
    <2>5. PICK q \in Nat : Between(cout \o r.out, p2, q) /\ Between(r.ctx.held, q, p4 + n)
      BY <2>4
    <2>6. written' = written
      BY <1>1, <1>3, <1>9, SameFrames DEF written
    <2>7. /\ Between(din', p, p1) /\ Between(file', p1, p2) /\ Between(cout', p2, q)
          /\ Between((enc').held, q, p4 + n) /\ Between(cin', p4 + n, written')
      BY <1>1, <1>2, <1>9, <2>1, <2>2, <2>5, <2>6 DEF n
    <2>8. InTransit(p)'
      BY <1>1, <2>3, <2>7, InTransitNext
    <2> QED
      BY <1>2, <2>4, <2>8
  <1>11. cout' \in Seq(Wire) /\ Len(cout') <= CoutSize
    BY <1>10, SomethingInTransit
  <1>12. AdaptedTypes'
    <2>1. cin' \in Seq(Wire) /\ Len(cin') <= CinSize
      <3>1. Len(cin) <= CinSize
        BY DEF AdaptedInv, AdaptedTypes, AdaptedTypeOK
      <3>2. cin' = After(n, cin)
        BY <1>2 DEF n
      <3> QED
        BY <1>4, <1>5, <1>6, <3>1, <3>2, AdaptedConstants
    <2>2. Len((enc').held) <= Hold + 1
      <3>1. Len(r.ctx.held) \in Nat
        BY <1>5, LenProperties DEF Encoder
      <3> QED
        BY <1>5, <1>9, <3>1, AdaptedConstants
    <2>3. erred' \in BOOLEAN
      BY <1>2
    <2> QED
      BY <1>1, <1>9, <1>11, <2>1, <2>2, <2>3 DEF AdaptedInv, AdaptedTypes, AdaptedTypeOK, Encoder
  <1>13. Encoding'
    <2>1. /\ algo \in {"xz", "zstd"} /\ Callable
          /\ careful /\ algo = "xz" => ~enc.flushing /\ room > 0
      <3>1. careful => room > 0
        <4>1. Len(cout) \in Nat /\ CoutSize \in Nat
          BY AdaptedParts, LenProperties, AdaptedConstants
        <4> QED
          BY <1>1, <4>1 DEF room
      <3> QED
        BY <1>1, <3>1, AdaptedParts DEF AdaptedInv, Encoding, Callable
    <2>2. Acceptable => ~CompressFails(r)
      BY <1>3, <1>5, <2>1 DEF Acceptable, Busy, CompressFails
    <2>3. algo = "zstd" => AvailIn(r) = 0
      BY DEF AvailIn
    <2>4. Callable'
      BY <1>1, <1>2, <1>9, <2>1, <2>2, <2>3 DEF Callable, NeverRefused, Acceptable
    <2> QED
      BY <1>1, <1>3, <1>5, <1>8, <1>9, <2>4 DEF Encoding, InFrame
  <1>14. Decoding'
    BY <1>1, <1>10, DecodingSame DEF decompressed
  <1>15. ZeroMeansComplete'
    <2>1. frame' \in Nat /\ frame <= frame'
      BY <1>1, <1>4
    <2> QED
      BY <1>1, <1>13, <2>1, ZeroSame DEF decompressed
  <1> QED
    BY <1>12, <1>13, <1>14, <1>15 DEF AdaptedInv

(* What flush() and end() give out goes the same way. *)
LEMMA EmptiesTransit ==
    ASSUME AdaptedInv, sizes' = sizes, UNCHANGED <<din, file, cin>>,
           NEW kept \in Seq(Wire), NEW r,
           GivesFirst(r, enc, kept, CoutSize - Len(cout)),
           cout' = cout \o r.out, (enc').held = r.ctx.held,
           \A p, q \in Nat : Between(enc.held, p, q) /\ Between(cin, q, written) =>
              \E u \in Nat : Between(kept, p, u) /\ Between(cin, u, written')
    PROVE  /\ \A p \in Nat : InTransit(p) => InTransit(p)'
           /\ cout' \in Seq(Wire) /\ Len(cout') <= CoutSize
  <1>1. ASSUME NEW p \in Nat, InTransit(p)
        PROVE  InTransit(p)' /\ cout' \in Seq(Wire) /\ Len(cout') <= CoutSize
    <2>1. PICK p1, p2, p3, p4 \in Nat :
             /\ Between(din, p, p1) /\ Between(file, p1, p2) /\ Between(cout, p2, p3)
             /\ Between(enc.held, p3, p4) /\ Between(cin, p4, written)
      BY <1>1, TransitOrder
    <2>2. PICK u \in Nat : Between(kept, p3, u) /\ Between(cin, u, written')
      BY <2>1
    <2>3. /\ cout \o r.out \in Seq(Wire) /\ Len(cout \o r.out) <= CoutSize
          /\ \E q \in Nat : Between(cout \o r.out, p2, q) /\ Between(r.ctx.held, q, u)
      BY <2>1, <2>2, GivesOn
    <2>4. PICK q \in Nat : Between(cout \o r.out, p2, q) /\ Between(r.ctx.held, q, u)
      BY <2>3
    <2>5. /\ Between(din', p, p1) /\ Between(file', p1, p2) /\ Between(cout', p2, q)
          /\ Between((enc').held, q, u) /\ Between(cin', u, written')
      BY <2>1, <2>2, <2>4
    <2>6. InTransit(p)'
      BY <2>5, InTransitNext
    <2> QED
      BY <2>3, <2>6
  <1> QED
    BY <1>1, SomethingInTransit

(* A call that fails an assertion, or is refused, and by a sender of which *)
(* nothing else is to be expected, changes nothing but that. *)
LEMMA OnlyNoted ==
    ASSUME AdaptedInv, ~Acceptable, erred' \in BOOLEAN, aborted' \in BOOLEAN,
           UNCHANGED <<algo, sizes, careful, frame, place, open, enc, unflushed, cin,
                       cout, file, dec, din, dout, piece, dret, received>>
    PROVE  AdaptedInv'
  <1>1. AdaptedTypes'
    BY DEF AdaptedInv, AdaptedTypes, AdaptedTypeOK
  <1>2. Encoding'
    BY DEF AdaptedInv, Encoding, Callable, NeverRefused, Acceptable, InFrame, BetweenFrames
  <1>3. written' = written
    BY SameFrames DEF written
  <1>4. ASSUME NEW p \in Nat, InTransit(p) PROVE InTransit(p)'
    <2>1. PICK p1, p2, p3, p4 \in Nat :
             /\ Between(din, p, p1) /\ Between(file, p1, p2) /\ Between(cout, p2, p3)
             /\ Between(enc.held, p3, p4) /\ Between(cin, p4, written)
      BY <1>4, TransitOrder
    <2>2. /\ Between(din', p, p1) /\ Between(file', p1, p2) /\ Between(cout', p2, p3)
          /\ Between((enc').held, p3, p4) /\ Between(cin', p4, written')
      BY <1>3, <2>1
    <2> QED
      BY <2>2, InTransitNext
  <1>5. Decoding'
    BY <1>4, DecodingSame DEF decompressed
  <1>6. ZeroMeansComplete'
    <2>1. frame' \in Nat /\ frame <= frame'
      BY AdaptedParts
    <2> QED
      BY <1>2, <2>1, ZeroSame DEF decompressed
  <1> QED
    BY <1>1, <1>2, <1>5, <1>6 DEF AdaptedInv

(* The assertions of xz_flush() and xz_end() fail for no other sender.     *)
LEMMA AbortsInv ==
    ASSUME AdaptedInv, NEW results, NEW close, Empties(results, close), enc.avail_in # 0
    PROVE  AdaptedInv'
  <1>1. /\ careful => cin = << >> \/ unflushed
        /\ aborted' = TRUE
        /\ UNCHANGED <<algo, sizes, careful, frame, place, open, enc, unflushed, cin, erred,
                       cout, file, dec, din, dout, piece, dret, received>>
    BY DEF Empties, receiver
  <1>2. cin # << >>
    <2>1. enc.avail_in <= Len(cin) /\ enc.avail_in \in Nat
      BY AdaptedParts DEF AdaptedInv, Encoding, Encoder
    <2> QED
      BY <2>1, EmptySeq
  <1>3. ~Acceptable
    BY <1>1, <1>2 DEF AdaptedInv, Encoding, Callable, Acceptable
  <1>4. erred' \in BOOLEAN /\ aborted' \in BOOLEAN
    BY <1>1, AdaptedParts
  <1> QED
    BY <1>1, <1>3, <1>4, OnlyNoted

(* What is left of a sequence, without its first bytes, is no longer. *)
LEMMA GivesLess ==
    ASSUME NEW kept \in Seq(Wire), NEW e, NEW room, NEW r, GivesFirst(r, e, kept, room)
    PROVE  r.ctx.held \in Seq(Wire) /\ Len(r.ctx.held) <= Len(kept)
  <1>1. PICK m \in 0 .. Len(kept) : r.ctx.held = After(m, kept)
    BY DEF GivesFirst
  <1>2. After(m, kept) \in Seq(Wire) /\ Len(After(m, kept)) = Len(kept) - m /\ Len(kept) \in Nat
    BY FirstAndAfter, LenProperties
  <1> QED
    BY <1>1, <1>2

(* flush() and end() have nothing left exactly when they are told so.      *)
LEMMA NothingLeft ==
    ASSUME AdaptedInv, NEW r, NEW e, NEW room, NEW over, GaveOut(r, e, room, over)
    PROVE  LeftToFlush(r) # ERR_UNK /\ (LeftToFlush(r) = 0 <=> r.ret = "STREAM_END")
  <1>1. algo \in {"xz", "zstd"}
    BY AdaptedParts
  <1>2. CASE algo = "xz"
    BY <1>2 DEF LeftToFlush, XzLeft, ERR_UNK, GaveOut
  <1>3. CASE algo = "zstd"
    <2>1. r.ctx.held \in Seq(Wire)
      BY DEF Encoder, GaveOut
    <2>2. Len(r.ctx.held) \in Nat /\ (Len(r.ctx.held) = 0 <=> r.ctx.held = << >>)
      BY <2>1, EmptySeq, LenProperties
    <2>3. LeftToFlush(r) = Len(r.ctx.held)
      BY <1>3 DEF LeftToFlush, ZstdLeft
    <2>4. r.ctx.held = << >> <=> r.ret = "STREAM_END"
      BY <1>3 DEF GaveOut
    <2> QED
      BY <2>2, <2>3, <2>4 DEF ERR_UNK
  <1> QED
    BY <1>1, <1>2, <1>3

(* There is room in the output, or none. *)
LEMMA RoomType == ASSUME AdaptedInv PROVE CoutSize - Len(cout) \in Nat
  <1>1. Len(cout) <= CoutSize
    BY DEF AdaptedInv, AdaptedTypes, AdaptedTypeOK
  <1>2. Len(cout) \in Nat /\ CoutSize \in Nat
    BY AdaptedParts, LenProperties, AdaptedConstants
  <1> QED
    BY <1>1, <1>2

(* flush() *)
LEMMA FlushInv == ASSUME AdaptedInv, Flush, enc.avail_in = 0 PROVE AdaptedInv'
  <1>1. /\ ~enc.ending /\ open /\ ~aborted
        /\ UNCHANGED <<algo, sizes, careful, frame, place, cin, file,
                       dec, din, dout, piece, dret, received>>
    BY DEF Flush, Empties, receiver
  <1>2. /\ frame # 0 /\ ~enc.over /\ enc.avail_in <= Len(cin) /\ Len(enc.held) <= Hold
        /\ place <= sizes[frame]
    BY <1>1 DEF AdaptedInv, Encoding, InFrame
  <1> DEFINE room == CoutSize - Len(cout)
  <1>3. room \in Nat /\ enc \in Encoder /\ enc.held \in Seq(Wire) /\ Len(enc.held) \in Nat
    BY RoomType, AdaptedParts, LenProperties DEF Encoder
  <1>4. PICK r \in Flushed(enc, room) :
           /\ enc' = Renewed(r.ctx, NewEnc) /\ cout' = cout \o r.out
           /\ open' = ~(FALSE /\ LeftToFlush(r) = 0) /\ UNCHANGED aborted
           /\ unflushed' = (LeftToFlush(r) # 0)
           /\ erred' = (erred \/ LeftToFlush(r) = ERR_UNK)
    BY DEF Flush, Empties
  <1> HIDE DEF room
  <1>5. GaveOut(r, enc, room, FALSE)
    <2>1. r \in GivesOut(enc, room, FALSE)
      BY <1>1, <1>2, <1>3, <1>4, FlushGivesOut
    <2>2. FALSE \in BOOLEAN /\ algo \in {"xz", "zstd"}
      BY AdaptedParts
    <2> QED
      BY <1>3, <2>1, <2>2, GivesOutAll
  <1>6. /\ r.ctx \in Encoder /\ ~r.ctx.ending /\ ~r.ctx.over
        /\ GivesFirst(r, enc, enc.held, room)
        /\ r.ctx.flushing => algo = "xz" /\ r.ret # "STREAM_END"
    BY <1>1, <1>5 DEF GaveOut
  <1>7. enc' = r.ctx /\ open' = TRUE /\ r.ctx.avail_in = 0
    BY <1>4, <1>6 DEF Renewed, GivesFirst
  <1>8. /\ erred' = erred /\ (unflushed' <=> r.ret # "STREAM_END")
        /\ {careful, unflushed, erred, aborted}' \subseteq BOOLEAN
    <2>1. LeftToFlush(r) # ERR_UNK /\ (LeftToFlush(r) = 0 <=> r.ret = "STREAM_END")
      BY <1>5, NothingLeft
    <2>2. {careful, unflushed, erred, aborted} \subseteq BOOLEAN
      BY AdaptedParts
    <2> QED
      BY <1>1, <1>4, <2>1, <2>2
  <1>9. written' = written
    BY <1>1, <1>2, <1>6, <1>7, SameFrames DEF written
  <1>10. /\ \A p \in Nat : InTransit(p) => InTransit(p)'
         /\ cout' \in Seq(Wire) /\ Len(cout') <= CoutSize
    <2>1. GivesFirst(r, enc, enc.held, CoutSize - Len(cout))
      BY <1>6 DEF room
    <2> QED
      BY <1>1, <1>3, <1>4, <1>7, <1>9, <2>1, EmptiesTransit
  <1>11. Len(r.ctx.held) <= Hold /\ Len(r.ctx.held) <= Hold + 1
    <2>1. r.ctx.held \in Seq(Wire) /\ Len(r.ctx.held) <= Len(enc.held)
      BY <1>3, <1>6, GivesLess
    <2>2. Len(r.ctx.held) \in Nat
      BY <2>1, LenProperties
    <2> QED
      BY <1>2, <1>3, <2>1, <2>2, AdaptedConstants
  <1>12. AdaptedTypes'
    BY <1>1, <1>6, <1>7, <1>8, <1>10, <1>11
       DEF AdaptedInv, AdaptedTypes, AdaptedTypeOK, Encoder
  <1>13. Encoding'
    <2>1. Callable'
      BY <1>1, <1>4, <1>6, <1>7, <1>8
         DEF AdaptedInv, Encoding, Callable, NeverRefused, Acceptable
    <2> QED
      BY <1>1, <1>2, <1>6, <1>7, <1>11, <2>1 DEF Encoding, InFrame
  <1>14. Decoding'
    BY <1>1, <1>10, DecodingSame DEF decompressed
  <1>15. ZeroMeansComplete'
    <2>1. frame' \in Nat /\ frame <= frame'
      BY <1>1, AdaptedParts
    <2> QED
      BY <1>1, <1>13, <2>1, ZeroSame DEF decompressed
  <1> QED
    BY <1>12, <1>13, <1>14, <1>15 DEF AdaptedInv

(* end(): the end of the frame follows what is held, once. *)
LEMMA EndFrameInv ==
    ASSUME AdaptedInv, EndFrame, enc.avail_in = 0 PROVE AdaptedInv'
  <1>1. /\ open /\ ~aborted /\ cin = << >> /\ place = sizes[frame] /\ (careful => ~unflushed)
        /\ UNCHANGED <<algo, sizes, careful, frame, place, cin, file,
                       dec, din, dout, piece, dret, received>>
    BY DEF EndFrame, Empties, receiver
  <1>2. frame # 0 /\ ~enc.over /\ (~enc.ending => Len(enc.held) <= Hold)
    BY <1>1 DEF AdaptedInv, Encoding, InFrame
  <1> DEFINE room == CoutSize - Len(cout)
             kept == IF enc.ending THEN enc.held ELSE enc.held \o <<FrameEnd>>
             e == Ending(enc)
  <1>3. /\ room \in Nat /\ enc \in Encoder /\ enc.held \in Seq(Wire)
        /\ Len(enc.held) \in Nat /\ Len(enc.held) <= Hold + 1 /\ Hold \in Nat
    <2>1. Len(enc.held) <= Hold + 1
      BY DEF AdaptedInv, AdaptedTypes, AdaptedTypeOK
    <2>2. room \in Nat
      BY RoomType
    <2> HIDE DEF room
    <2> QED
      BY <2>1, <2>2, AdaptedParts, LenProperties, AdaptedConstants DEF Encoder
  <1>4. PICK r \in Finish(enc, room) :
           /\ enc' = Renewed(r.ctx, NewEnc) /\ cout' = cout \o r.out
           /\ open' = ~(TRUE /\ LeftToFlush(r) = 0) /\ UNCHANGED <<unflushed, aborted>>
           /\ erred' = (erred \/ LeftToFlush(r) = ERR_UNK)
    BY DEF EndFrame, Empties
  <1> HIDE DEF room
  <1>5. CASE algo = "xz" /\ enc.flushing
    <2>1. r \in Refused(enc)
      BY <1>2, <1>3, <1>4, <1>5, FinishGivesOut
    <2>2. r.ctx = enc /\ r.out = << >> /\ r.ret = "PROG_ERROR"
      BY <1>3, <2>1, NoneMoved
    <2>3. LeftToFlush(r) = ERR_UNK
      BY <1>5, <2>2 DEF LeftToFlush, XzLeft
    <2>4. enc' = enc /\ open' = open
      <3>1. algo # "zstd"
        BY <1>5
      <3>2. LeftToFlush(r) # 0
        BY <2>3 DEF ERR_UNK
      <3>3. enc' = enc
        BY <1>4, <2>2, <3>1 DEF Renewed
      <3>4. open' = TRUE /\ open = TRUE
        BY <1>1, <1>4, <3>2, AdaptedParts
      <3> QED
        BY <3>3, <3>4
    <2>5. cout' = cout
      <3>1. cout \in Seq(Wire)
        BY AdaptedParts
      <3> QED
        BY <1>4, <2>2, <3>1, ConcatEmptySeq
    <2>6. erred' \in BOOLEAN /\ aborted' \in BOOLEAN
      BY <1>4, AdaptedParts
    <2>7. ~Acceptable
      BY <1>1, <1>5 DEF AdaptedInv, Encoding, Callable, Acceptable
    <2> QED
      BY <1>1, <1>4, <2>4, <2>5, <2>6, <2>7, OnlyNoted
  <1>6. CASE ~(algo = "xz" /\ enc.flushing)
    <2>1. /\ e \in Encoder /\ e.ending /\ e.avail_in = 0 /\ e.held = kept
      BY <1>3, EndingType
    <2>2. r \in GivesOut(e, room, TRUE)
      BY <1>2, <1>3, <1>4, <1>6, FinishGivesOut
    <2>3. kept \in Seq(Wire) /\ Len(kept) <= Hold + 1
      <3>1. <<FrameEnd>> \in Seq(Wire) /\ Len(<<FrameEnd>>) = 1
        BY OnTheWire
      <3>2. /\ enc.held \o <<FrameEnd>> \in Seq(Wire)
            /\ Len(enc.held \o <<FrameEnd>>) = Len(enc.held) + 1
        BY <1>3, <3>1, ConcatProperties
      <3>3. CASE enc.ending
        BY <1>3, <3>3
      <3>4. CASE ~enc.ending
        BY <1>2, <1>3, <3>2, <3>4
      <3> QED
        BY <3>3, <3>4
    <2> HIDE DEF kept, e
    <2>4. GaveOut(r, e, room, TRUE)
      <3>1. TRUE \in BOOLEAN /\ algo \in {"xz", "zstd"}
        BY AdaptedParts
      <3> QED
        BY <1>3, <2>1, <2>2, <3>1, GivesOutAll
    <2>5. /\ r.ctx \in Encoder /\ r.ctx.ending /\ ~r.ctx.flushing
          /\ r.ctx.over <=> r.ret = "STREAM_END"
          /\ r.ret = "STREAM_END" => r.ctx.held = << >>
          /\ GivesFirst(r, enc, kept, CoutSize - Len(cout)) /\ r.ctx.avail_in = 0
      BY <2>1, <2>4 DEF GaveOut, GivesFirst, room
    <2>6. /\ open' <=> r.ret # "STREAM_END"
          /\ open' \in BOOLEAN /\ UNCHANGED <<unflushed, erred, aborted>>
      <3>1. LeftToFlush(r) # ERR_UNK /\ (LeftToFlush(r) = 0 <=> r.ret = "STREAM_END")
        BY <2>4, NothingLeft
      <3> QED
        BY <1>4, <3>1, AdaptedParts
    <2>7. NewEnc \in Encoder /\ NewEnc.held = << >> /\ NewEnc.avail_in = 0 /\ ~NewEnc.flushing
      BY EmptySeq DEF NewEnc, Encoder
    <2>8. /\ enc' \in Encoder /\ (enc').held = r.ctx.held /\ (enc').avail_in = 0
          /\ ~(enc').flushing
          /\ open' => enc' = r.ctx
          /\ ~open' /\ algo # "xz" => enc' = NewEnc
          /\ enc' = r.ctx \/ enc' = NewEnc
      <3>1. algo \in {"xz", "zstd"}
        BY AdaptedParts
      <3> QED
        BY <1>4, <2>5, <2>6, <2>7, <3>1 DEF Renewed
    <2>9. /\ frame \in 1 .. Len(sizes) /\ sizes[frame] \in Nat /\ StartOf(frame) \in Nat
          /\ place \in Nat /\ HasFrames
      BY <1>2, AdaptedParts, WrittenType
    <2>10. written' = StartOf(frame) + (place + 1) /\ written' \in Nat
      <3>1. ~open' \/ (enc').ending
        BY <2>5, <2>8
      <3>2. written' = StartOf(frame) + (place + 1)
        BY <1>1, <1>2, <3>1, SameFrames DEF written
      <3> QED
        BY <2>9, <3>2
    <2>11. ASSUME NEW q \in Nat, Between(enc.held, q, written) PROVE Between(kept, q, written')
      <3>1. CASE enc.ending
        <4>1. written = StartOf(frame) + (place + 1)
          BY <1>2, <3>1 DEF written
        <4> QED
          BY <2>10, <2>11, <3>1, <4>1 DEF kept
      <3>2. CASE ~enc.ending
        <4>1. written = StartOf(frame) + (place + 0)
          BY <1>1, <1>2, <3>2 DEF written
        <4>2. written = StartOf(frame) + sizes[frame] /\ written' = written + 1 /\ written \in Nat
          <5> DEFINE a == StartOf(frame)
          <5>1. a \in Nat /\ written = a + (place + 0) /\ written' = a + (place + 1)
            BY <2>9, <2>10, <4>1
          <5> HIDE DEF a
          <5>2. written = a + place /\ written' = written + 1 /\ written \in Nat
            BY <2>9, <5>1
          <5> QED
            BY <1>1, <5>2 DEF a
        <4>3. Segment(<<FrameEnd>>, written)
          BY <2>9, <4>2, EndBelongs
        <4>4. <<FrameEnd>> \in Seq(Wire) /\ Len(<<FrameEnd>>) = 1
          BY OnTheWire
        <4>5. Between(enc.held \o <<FrameEnd>>, q, written + Len(<<FrameEnd>>))
          BY <1>3, <2>11, <4>2, <4>3, <4>4, BetweenMore
        <4> QED
          BY <3>2, <4>2, <4>4, <4>5 DEF kept
      <3> QED
        BY <3>1, <3>2
    <2>12. ASSUME NEW p \in Nat, NEW q \in Nat, Between(enc.held, p, q), Between(cin, q, written)
           PROVE  \E u \in Nat : Between(kept, p, u) /\ Between(cin, u, written')
      <3>1. written = q
        <4>1. written = q + Len(cin) /\ Len(cin) = 0
          BY <1>1, <2>12, EmptySeq DEF Between
        <4> QED
          BY <4>1
      <3>2. Between(kept, p, written') /\ Between(cin, written', written')
        BY <1>1, <2>10, <2>11, <2>12, <3>1, BetweenNone
      <3> QED
        BY <2>10, <3>2
    <2>13. /\ \A p \in Nat : InTransit(p) => InTransit(p)'
           /\ cout' \in Seq(Wire) /\ Len(cout') <= CoutSize
      BY <1>1, <1>4, <2>3, <2>5, <2>8, <2>12, EmptiesTransit
    <2>14. Len((enc').held) <= Hold + 1
      <3>1. r.ctx.held \in Seq(Wire) /\ Len(r.ctx.held) <= Len(kept)
        BY <2>3, <2>5, GivesLess
      <3>2. Len(r.ctx.held) \in Nat /\ Len(kept) \in Nat
        BY <2>3, <3>1, LenProperties
      <3> QED
        BY <1>3, <2>3, <2>8, <3>1, <3>2
    <2>15. AdaptedTypes'
      BY <1>1, <2>6, <2>8, <2>13, <2>14
         DEF AdaptedInv, AdaptedTypes, AdaptedTypeOK, Encoder
    <2>16. Encoding'
      <3>1. 0 <= Len(cin) /\ Len(<< >>) <= Hold
        BY <1>1, <1>3, EmptySeq
      <3>2. place <= sizes[frame]
        BY <1>1, <2>9
      <3>3. ~(enc').ending => Len((enc').held) <= Hold
        BY <2>5, <2>7, <2>8, <3>1
      <3>4. Callable'
        BY <1>1, <2>6, <2>8 DEF AdaptedInv, Encoding, Callable, NeverRefused, Acceptable
      <3>5. CASE open'
        <4>1. InFrame'
          BY <1>1, <1>2, <2>5, <2>6, <2>8, <3>5 DEF InFrame
        <4> QED
          BY <1>1, <1>2, <2>8, <3>1, <3>2, <3>3, <3>4, <3>5, <4>1 DEF Encoding
      <3>6. CASE ~open'
        <4>1. BetweenFrames'
          BY <1>1, <2>5, <2>6, <2>8, <3>6 DEF BetweenFrames, NewEnc
        <4> QED
          BY <1>1, <1>2, <2>8, <3>1, <3>2, <3>3, <3>4, <3>6, <4>1 DEF Encoding
      <3> QED
        BY <3>5, <3>6
    <2>17. Decoding'
      BY <1>1, <2>13, DecodingSame DEF decompressed
    <2>18. ZeroMeansComplete'
      <3>1. frame' \in Nat /\ frame <= frame'
        BY <1>1, AdaptedParts
      <3> QED
        BY <1>1, <2>16, <3>1, ZeroSame DEF decompressed
    <2> QED
      BY <2>15, <2>16, <2>17, <2>18 DEF AdaptedInv
  <1> QED
    BY <1>5, <1>6

(* The output is written to the file. *)
LEMMA WriteOutInv == ASSUME AdaptedInv, WriteOut PROVE AdaptedInv'
  <1>1. /\ file' = file \o cout /\ cout' = << >>
        /\ UNCHANGED <<algo, sizes, careful, frame, place, open, enc, unflushed, cin, erred, aborted,
                       dec, din, dout, piece, dret, received>>
    BY DEF WriteOut, sender, receiver
  <1>2. cout \in Seq(Wire) /\ file \in Seq(Wire) /\ CoutSize \in Nat
    BY AdaptedParts, AdaptedConstants
  <1>3. file' \in Seq(Wire) /\ cout' \in Seq(Wire) /\ Len(cout') <= CoutSize
    BY <1>1, <1>2, ConcatProperties, EmptySeq
  <1>4. AdaptedTypes'
    BY <1>1, <1>3 DEF AdaptedInv, AdaptedTypes, AdaptedTypeOK
  <1>5. UNCHANGED sender
    BY <1>1 DEF sender
  <1>6. Encoding' /\ written' = written
    BY <1>1, <1>5, SenderSame
  <1>7. ASSUME NEW p \in Nat, InTransit(p) PROVE InTransit(p)'
    <2>1. PICK p1, p2, p3, p4 \in Nat :
             /\ Between(din, p, p1) /\ Between(file, p1, p2) /\ Between(cout, p2, p3)
             /\ Between(enc.held, p3, p4) /\ Between(cin, p4, written)
      BY <1>7, TransitOrder
    <2>2. Between(file \o cout, p1, p3) /\ Between(<< >>, p3, p3)
      BY <1>2, <2>1, BetweenBoth
    <2>3. /\ Between(din', p, p1) /\ Between(file', p1, p3) /\ Between(cout', p3, p3)
          /\ Between((enc').held, p3, p4) /\ Between(cin', p4, written')
      BY <1>1, <1>6, <2>1, <2>2
    <2> QED
      BY <1>1, <2>3, InTransitNext
  <1>8. Decoding'
    BY <1>1, <1>7, DecodingSame DEF decompressed
  <1>9. ZeroMeansComplete'
    <2>1. frame' \in Nat /\ frame <= frame'
      BY <1>1, AdaptedParts
    <2> QED
      BY <1>1, <1>6, <2>1, ZeroSame DEF decompressed
  <1> QED
    BY <1>4, <1>6, <1>8, <1>9 DEF AdaptedInv

----------------------------------------------------------------------------
(* The steps of the receiver                                               *)
(*                                                                         *)
(* It reads on in the file. *)
LEMMA ReadInInv == ASSUME AdaptedInv, ReadIn PROVE AdaptedInv'
  <1>1. /\ din = << >>
        /\ UNCHANGED <<algo, sizes, careful, frame, place, open, enc, unflushed, cin, erred, aborted,
                       cout, dec, dout, dret, received>>
    BY DEF ReadIn, sender
  <1>2. PICK n \in 1 .. Least(DinSize, Len(file)) :
           din' = First(n, file) /\ piece' = n /\ file' = After(n, file)
    BY DEF ReadIn
  <1>3. file \in Seq(Wire) /\ Len(file) \in Nat /\ DinSize \in Nat
    BY AdaptedParts, LenProperties, AdaptedConstants
  <1>4. n \in Nat /\ n <= DinSize /\ n \in 0 .. Len(file)
    <2>1. /\ Least(DinSize, Len(file)) \in Nat
          /\ Least(DinSize, Len(file)) <= DinSize /\ Least(DinSize, Len(file)) <= Len(file)
      BY <1>3, LeastOfTwo
    <2> QED
      BY <1>3, <2>1
  <1>5. /\ First(n, file) \in Seq(Wire) /\ Len(First(n, file)) = n
        /\ After(n, file) \in Seq(Wire)
    BY <1>3, <1>4, FirstAndAfter
  <1>6. AdaptedTypes'
    BY <1>1, <1>2, <1>4, <1>5 DEF AdaptedInv, AdaptedTypes, AdaptedTypeOK
  <1>7. Encoding' /\ written' = written
    <2>1. UNCHANGED sender
      BY <1>1 DEF sender
    <2> QED
      BY <1>1, <2>1, SenderSame
  <1>8. ASSUME NEW p \in Nat, InTransit(p) PROVE InTransit(p)'
    <2>1. PICK p1, p2, p3, p4 \in Nat :
             /\ Between(din, p, p1) /\ Between(file, p1, p2) /\ Between(cout, p2, p3)
             /\ Between(enc.held, p3, p4) /\ Between(cin, p4, written)
      BY <1>8, TransitOrder
    <2>2. p1 = p
      <3>1. p1 = p + Len(din) /\ Len(din) = 0
        BY <1>1, <2>1, EmptySeq DEF Between
      <3> QED
        BY <3>1
    <2>3. Segment(First(n, file), p) /\ Between(After(n, file), p + n, p2)
      BY <1>3, <1>4, <2>1, <2>2, BetweenLess
    <2>4. Between(First(n, file), p, p + n) /\ p + n \in Nat
      BY <1>4, <1>5, <2>3 DEF Between
    <2>5. /\ Between(din', p, p + n) /\ Between(file', p + n, p2) /\ Between(cout', p2, p3)
          /\ Between((enc').held, p3, p4) /\ Between(cin', p4, written')
      BY <1>1, <1>2, <1>7, <2>1, <2>3, <2>4
    <2> QED
      BY <1>1, <2>4, <2>5, InTransitNext
  <1>9. Decoding'
    BY <1>1, <1>8, DecodingSame DEF decompressed
  <1>10. ZeroMeansComplete'
    <2>1. frame' \in Nat /\ frame <= frame'
      BY <1>1, AdaptedParts
    <2> QED
      BY <1>1, <1>7, <2>1, ZeroSame DEF decompressed
  <1> QED
    BY <1>6, <1>7, <1>9, <1>10 DEF AdaptedInv

(* It takes the output away. *)
LEMMA TakeOutInv ==
    ASSUME AdaptedInv, TakeOut
    PROVE  AdaptedInv' /\ decompressed' = decompressed
  <1>1. /\ received' = received \o dout /\ dout' = << >>
        /\ UNCHANGED <<algo, sizes, careful, frame, place, open, enc, unflushed, cin, erred, aborted,
                       cout, file, dec, din, piece, dret>>
    BY DEF TakeOut, sender
  <1>2. decompressed \in Seq(Wire) /\ DoutSize \in Nat
    BY AdaptedParts, AdaptedConstants
  <1>3. received' = decompressed
    BY <1>1 DEF decompressed
  <1>4. decompressed' = decompressed
    <2>1. decompressed' = decompressed \o << >>
      BY <1>1, <1>3 DEF decompressed
    <2> QED
      BY <1>2, <2>1, ConcatEmptySeq
  <1>5. AdaptedTypes'
    <2>1. Len(dout') <= DoutSize /\ dout' \in Seq(Wire)
      BY <1>1, <1>2, EmptySeq
    <2> QED
      BY <1>1, <1>2, <1>3, <2>1 DEF AdaptedInv, AdaptedTypes, AdaptedTypeOK
  <1>6. Encoding' /\ written' = written
    <2>1. UNCHANGED sender
      BY <1>1 DEF sender
    <2> QED
      BY <1>1, <2>1, SenderSame
  <1>7. ASSUME NEW p \in Nat, InTransit(p) PROVE InTransit(p)'
    <2>1. PICK p1, p2, p3, p4 \in Nat :
             /\ Between(din, p, p1) /\ Between(file, p1, p2) /\ Between(cout, p2, p3)
             /\ Between(enc.held, p3, p4) /\ Between(cin, p4, written)
      BY <1>7, TransitOrder
    <2>2. /\ Between(din', p, p1) /\ Between(file', p1, p2) /\ Between(cout', p2, p3)
          /\ Between((enc').held, p3, p4) /\ Between(cin', p4, written')
      BY <1>1, <1>6, <2>1
    <2> QED
      BY <1>1, <2>2, InTransitNext
  <1>8. Decoding'
    BY <1>1, <1>4, <1>7, DecodingSame
  <1>9. ZeroMeansComplete'
    <2>1. frame' \in Nat /\ frame <= frame'
      BY <1>1, AdaptedParts
    <2> QED
      BY <1>1, <1>4, <1>6, <2>1, ZeroSame
  <1> QED
    BY <1>4, <1>5, <1>6, <1>8, <1>9 DEF AdaptedInv

(* What is written is before the frames that have not begun. *)
LEMMA WrittenBefore ==
    ASSUME AdaptedInv, NEW g \in 1 .. Len(sizes) + 1, frame < g
    PROVE  written <= StartOf(g)
  <1>1. StartOf(g) \in Nat
    BY AdaptedParts, FramesFollow
  <1>2. CASE frame = 0
    BY <1>1, <1>2 DEF written
  <1>3. CASE frame # 0
    <2>1. /\ frame \in 1 .. Len(sizes) /\ sizes[frame] \in Nat /\ StartOf(frame) \in Nat
          /\ place <= sizes[frame] /\ place \in Nat
          /\ written \in {StartOf(frame) + place, StartOf(frame) + (place + 1)}
      BY <1>3, WrittenType, AdaptedParts
    <2>2. StartOf(frame) + (sizes[frame] + 1) <= StartOf(g)
      BY <2>1, AdaptedParts, FramesApart
    <2> QED
      BY <1>1, <2>1, <2>2
  <1> QED
    BY <1>2, <1>3

(* decompress() returns 0 when the frame is complete, and only then. *)
LEMMA ZeroAtEnd ==
    ASSUME AdaptedInv, piece > 0, NEW r, r.ret \in {"STREAM_END", "OK", "BUF_ERROR"}
    PROVE  /\ Hint(r) = 0 <=> r.ret = "STREAM_END"
           /\ Hint(r) \in {ERR_UNK} \cup 0 .. RecInSize
  <1>1. RecInSize \in Nat /\ RecInSize >= 1 /\ piece \in Nat
    BY AdaptedConstants, AdaptedParts
  <1>2. Least(RecInSize, piece) \in Nat /\ Least(RecInSize, piece) <= RecInSize
        /\ Least(RecInSize, piece) # 0
    BY <1>1, LeastOfTwo
  <1>3. XzHint(r) = 0 <=> r.ret = "STREAM_END"
    BY <1>2 DEF XzHint, ERR_UNK
  <1>4. XzHint(r) \in {ERR_UNK} \cup 0 .. RecInSize
    BY <1>1, <1>2 DEF XzHint
  <1>5. (ZstdHint(r) = 0 <=> r.ret = "STREAM_END") /\ ZstdHint(r) \in 0 .. RecInSize
    BY <1>1 DEF ZstdHint
  <1> QED
    BY <1>3, <1>4, <1>5 DEF Hint

(* decompress(): when it returns 0, the next call begins the next frame,   *)
(* and else it goes on in this one.                                        *)
LEMMA DecompressMoreInv ==
    ASSUME AdaptedInv, DecompressMore
    PROVE  AdaptedInv' /\ Extends(decompressed, decompressed')
  <1>1. /\ piece > 0
        /\ UNCHANGED <<algo, sizes, careful, frame, place, open, enc, unflushed, cin, erred, aborted,
                       cout, file, piece, received>>
    BY DEF DecompressMore, sender
  <1> DEFINE room == DoutSize - Len(dout)
  <1>2. PICK r \in Decode(Decoder, din, room) :
           /\ dec' = Renewed(r.ctx, NewDec) /\ din' = After(r.used, din)
           /\ dout' = dout \o r.out /\ dret' = Hint(r)
    BY DEF DecompressMore, Decoder
  <1>3. PICK g \in 1 .. Len(sizes) + 1, b \in Nat :
           /\ decompressed \o Decoder.held = DataBefore[g] \o Data(g, 0, b)
           /\ DecodesFrame(Decoder, g, b)
           /\ InTransit(ReadTo(Decoder, g, b))
    BY DEF AdaptedInv, Decoding
  <1>4. /\ HasFrames /\ Len(sizes) \in Nat /\ din \in Seq(Wire) /\ Len(din) \in Nat
        /\ dout \in Seq(Wire) /\ Len(dout) \in Nat /\ received \in Seq(Wire)
        /\ Decoder \in DecoderType /\ decompressed \in Seq(Wire)
        /\ Len(din) <= DinSize /\ Len(dout) <= DoutSize /\ DoutSize \in Nat
        /\ algo \in {"xz", "zstd"} /\ frame \in 0 .. Len(sizes)
        /\ StartOf(g) \in Nat /\ written \in Nat /\ DinSize \in Nat
    BY AdaptedParts, LenProperties, AdaptedConstants, FramesFollow, WrittenType
       DEF AdaptedInv, AdaptedTypes, AdaptedTypeOK
  <1>5. room \in Nat
    BY <1>4
  <1> HIDE DEF room
  <1>6. PICK p \in Nat : p = ReadTo(Decoder, g, b)
    <2>1. ReadTo(Decoder, g, b) \in Nat
      BY ReadToType
    <2> QED
      BY <2>1
  <1>7. InTransit(p) /\ p + Len(din) <= written
    <2>1. InTransit(p)
      BY <1>3, <1>6
    <2> QED
      BY <2>1, TransitOrder
  <1>8. PICK p1, p2, p3, p4 \in Nat :
           /\ Between(din, p, p1) /\ Between(file, p1, p2) /\ Between(cout, p2, p3)
           /\ Between(enc.held, p3, p4) /\ Between(cin, p4, written)
    BY <1>7, TransitOrder
  <1>9. g = Len(sizes) + 1 => din = << >>
    <2> SUFFICES ASSUME g = Len(sizes) + 1 PROVE din = << >>
      OBVIOUS
    <2>1. frame < g
      BY <1>4
    <2>2. written <= StartOf(g)
      BY <2>1, WrittenBefore
    <2>3. p \in {StartOf(g) + (b + 0), StartOf(g) + (b + 1)}
      BY <1>6 DEF ReadTo
    <2>4. Len(din) = 0
      BY <1>4, <1>7, <2>2, <2>3
    <2> QED
      BY <1>4, <2>4, EmptySeq
  <1>9a. ReadsOn(r, Decoder, din, decompressed, room, g, b)
    <2>1. Segment(din, ReadTo(Decoder, g, b))
      BY <1>6, <1>8 DEF Between
    <2>2. decompressed \o Decoder.held = UpTo(g, b)
      BY <1>3 DEF UpTo
    <2>3. /\ HasFrames /\ Decoder \in DecoderType /\ din \in Seq(Wire) /\ decompressed \in Seq(Wire)
          /\ DecodesFrame(Decoder, g, b) /\ r \in Decode(Decoder, din, room)
      BY <1>2, <1>3, <1>4
    <2> QED
      BY <1>3, <1>5, <1>9, <2>1, <2>2, <2>3, DecodeFollows
  <1> DEFINE n == r.used
             d == r.ctx
  <1>10. /\ n \in 0 .. Len(din) /\ r.out \in Seq(Wire) /\ Len(r.out) <= room
         /\ d \in DecoderType /\ Len(d.held) <= Hold
         /\ d.over <=> r.ret = "STREAM_END"
         /\ d.over => d.ended /\ d.held = << >>
         /\ r.ret \in {"STREAM_END", "OK", "BUF_ERROR"}
         /\ \E c \in Nat :
              /\ (decompressed \o r.out) \o d.held = UpTo(g, c)
              /\ IF g = Len(sizes) + 1 THEN c = 0 /\ ~d.ended
                 ELSE c <= sizes[g] /\ (d.ended => c = sizes[g])
              /\ ReadTo(d, g, c) = ReadTo(Decoder, g, b) + n
    BY <1>9a DEF ReadsOn
  <1>11. PICK c \in Nat :
              /\ (decompressed \o r.out) \o d.held = UpTo(g, c)
              /\ IF g = Len(sizes) + 1 THEN c = 0 /\ ~d.ended
                 ELSE c <= sizes[g] /\ (d.ended => c = sizes[g])
              /\ ReadTo(d, g, c) = ReadTo(Decoder, g, b) + n
    BY <1>10
  <1>12. dec' = Renewed(d, NewDec) /\ din' = After(n, din)
    BY <1>2
  <1> HIDE DEF n, d
  <1>13. /\ decompressed' = decompressed \o r.out
         /\ dout' \in Seq(Wire) /\ Len(dout') <= DoutSize
         /\ din' \in Seq(Wire) /\ Len(din') <= DinSize
    <2>1. Cat(received, Cat(dout, r.out)) = Cat(Cat(received, dout), r.out)
      BY <1>4, <1>10, CatFacts
    <2>2. dout \o r.out \in Seq(Wire) /\ Len(dout \o r.out) = Len(dout) + Len(r.out)
      BY <1>4, <1>10, ConcatProperties
    <2>3. Len(r.out) \in Nat /\ Len(r.out) <= DoutSize - Len(dout)
      BY <1>10, LenProperties DEF room
    <2>4. After(n, din) \in Seq(Wire) /\ Len(After(n, din)) = Len(din) - n
      BY <1>4, <1>10, FirstAndAfter
    <2>5. Len(After(n, din)) <= DinSize /\ Len(dout) + Len(r.out) <= DoutSize
      BY <1>4, <1>10, <2>3, <2>4
    <2>6. decompressed' = decompressed \o r.out
      BY <1>1, <1>2, <2>1 DEF decompressed, Cat
    <2> QED
      BY <1>2, <1>12, <2>2, <2>4, <2>5, <2>6
  <1>14. Extends(decompressed, decompressed')
    BY <1>10, <1>13 DEF Extends
  <1>15. (dret' = 0 <=> d.over) /\ dret' \in {ERR_UNK} \cup 0 .. RecInSize
    BY <1>1, <1>2, <1>10, ZeroAtEnd
  <1>16. NewDec \in DecoderType /\ NewDec.held = << >> /\ ~NewDec.ended /\ ~NewDec.over
    BY EmptySeq DEF NewDec, DecoderType
  <1>17. AdaptedTypes'
    <2>1. dec' \in DecoderType /\ Len((dec').held) <= Hold
      <3>1. Len(<< >>) <= Hold
        BY EmptySeq, AdaptedConstants
      <3> QED
        BY <1>10, <1>12, <1>16, <3>1 DEF Renewed
    <2> QED
      BY <1>1, <1>13, <1>15, <2>1 DEF AdaptedInv, AdaptedTypes, AdaptedTypeOK, DecoderType
  <1>18. Encoding' /\ written' = written
    <2>1. UNCHANGED sender
      BY <1>1 DEF sender
    <2> QED
      BY <1>1, <2>1, SenderSame
  <1>19. PICK q \in Nat : q = p + n
    BY <1>10
  <1>20. InTransit(q)'
    <2>1. Between(After(n, din), q, p1)
      BY <1>4, <1>8, <1>10, <1>19, BetweenLess
    <2>2. /\ Between(din', q, p1) /\ Between(file', p1, p2) /\ Between(cout', p2, p3)
          /\ Between((enc').held, p3, p4) /\ Between(cin', p4, written')
      BY <1>1, <1>8, <1>12, <1>18, <2>1
    <2> QED
      BY <1>1, <2>2, InTransitNext
  <1>21. q = ReadTo(d, g, c) /\ q <= written
    <2>1. q = ReadTo(d, g, c)
      BY <1>6, <1>11, <1>19
    <2>2. n \in Nat /\ n <= Len(din)
      BY <1>4, <1>10
    <2>3. q <= written
      BY <1>4, <1>7, <1>19, <2>2
    <2> QED
      BY <2>1, <2>3
  <1>22. ~open' => (enc').held = << >>
    BY <1>18 DEF Encoding, BetweenFrames
  <1>23. CASE ~d.over
    <2>1. dec' = d /\ Decoder' = d
      BY <1>12, <1>15, <1>23 DEF Renewed, Decoder
    <2>2. DecodesFrame(d, g, c)
      BY <1>11, <1>23 DEF DecodesFrame
    <2>3. Decoding'
      BY <1>1, <1>11, <1>13, <1>20, <1>21, <2>1, <2>2, DecodingNext
    <2>4. ZeroMeansComplete'
      BY <1>15, <1>22, <1>23 DEF ZeroMeansComplete
    <2> QED
      BY <1>14, <1>17, <1>18, <2>3, <2>4 DEF AdaptedInv
  <1>24. CASE d.over
    <2>1. d.ended /\ d.held = << >> /\ dret' = 0
      BY <1>10, <1>15, <1>24
    <2>2. g \in 1 .. Len(sizes) /\ c = sizes[g] /\ g \in Nat
      BY <1>4, <1>11, <2>1
    <2>3. (dec').held = << >> /\ Decoder' = NewDec
      BY <1>1, <1>4, <1>12, <1>16, <1>24, <2>1 DEF Renewed, Decoder
    <2>4. decompressed' = UpTo(g, c) /\ decompressed' \in Seq(Wire)
      <3>1. decompressed \o r.out \in Seq(Wire)
        BY <1>4, <1>10, ConcatProperties
      <3>2. (decompressed \o r.out) \o << >> = decompressed \o r.out
        BY <3>1, ConcatEmptySeq
      <3> QED
        BY <1>11, <1>13, <2>1, <3>1, <3>2
    <2> DEFINE h == g + 1
    <2>5. /\ h \in 1 .. Len(sizes) + 1 /\ h \in 0 .. Len(sizes) + 1
          /\ StartOf(h) = StartOf(g) + (sizes[g] + 1) /\ DataBefore[h] = UpTo(g, sizes[g])
      <3>1. h \in 1 .. Len(sizes) + 1 /\ h \in 0 .. Len(sizes) + 1
        BY <1>4, <2>2
      <3>2. StartOf(h) = StartOf(g) + (sizes[g] + 1)
        BY <1>4, <2>2, FramesFollow
      <3>3. DataBefore[h] = UpTo(g, sizes[g])
        BY <1>4, <2>2, DataRecurs DEF UpTo
      <3> HIDE DEF h
      <3> QED
        BY <3>1, <3>2, <3>3
    <2> HIDE DEF h
    <2>6. q = StartOf(g) + (sizes[g] + 1) /\ q = StartOf(h)
      BY <1>21, <2>1, <2>2, <2>5 DEF ReadTo
    <2>7. decompressed' \o NewDec.held = UpTo(h, 0)
      <3>1. UpTo(h, 0) = DataBefore[h]
        BY <1>4, <2>5, UpToType
      <3> QED
        BY <1>16, <2>2, <2>4, <2>5, <3>1, ConcatEmptySeq
    <2>8. DecodesFrame(NewDec, h, 0)
      <3>1. h # Len(sizes) + 1 => 0 <= sizes[h]
        BY <1>4, <2>5, FrameSize
      <3> QED
        BY <1>16, <3>1 DEF DecodesFrame
    <2>9. q = ReadTo(NewDec, h, 0)
      <3>1. ReadTo(NewDec, h, 0) = StartOf(h) + (0 + 0)
        BY <1>16 DEF ReadTo
      <3> QED
        BY <2>6, <3>1
    <2>10. Decoding'
      BY <1>1, <1>20, <2>3, <2>5, <2>7, <2>8, <2>9, DecodingNext
    <2>11. g <= frame
      <3> SUFFICES ASSUME ~(g <= frame) PROVE FALSE
        OBVIOUS
      <3>1. frame < g
        BY <1>4, <2>2
      <3>2. written <= StartOf(g) /\ sizes[g] \in Nat
        BY <1>4, <2>2, <3>1, WrittenBefore, FrameSize
      <3> DEFINE a == StartOf(g)
                 z == sizes[g]
      <3>3. a \in Nat /\ z \in Nat /\ written <= a /\ a + (z + 1) <= written
        BY <1>4, <1>21, <2>6, <3>2
      <3> HIDE DEF a, z
      <3> QED
        BY <1>4, <3>3
    <2>12. ZeroMeansComplete'
      <3>1. DataBefore' = DataBefore
        BY <1>1, SameFrames
      <3>2. g \in 1 .. frame'
        BY <1>1, <1>4, <2>2, <2>11
      <3>3. decompressed' = DataBefore'[g] \o Data(g, 0, sizes'[g])
        BY <1>1, <2>2, <2>4, <3>1 DEF UpTo
      <3> QED
        BY <1>22, <2>3, <3>2, <3>3 DEF ZeroMeansComplete
    <2> QED
      BY <1>14, <1>17, <1>18, <2>10, <2>12 DEF AdaptedInv
  <1> QED
    BY <1>23, <1>24

----------------------------------------------------------------------------
(* Before any step nothing is in transit, and the decoder is where the     *)
(* first frame begins.                                                     *)
LEMMA AdaptedInitInv == ASSUME AdaptedInit PROVE AdaptedInv
  <1>1. /\ algo \in Algos /\ frame = 0 /\ place = 0 /\ open = FALSE
        /\ enc = NewEnc /\ dec = NewDec
        /\ cin = << >> /\ cout = << >> /\ file = << >>
        /\ din = << >> /\ dout = << >> /\ received = << >>
        /\ piece = 0 /\ dret = RecInSize
        /\ careful \in BOOLEAN /\ unflushed = FALSE /\ erred = FALSE /\ aborted = FALSE
    BY DEF AdaptedInit
  <1>2. sizes \in Seq(FrameSizes) /\ Len(sizes) \in Nat /\ Len(sizes) >= 1
    <2>1. PICK n \in 1 .. Frames : sizes \in [1 .. n -> FrameSizes]
      BY DEF AdaptedInit
    <2>2. n \in Nat /\ n >= 1
      BY AdaptedConstants
    <2> QED
      BY <2>1, <2>2
  <1>3. HasFrames
    BY <1>2 DEF HasFrames
  <1>4. << >> \in Seq(Wire) /\ Len(<< >>) = 0 /\ << >> \o << >> = << >>
    BY EmptySeq, ConcatEmptySeq
  <1>5. /\ NewEnc \in Encoder /\ NewEnc.held = << >> /\ NewEnc.avail_in = 0 /\ ~NewEnc.ending
        /\ ~NewEnc.flushing
        /\ NewDec \in DecoderType /\ NewDec.held = << >> /\ ~NewDec.ended /\ ~NewDec.over
    BY <1>4 DEF NewEnc, NewDec, Encoder, DecoderType
  <1>6. AdaptedTypes
    <2>1. frame \in 0 .. Len(sizes) /\ dret \in 0 .. RecInSize
      BY <1>1, <1>2, AdaptedConstants
    <2>2. /\ Hold \in Nat /\ 0 <= Hold + 1 /\ 0 <= Hold /\ 0 <= CinSize /\ 0 <= CoutSize
          /\ 0 <= DinSize /\ 0 <= DoutSize /\ algo \in {"xz", "zstd"}
      BY <1>1, AdaptedConstants
    <2> QED
      BY <1>1, <1>2, <1>4, <1>5, <2>1, <2>2
         DEF AdaptedTypes, AdaptedTypeOK, Encoder, DecoderType
  <1>7. Encoding
    <2>1. 0 <= Hold
      BY AdaptedConstants
    <2>2. Callable
      BY <1>1, <1>5 DEF Callable, NeverRefused, Acceptable
    <2> QED
      BY <1>1, <1>4, <1>5, <2>1, <2>2 DEF Encoding, BetweenFrames
  <1>8. dret # 0 /\ Decoder = NewDec
    BY <1>1, AdaptedConstants DEF Decoder
  <1>9. Decoding
    <2>1. 1 \in 1 .. Len(sizes) + 1 /\ 1 \in 0 .. Len(sizes) + 1 /\ 0 \in Nat
      BY <1>2
    <2>2. UpTo(1, 0) = << >>
      BY <1>3, <2>1, UpToType, DataRecurs
    <2>3. decompressed \o Decoder.held = DataBefore[1] \o Data(1, 0, 0)
      BY <1>1, <1>4, <1>5, <1>8, <2>2 DEF decompressed, UpTo
    <2>4. DecodesFrame(Decoder, 1, 0)
      <3>1. 1 # Len(sizes) + 1 => 0 <= sizes[1]
        BY <1>2, <1>3, FrameSize
      <3> QED
        BY <1>5, <1>8, <3>1 DEF DecodesFrame
    <2>5. ReadTo(Decoder, 1, 0) = 0
      <3>1. ReadTo(Decoder, 1, 0) = 0 + (0 + 0)
        BY <1>3, <1>5, <1>8, FramesFollow DEF ReadTo
      <3> QED
        BY <3>1
    <2>6. InTransit(0)
      <3>1. Between(<< >>, 0, 0) /\ written = 0
        BY <1>1, <2>1, BetweenNone DEF written
      <3> QED
        BY <1>1, <1>5, <2>1, <3>1 DEF InTransit
    <2> QED
      BY <2>1, <2>3, <2>4, <2>5, <2>6 DEF Decoding
  <1>10. ZeroMeansComplete
    BY <1>1, <1>5, <1>8 DEF ZeroMeansComplete
  <1> QED
    BY <1>6, <1>7, <1>9, <1>10 DEF AdaptedInv

(* Every step keeps the invariant. *)
LEMMA AdaptedInvNext ==
    ASSUME AdaptedInv, [AdaptedNext]_adaptedvars
    PROVE  AdaptedInv'
  <1>1. CASE Sender
    <2>1. CASE Flush \/ EndFrame
      BY <2>1, FlushInv, EndFrameInv, AbortsInv DEF Flush, EndFrame
    <2>2. CASE ~(Flush \/ EndFrame)
      BY <1>1, <2>2, StartFrameInv, FillInv, CompressMoreInv, WriteOutInv DEF Sender
    <2> QED
      BY <2>1, <2>2
  <1>2. CASE Receiver
    BY <1>2, ReadInInv, DecompressMoreInv, TakeOutInv DEF Receiver
  <1>3. CASE UNCHANGED adaptedvars
    <2>1. UNCHANGED <<algo, sizes, careful, frame, place, open, enc, unflushed, cin, erred, aborted,
                      cout, file, dec, din, dout, piece, dret, received>>
      BY <1>3 DEF adaptedvars, sender, receiver
    <2>2. UNCHANGED sender
      BY <2>1 DEF sender
    <2>3. AdaptedTypes'
      BY <2>1 DEF AdaptedInv, AdaptedTypes, AdaptedTypeOK
    <2>4. Encoding' /\ written' = written
      BY <2>1, <2>2, SenderSame
    <2>5. ASSUME NEW p \in Nat, InTransit(p) PROVE InTransit(p)'
      <3>1. PICK p1, p2, p3, p4 \in Nat :
               /\ Between(din, p, p1) /\ Between(file, p1, p2) /\ Between(cout, p2, p3)
               /\ Between(enc.held, p3, p4) /\ Between(cin, p4, written)
        BY <2>5, TransitOrder
      <3>2. /\ Between(din', p, p1) /\ Between(file', p1, p2) /\ Between(cout', p2, p3)
            /\ Between((enc').held, p3, p4) /\ Between(cin', p4, written')
        BY <2>1, <2>4, <3>1
      <3> QED
        BY <2>1, <3>2, InTransitNext
    <2>6. Decoding'
      BY <2>1, <2>5, DecodingSame DEF decompressed
    <2>7. ZeroMeansComplete'
      <3>1. frame' \in Nat /\ frame <= frame'
        BY <2>1, AdaptedParts
      <3> QED
        BY <2>1, <2>4, <3>1, ZeroSame DEF decompressed
    <2> QED
      BY <2>3, <2>4, <2>6, <2>7 DEF AdaptedInv
  <1> QED
    BY <1>1, <1>2, <1>3 DEF AdaptedNext

----------------------------------------------------------------------------
(* What is decompressed is the first part of what was read. *)
ReceivesFirst == Chan!IsPrefix(decompressed, sent)

(* Both ends of the channel have bytes of the wire. *)
LEMMA SentType ==
    ASSUME AdaptedInv
    PROVE  /\ sent \in Seq(Wire) /\ sent = UpTo(frame, place)
           /\ decompressed \in Seq(Wire) /\ frame \in 0 .. Len(sizes) + 1
  <1>1. frame \in 0 .. Len(sizes) + 1 /\ place \in Nat
    BY AdaptedParts
  <1>2. UpTo(frame, place) \in Seq(Wire)
    BY <1>1, AdaptedParts, UpToType
  <1> QED
    BY <1>1, <1>2, AdaptedParts DEF sent, UpTo

(* What was read and not yet written is still to be decompressed: the      *)
(* decoder is never past the encoder.                                      *)
LEMMA InvReceivesFirst == ASSUME AdaptedInv PROVE ReceivesFirst
  <1>1. PICK g \in 1 .. Len(sizes) + 1, b \in Nat :
           /\ decompressed \o Decoder.held = DataBefore[g] \o Data(g, 0, b)
           /\ DecodesFrame(Decoder, g, b)
           /\ InTransit(ReadTo(Decoder, g, b))
    BY DEF AdaptedInv, Decoding
  <1>2. /\ HasFrames /\ Len(sizes) \in Nat /\ frame \in 0 .. Len(sizes) /\ place \in Nat
        /\ Decoder \in DecoderType /\ decompressed \in Seq(Wire) /\ din \in Seq(Wire)
        /\ StartOf(g) \in Nat /\ g \in 0 .. Len(sizes) + 1 /\ written \in Nat
    <2>1. Len(sizes) \in Nat
      BY AdaptedParts
    <2>2. g \in 0 .. Len(sizes) + 1
      BY <2>1
    <2> QED
      BY <2>1, <2>2, AdaptedParts, FramesFollow, WrittenType
  <1>3. Extends(decompressed, UpTo(g, b))
    BY <1>1, <1>2 DEF Extends, UpTo, DecoderType
  <1>4. PICK p \in Nat : p = ReadTo(Decoder, g, b)
    <2>1. ReadTo(Decoder, g, b) \in Nat
      BY ReadToType
    <2> QED
      BY <2>1
  <1>5. p <= written /\ StartOf(g) + b <= p
    <2>1. InTransit(p)
      BY <1>1, <1>4
    <2>2. p + Len(din) <= written /\ Len(din) \in Nat
      BY <1>2, <2>1, TransitOrder, LenProperties
    <2>3. p \in {StartOf(g) + (b + 0), StartOf(g) + (b + 1)}
      BY <1>4 DEF ReadTo
    <2> QED
      BY <1>2, <2>2, <2>3
  <1>6. Extends(UpTo(g, b), UpTo(frame, place))
    <2>1. CASE g <= frame
      <3>1. g \in 1 .. Len(sizes) /\ frame \in 1 .. Len(sizes) /\ frame # 0
        BY <1>2, <2>1
      <3>2. b <= sizes[g]
        BY <1>1, <1>2, <3>1 DEF DecodesFrame
      <3>3. /\ sizes[frame] \in Nat /\ StartOf(frame) \in Nat
            /\ written \in {StartOf(frame) + place, StartOf(frame) + (place + 1)}
            /\ written = StartOf(frame) + (place + 1) => place = sizes[frame]
        BY <3>1, WrittenType
      <3>4. g = frame => b <= place
        BY <1>2, <1>5, <3>2, <3>3
      <3>5. g < frame \/ (g = frame /\ b <= place)
        BY <1>2, <2>1, <3>1, <3>4
      <3> QED
        BY <1>2, <3>1, <3>2, <3>5, BeforeExtends
    <2>2. CASE ~(g <= frame)
      <3>1. frame < g
        BY <1>2, <2>2
      <3>2. written <= StartOf(g)
        BY <3>1, WrittenBefore
      <3>3. b = 0 /\ written = StartOf(g)
        BY <1>2, <1>5, <3>2
      <3>4. UpTo(g, b) = DataBefore[g] /\ DataBefore[g] \in Seq(Wire)
        BY <1>2, <3>3, UpToType
      <3>5. CASE frame = 0
        <4>1. written = 0 /\ place = 0
          BY <3>5 DEF written, AdaptedInv, Encoding
        <4>2. g = 1
          <5> SUFFICES ASSUME g # 1 PROVE FALSE
            OBVIOUS
          <5>1. 1 \in 1 .. Len(sizes) /\ 1 < g
            BY <1>2, <5>1
          <5>2. StartOf(1) + (sizes[1] + 1) <= StartOf(g) /\ StartOf(1) = 0 /\ sizes[1] \in Nat
            BY <1>2, <5>1, FramesApart, FramesFollow, FrameSize
          <5> QED
            BY <3>3, <4>1, <5>2
        <4>3. UpTo(0, 0) = DataBefore[0]
          <5>1. 0 \in 0 .. Len(sizes) + 1 /\ 0 \in Nat
            BY <1>2
          <5> QED
            BY <1>2, <5>1, UpToType
        <4>4. UpTo(g, b) = << >> /\ UpTo(frame, place) = << >>
          BY <1>2, <3>4, <3>5, <4>1, <4>2, <4>3, DataRecurs
        <4> QED
          BY <4>4, EmptySeq, ExtendsSelf
      <3>6. CASE frame # 0
        <4>1. /\ frame \in 1 .. Len(sizes) /\ sizes[frame] \in Nat /\ StartOf(frame) \in Nat
              /\ place <= sizes[frame]
              /\ written \in {StartOf(frame) + place, StartOf(frame) + (place + 1)}
              /\ written = StartOf(frame) + (place + 1) => place = sizes[frame]
          BY <3>6, WrittenType
        <4>2. StartOf(frame) + (sizes[frame] + 1) <= StartOf(g)
          BY <1>2, <3>1, <4>1, FramesApart
        <4>3. place = sizes[frame] /\ StartOf(g) = StartOf(frame) + (sizes[frame] + 1)
          BY <1>2, <3>3, <4>1, <4>2
        <4>4. g = frame + 1
          <5> DEFINE h == frame + 1
          <5>1. h \in 1 .. Len(sizes) + 1 /\ StartOf(h) = StartOf(g) /\ h <= g
            <6>1. h \in 1 .. Len(sizes) + 1 /\ h <= g
              BY <1>2, <3>1, <4>1
            <6>2. StartOf(h) = StartOf(frame) + (sizes[frame] + 1)
              BY <1>2, <4>1, FramesFollow
            <6> HIDE DEF h
            <6> QED
              BY <4>3, <6>1, <6>2
          <5> HIDE DEF h
          <5>2. h = g
            <6> SUFFICES ASSUME h # g PROVE FALSE
              OBVIOUS
            <6>1. h \in 1 .. Len(sizes) /\ h < g
              BY <1>2, <5>1
            <6>2. StartOf(h) + (sizes[h] + 1) <= StartOf(g) /\ sizes[h] \in Nat
              BY <1>2, <6>1, FramesApart, FrameSize
            <6> QED
              BY <1>2, <5>1, <6>2
          <5> QED
            BY <5>2 DEF h
        <4>5. UpTo(g, b) = UpTo(frame, place)
          BY <1>2, <3>4, <4>1, <4>3, <4>4, DataRecurs DEF UpTo
        <4> QED
          BY <3>4, <4>5, ExtendsSelf
      <3> QED
        BY <3>5, <3>6
    <2> QED
      BY <2>1, <2>2
  <1>7. Extends(decompressed, sent)
    BY <1>2, <1>3, <1>6, SentType, ExtendsTwice
  <1> QED
    BY <1>2, <1>7, ExtendsIsPrefix DEF ReceivesFirst

(* When no frame is open, all of the frames so far was read. *)
LEMMA SentBetweenFrames ==
    ASSUME AdaptedInv, ~open
    PROVE  sent = DataBefore[frame + 1]
  <1>1. HasFrames /\ Len(sizes) \in Nat /\ frame \in 0 .. Len(sizes)
    BY AdaptedParts
  <1>2. CASE frame = 0
    <2>1. place = 0 /\ 0 \in 0 .. Len(sizes) + 1 /\ 0 \in Nat
      BY <1>1, <1>2 DEF AdaptedInv, Encoding
    <2>2. UpTo(0, 0) = DataBefore[0]
      BY <1>1, <2>1, UpToType
    <2> QED
      BY <1>1, <1>2, <2>1, <2>2, DataRecurs, SentType
  <1>3. CASE frame # 0
    <2>1. frame \in 1 .. Len(sizes) /\ place = sizes[frame]
      BY <1>1, <1>3 DEF AdaptedInv, Encoding, BetweenFrames
    <2> QED
      BY <1>1, <2>1, DataRecurs DEF sent
  <1> QED
    BY <1>2, <1>3

(* Nothing is sent or received at first. *)
LEMMA ChanInit == ASSUME AdaptedInit PROVE Chan!Init
  <1>1. AdaptedInv /\ ~open /\ frame + 1 = 1
    <2>1. AdaptedInv
      BY AdaptedInitInv
    <2>2. open = FALSE /\ frame = 0
      BY DEF AdaptedInit
    <2> QED
      BY <2>1, <2>2
  <1>2. sent = DataBefore[1]
    BY <1>1, SentBetweenFrames
  <1>3. sent = << >>
    BY <1>1, <1>2, AdaptedParts, DataRecurs
  <1>4. decompressed = << >>
    BY EmptySeq, ConcatEmptySeq DEF AdaptedInit, decompressed
  <1> QED
    BY <1>3, <1>4 DEF Chan!Init

(* The next frame begins where all that was read ends. *)
LEMMA NextFrameGoesOn ==
    ASSUME AdaptedInv, StartFrame
    PROVE  Chan!IsPrefix(sent, sent')
  <1> DEFINE g == frame + 1
  <1>1. HasFrames /\ Len(sizes) \in Nat /\ frame \in 0 .. Len(sizes) /\ frame < Len(sizes)
        /\ ~open /\ frame' = g /\ place' = 0 /\ sizes' = sizes
    BY AdaptedParts DEF StartFrame
  <1>2. g \in 0 .. Len(sizes) + 1 /\ g \in Nat /\ 0 \in Nat
    BY <1>1
  <1>3. sent = DataBefore[g]
    BY <1>1, SentBetweenFrames
  <1>4. sent' = UpTo(g, 0)
    BY <1>1, SameFrames DEF sent, UpTo
  <1> HIDE DEF g
  <1>5. sent' = sent
    BY <1>1, <1>2, <1>3, <1>4, UpToType
  <1> QED
    BY <1>5, SentType, ExtendsSelf, ExtendsIsPrefix

(* A step of the sender sends, one of the receiver receives, or neither. *)
LEMMA ChanNext ==
    ASSUME AdaptedInv, AdaptedInv', ReceivesFirst', [AdaptedNext]_adaptedvars
    PROVE  [Chan!Next]_<<sent, decompressed>>
  <1>1. HasFrames /\ place \in Nat /\ Len(sizes) \in Nat /\ frame \in 0 .. Len(sizes) + 1
    BY AdaptedParts, SentType
  <1>2. CASE StartFrame
    <2>1. decompressed' = decompressed
      BY <1>2 DEF StartFrame, receiver, decompressed
    <2>2. Chan!IsPrefix(sent, sent')
      BY <1>2, NextFrameGoesOn
    <2> QED
      BY <2>1, <2>2 DEF Chan!Next, Chan!Send
  <1>3. CASE Fill
    <2>1. decompressed' = decompressed /\ sizes' = sizes /\ frame' = frame
      BY <1>3 DEF Fill, receiver, decompressed
    <2>2. PICK n \in 1 .. Least(CinSize - Len(cin), sizes[frame] - place) : place' = place + n
      BY <1>3 DEF Fill
    <2>3. place' \in Nat
      BY DEF AdaptedInv, AdaptedTypes
    <2>4. place <= place'
      BY <1>1, <2>2, <2>3
    <2>5. sent' = UpTo(frame, place')
      BY <2>1, SameFrames DEF sent, UpTo
    <2>6. Extends(sent, sent')
      BY <1>1, <2>3, <2>4, <2>5, SentType, UpToExtends
    <2>7. Chan!IsPrefix(sent, sent')
      BY <2>6, SentType, ExtendsIsPrefix
    <2> QED
      BY <2>1, <2>7 DEF Chan!Next, Chan!Send
  <1>4. CASE CompressMore \/ Flush \/ EndFrame \/ WriteOut \/ UNCHANGED adaptedvars
    <2>1. /\ frame' = frame /\ place' = place /\ sizes' = sizes
          /\ received' = received /\ dout' = dout
      BY <1>4 DEF CompressMore, Flush, EndFrame, Empties, WriteOut, adaptedvars, sender, receiver
    <2>2. sent' = sent /\ decompressed' = decompressed
      BY <2>1, SameFrames DEF sent, decompressed
    <2> QED
      BY <2>2
  <1>5. CASE Receiver
    <2>1. frame' = frame /\ place' = place /\ sizes' = sizes
      BY <1>5 DEF Receiver, ReadIn, DecompressMore, TakeOut, sender
    <2>2. sent' = sent
      BY <2>1, SameFrames DEF sent
    <2>3. Extends(decompressed, decompressed')
      <3>1. CASE ReadIn
        <4>1. decompressed' = decompressed
          BY <3>1 DEF ReadIn, decompressed
        <4> QED
          BY <4>1, SentType, ExtendsSelf
      <3>2. CASE DecompressMore
        BY <3>2, DecompressMoreInv
      <3>3. CASE TakeOut
        BY <3>3, TakeOutInv, SentType, ExtendsSelf
      <3> QED
        BY <1>5, <3>1, <3>2, <3>3 DEF Receiver
    <2>4. Chan!IsPrefix(decompressed, decompressed')
      BY <2>3, SentType, ExtendsIsPrefix
    <2>5. Chan!IsPrefix(decompressed', sent')
      BY DEF ReceivesFirst
    <2> QED
      BY <2>2, <2>4, <2>5 DEF Chan!Next, Chan!Receive
  <1> QED
    BY <1>2, <1>3, <1>4, <1>5 DEF AdaptedNext, Sender

----------------------------------------------------------------------------
(* The invariant holds in every state. *)
LEMMA AdaptedInvariant == AdaptedSpec => []AdaptedInv
  <1>1. AdaptedInv /\ [AdaptedNext]_adaptedvars => AdaptedInv'
    BY AdaptedInvNext
  <1>2. AdaptedInit => AdaptedInv
    BY AdaptedInitInv
  <1> QED
    BY <1>1, <1>2, PTL DEF AdaptedSpec

(* For both algorithms, frames of any number and sizes, buffers of any     *)
(* sizes, and a codec that holds back as much as it likes: a 0 of end()    *)
(* (compression.h:94-96) means that the encoder holds nothing, and a 0 of  *)
(* decompress() (compression.h:107-108) that the whole frame was given     *)
(* out, neither of them sooner; no call of a careful sender, and of zstd   *)
(* no call at all, returns an error or fails an assertion of xz.c:85, 114; *)
(* and no buffer is filled beyond its size.                                *)
THEOREM EndsAreTrueAlways == AdaptedSpec => []EndsAreTrue
  <1>1. AdaptedInv => EndsAreTrue
    BY DEF AdaptedInv, AdaptedTypes, Encoding, Callable, EndsAreTrue
  <1>2. AdaptedSpec => []AdaptedInv
    BY AdaptedInvariant
  <1> QED
    BY <1>1, <1>2, PTL

(* So that xz.c and zstd.c, whose callers find the ends of frames by the   *)
(* returned 0 alone, implement a channel: every step of the adapters is    *)
(* one of Channel, or changes nothing of what was sent and what was        *)
(* received.                                                               *)
THEOREM AdaptedStreamsAreChannel == AdaptedSpec => IsChannel
  <1>1. AdaptedInit => Chan!Init
    BY ChanInit
  <1>2. AdaptedInv => ReceivesFirst
    BY InvReceivesFirst
  <1>3. AdaptedInv /\ AdaptedInv' /\ ReceivesFirst' /\ [AdaptedNext]_adaptedvars
           => [Chan!Next]_<<sent, decompressed>>
    BY ChanNext
  <1>4. AdaptedSpec => []AdaptedInv
    BY AdaptedInvariant
  <1> QED
    BY <1>1, <1>2, <1>3, <1>4, PTL DEF AdaptedSpec, IsChannel, Chan!Spec
=============================================================================
