--------------------------- MODULE Bytes_proofs ---------------------------
(***************************************************************************)
(* What moves bytes and codes them: the loops of lib/fileio.h with the Buf *)
(* of fileio.c (the module RetryIO), for files, buffers and outputs of any *)
(* size, those of lib/varint.c (Varint), for words and digits of any       *)
(* width, and the streams of lib/compression/funcs.c (Streams), for frames *)
(* and buffers of any size.                                                *)
(***************************************************************************)
EXTENDS RetryIO, Varint, Streams, Bsearchn_proofs, SequenceTheorems

(* RetryIO: the invariant adds what is true in the middle of a call: where *)
(* the positions of the descriptors are, and that what was moved so far is *)
(* in its place.                                                           *)
Filling == {"buf_fill", "buf_refill"}

CallType == [name : Reading \cup Writing \cup {"none"},
          mem : Nat, len : Nat, off : Nat, recvd : Nat]

(* TypeOK, and of which type the variables are that it only restricts. *)
Types ==
    /\ TypeOK
    /\ out \in Seq(Bytes)
    /\ buf \in [data : {buf.data}, size : Sizes, pos : Nat]
    /\ call \in CallType
    /\ base \in Nat

(* Where a call is that runs. *)
Running(c) ==
    /\ c.name \in Reading \cup Writing
    /\ c.name = "buf_fill" => c.mem = buf.pos
    /\ c.name = "buf_refill" => c.mem = 0
    /\ c.name \in Filling => fpos = c.off + c.recvd
    /\ c.name = "write_retry" => opos = c.off + c.recvd
    /\ c.name \in Writing => c.off + c.len <= MaxOut /\ c.off + c.recvd <= Len(out)
    /\ c.name \in Reading /\ c.recvd > 0 => c.off + c.recvd <= fsize

(* The first n bytes are where they belong. *)
Placed(n) ==
    \A i \in 0 .. n - 1 :
       IF call.name \in Reading THEN buf.data[call.mem + i] = call.off + i
       ELSE out[call.off + i + 1] = buf.data[call.mem + i]

InCall == pc = "loop" => Running(call) /\ Placed(call.recvd)

(* What HoldsPieceOfFile says, in the middle of a call too. *)
Piece == \A i \in 0 .. buf.pos - 1 : buf.data[i] = base + i

Gapless ==
    intact =>
       /\ pc = "idle" \/ call.name \in Writing => fpos = base + buf.pos /\ Piece
       /\ pc = "loop" => call.name # "pread_retry"
       /\ pc = "loop" /\ call.name = "buf_fill" => call.off = base + buf.pos /\ Piece
       /\ pc = "loop" /\ call.name = "buf_refill" /\ call.recvd = 0 =>
             call.off = base + buf.pos /\ Piece

Inv ==
    /\ Types /\ InCall /\ Gapless
    /\ ReadsAllThereIs /\ WritesAll /\ EveryByteInPlace

----------------------------------------------------------------------------
(* What a file has after a piece of it is what is left of it. *)
LEMMA LeftOver ==
    ASSUME NEW size \in Nat, NEW off \in Nat
    PROVE  /\ Left(size, off) \in Nat
           /\ \A n \in Nat : n > 0 /\ n <= Left(size, off) => off + n <= size
           /\ \A n \in Nat : off + n <= size => n <= Left(size, off)
           /\ \A n \in Nat : Left(size, off + n) = 0 => n >= Left(size, off)
  BY DEF Left

(* buf_init() *)
LEMMA InitInv == Init => Inv
  <1> SUFFICES ASSUME Init PROVE Inv
    OBVIOUS
  <1> PICK size \in Sizes : buf = [data |-> Block(size), size |-> size, pos |-> 0]
    BY DEF Init
  <1>1. size \in Nat /\ MaxFile \in Nat /\ MaxOut \in Nat
    BY RetryIOAssumption
  <1>2. buf.data = Block(size) /\ buf.size = size /\ buf.pos = 0
    OBVIOUS
  <1>3. buf.data \in [0 .. buf.size - 1 -> Bytes]
    BY <1>2 DEF Block, Bytes
  <1>4. buf \in [data : {buf.data}, size : Sizes, pos : Nat]
    BY <1>2
  <1>5. out = << >> /\ out \in Seq(Bytes) /\ Len(out) = 0
    BY DEF Init
  <1>6. call = NoCall /\ call \in CallType /\ call.name = "none" /\ call.recvd = 0
        /\ call.len = 0
    BY DEF Init, NoCall, Call, CallType
  <1>7. TypeOK
    BY <1>1, <1>2, <1>3, <1>5, <1>6 DEF Init, TypeOK
  <1> QED
    BY <1>1, <1>2, <1>4, <1>5, <1>6, <1>7
    DEF Init, Inv, Types, InCall, Gapless, Piece, ReadsAllThereIs, WritesAll,
        EveryByteInPlace, Returned, Writing

(* A call starts where the Buf and the descriptors are, and has moved      *)
(* nothing yet.                                                            *)
LEMMA BeginInv ==
    ASSUME Inv, NEW c \in CallType, Begin(c),
           c.recvd = 0, Running(c), c.len = 0 \/ c.mem + c.len <= buf.size,
           base' = base,
           \/ intact' = intact /\ (c.name \in Filling => c.off = fpos)
                /\ c.name # "pread_retry"
           \/ intact' = FALSE
    PROVE  Inv'
  <1> USE DEF Inv, Types
  <1>1. /\ pc = "idle" /\ pc' = "loop" /\ call' = c /\ ret' = 0
        /\ fsize' = fsize /\ fpos' = fpos /\ out' = out /\ opos' = opos /\ buf' = buf
    BY DEF Begin, files
  <1>2. TypeOK'
    <2>1. intact' \in BOOLEAN
      BY DEF TypeOK
    <2>2. c.recvd \in 0 .. c.len
      BY DEF CallType
    <2>3. 0 \in -1 .. MaxFile + MaxOut
      BY RetryIOAssumption
    <2> QED
      BY <1>1, <2>1, <2>2, <2>3 DEF TypeOK
  <1>3. Types'
    BY <1>1, <1>2
  <1>4. InCall'
    BY <1>1 DEF InCall, Running, Placed
  <1>5. Gapless'
    <2> SUFFICES ASSUME intact'
                 PROVE  Gapless'
      BY DEF Gapless
    <2>1. fpos = base + buf.pos /\ Piece
      BY <1>1 DEF Gapless
    <2>2. Piece'
      BY <1>1, <2>1 DEF Piece
    <2> QED
      BY <1>1, <2>1, <2>2 DEF Gapless, Filling
  <1>6. ReadsAllThereIs' /\ WritesAll' /\ EveryByteInPlace'
    BY <1>1 DEF ReadsAllThereIs, WritesAll, EveryByteInPlace, Returned
  <1> QED
    BY <1>3, <1>4, <1>5, <1>6

(* A call returns: an error, or what it has moved, which is all there is.  *)
LEMMA ReturnInv ==
    ASSUME Inv, pc = "loop", NEW r, Return(r), UNCHANGED <<files, call>>,
           \/ r = -1
           \/ /\ r = call.recvd
              /\ call.name \in Reading => r = Least(call.len, Left(fsize, call.off))
              /\ call.name \in Writing => r = call.len
    PROVE  Inv'
  <1> USE DEF Inv, Types
  <1>1. /\ pc' = "idle" /\ ret' = r
        /\ fsize' = fsize /\ fpos' = fpos /\ out' = out /\ opos' = opos /\ call' = call
        /\ buf' = [buf EXCEPT !.pos = Pos(r)]
    BY DEF Return, files
  <1>2. buf'.data = buf.data /\ buf'.size = buf.size /\ buf'.pos = Pos(r)
    BY <1>1
  <1>3. /\ Running(call) /\ Placed(call.recvd)
        /\ call.recvd \in Nat /\ call.recvd <= call.len
        /\ call.len \in Nat /\ call.off \in Nat /\ call.mem \in Nat
        /\ call.len = 0 \/ call.mem + call.len <= buf.size
        /\ buf.size \in Nat /\ buf.pos \in 0 .. buf.size
    BY RetryIOAssumption DEF InCall, TypeOK, CallType
  <1>4. r \in Int /\ r \in -1 .. MaxFile + MaxOut
    <2>1. fsize \in Nat /\ fsize <= MaxFile /\ MaxFile \in Nat /\ MaxOut \in Nat
      BY RetryIOAssumption DEF TypeOK
    <2>2. call.recvd <= MaxFile + MaxOut
      <3>1. CASE call.name \in Reading
        BY <1>3, <2>1, <3>1 DEF Running
      <3>2. CASE call.name \in Writing
        BY <1>3, <2>1, <3>2 DEF Running
      <3> QED
        BY <1>3, <3>1, <3>2 DEF Running
    <2> QED
      BY <1>3, <2>1, <2>2
  <1>5. Pos(r) \in 0 .. buf.size /\ Pos(r) \in Nat
    <2>1. CASE call.name = "buf_fill"
      BY <1>3, <2>1 DEF Pos, Running
    <2>2. CASE call.name = "buf_refill"
      BY <1>3, <2>2 DEF Pos, Running
    <2> QED
      BY <1>3, <2>1, <2>2 DEF Pos
  <1>6. base' \in Nat /\ intact' \in BOOLEAN
    <2>1. base' = call.off \/ base' = base
      BY DEF Return
    <2>2. intact' \in {TRUE, FALSE, intact}
      BY DEF Return
    <2> QED
      BY <1>3, <2>1, <2>2 DEF TypeOK
  <1>7. Types'
    <2>1. buf' \in [data : {buf'.data}, size : Sizes, pos : Nat]
      BY <1>1, <1>5
    <2>2. TypeOK'
      BY <1>1, <1>2, <1>4, <1>5, <1>6 DEF TypeOK
    <2> QED
      BY <1>1, <1>6, <2>1, <2>2
  <1>8. InCall'
    BY <1>1 DEF InCall
  <1>9. ReadsAllThereIs' /\ WritesAll'
    BY <1>1 DEF ReadsAllThereIs, WritesAll, ReadRetry
  <1>10. EveryByteInPlace'
    <2>1. CASE r = -1
      BY <1>1, <2>1 DEF EveryByteInPlace
    <2>2. CASE r = call.recvd
      <3>1. Placed(r)
        BY <1>3, <2>2
      <3> QED
        BY <1>1, <1>2, <3>1 DEF EveryByteInPlace, Placed
    <2> QED
      BY <2>1, <2>2
  <1>11. Gapless'
    <2>0. ASSUME intact', ~(call.name = "buf_refill" /\ r >= 0)
          PROVE  /\ intact /\ base' = base
                 /\ call.name \in Filling /\ r < 0 => call.recvd = 0 /\ buf'.pos = buf.pos
      <3>1. intact /\ ~(call.name \in Filling /\ r < 0 /\ call.recvd > 0)
        BY <2>0, Zenon DEF Return, Filling
      <3>2. base' = base
        BY <2>0 DEF Return
      <3>3. r < 0 => buf'.pos = buf.pos
        BY <1>2, <1>4 DEF Pos
      <3> QED
        BY <1>3, <3>1, <3>2, <3>3
    <2> SUFFICES ASSUME intact'
                 PROVE  fpos' = base' + buf'.pos /\ Piece'
      BY <1>1 DEF Gapless
    <2>1. CASE call.name = "buf_refill" /\ r >= 0
      <3>1. r = call.recvd /\ base' = call.off /\ buf'.pos = r /\ call.mem = 0
            /\ fpos = call.off + call.recvd /\ call.name \in Reading
        BY <1>2, <1>3, <2>1 DEF Return, Pos, Running, Filling, Reading
      <3>2. \A j \in 0 .. r - 1 : buf.data[j] = call.off + j
        BY <1>3, <3>1 DEF Placed
      <3> QED
        BY <1>1, <1>2, <3>1, <3>2 DEF Piece
    <2>2. CASE call.name = "buf_refill" /\ r < 0
      <3>1. base' = base /\ buf'.pos = buf.pos /\ call.recvd = 0 /\ intact
        BY <1>4, <2>0, <2>2 DEF Filling
      <3>2. call.off = base + buf.pos /\ Piece /\ fpos = call.off
        BY <1>3, <2>2, <3>1 DEF Gapless, Running, Filling
      <3> QED
        BY <1>1, <1>2, <3>1, <3>2 DEF Piece
    <2>3. CASE call.name = "buf_fill" /\ r >= 0
      <3>1. base' = base /\ intact /\ r = call.recvd
        BY <1>4, <2>0, <2>3
      <3>2. buf'.pos = buf.pos + r
        BY <1>2, <2>3 DEF Pos
      <3>3. fpos = call.off + call.recvd /\ call.mem = buf.pos /\ call.name \in Reading
        BY <1>3, <2>3 DEF Running, Filling, Reading
      <3>4. call.off = base + buf.pos /\ Piece
        BY <2>3, <3>1 DEF Gapless
      <3>5. \A j \in 0 .. r - 1 : buf.data[buf.pos + j] = call.off + j
        BY <1>3, <3>1, <3>3 DEF Placed
      <3>6. ASSUME NEW j \in 0 .. buf.pos + r - 1
            PROVE  buf.data[j] = base + j
        <4>1. CASE j < buf.pos
          BY <1>3, <3>4, <4>1 DEF Piece
        <4>2. CASE j >= buf.pos
          <5>1. j - buf.pos \in 0 .. r - 1 /\ buf.pos + (j - buf.pos) = j
            <6> DEFINE p == buf.pos
            <6>1. p \in Nat /\ r \in Nat /\ j \in 0 .. p + r - 1 /\ j >= p
              BY <1>3, <3>1, <4>2
            <6> HIDE DEF p
            <6>2. j - p \in 0 .. r - 1 /\ p + (j - p) = j
              BY <6>1
            <6> QED
              BY <6>2 DEF p
          <5>2. buf.data[buf.pos + (j - buf.pos)] = call.off + (j - buf.pos)
            BY <3>5, <5>1
          <5> QED
            BY <1>3, <3>4, <5>1, <5>2
        <4> QED
          BY <1>3, <4>1, <4>2
      <3> QED
        BY <1>1, <1>2, <1>3, <3>1, <3>2, <3>3, <3>4, <3>6 DEF Piece
    <2>4. CASE call.name = "buf_fill" /\ r < 0
      <3>1. base' = base /\ buf'.pos = buf.pos /\ call.recvd = 0 /\ intact
        BY <1>4, <2>0, <2>4 DEF Filling
      <3>2. call.off = base + buf.pos /\ Piece /\ fpos = call.off
        BY <1>3, <2>4, <3>1 DEF Gapless, Running, Filling
      <3> QED
        BY <1>1, <1>2, <3>1, <3>2 DEF Piece
    <2>5. CASE call.name \notin Filling
      <3>1. base' = base /\ buf'.pos = buf.pos /\ intact
        BY <1>2, <2>0, <2>5 DEF Pos, Filling
      <3>2. call.name \in Writing
        BY <1>3, <2>5, <3>1 DEF Gapless, Running, Filling, Reading
      <3>3. fpos = base + buf.pos /\ Piece
        BY <3>1, <3>2 DEF Gapless
      <3> QED
        BY <1>1, <1>2, <3>1, <3>3 DEF Piece
    <2>6. r < 0 \/ r >= 0
      BY <1>4
    <2> QED
      BY <2>1, <2>2, <2>3, <2>4, <2>5, <2>6 DEF Filling
  <1> QED
    BY <1>7, <1>8, <1>9, <1>10, <1>11

(* What is known of a call that runs, before the kernel answers. *)
LEMMA LoopTypes ==
    ASSUME Inv, Iterates
    PROVE  /\ pc = "loop" /\ Running(call) /\ Placed(call.recvd)
           /\ base \in Nat
           /\ call.recvd \in Nat /\ call.len \in Nat /\ call.off \in Nat /\ call.mem \in Nat
           /\ Rest \in Nat /\ Rest + call.recvd = call.len
           /\ At \in Nat /\ At = call.off + call.recvd
           /\ Place \in Nat /\ Place = call.mem + call.recvd
           /\ call.len = 0 \/ call.mem + call.len <= buf.size
           /\ buf.size \in Nat /\ buf.pos \in 0 .. buf.size
           /\ MaxFile \in Nat /\ MaxOut \in Nat
           /\ fsize \in Nat /\ fsize <= MaxFile /\ fpos \in 0 .. fsize
  <1>1. Types /\ TypeOK /\ InCall
    BY DEF Inv, Types
  <1>2. pc = "loop" /\ Running(call) /\ Placed(call.recvd)
    BY <1>1 DEF InCall, Iterates
  <1>3. /\ base \in Nat
        /\ call.recvd \in Nat /\ call.len \in Nat /\ call.off \in Nat /\ call.mem \in Nat
    BY <1>1 DEF Types, CallType
  <1>4. call.recvd <= call.len /\ (call.len = 0 \/ call.mem + call.len <= buf.size)
    BY <1>1, <1>3 DEF TypeOK
  <1>5. buf.size \in Nat /\ MaxFile \in Nat /\ MaxOut \in Nat
    BY <1>1, RetryIOAssumption DEF TypeOK
  <1>6. /\ buf.pos \in 0 .. buf.size
        /\ fsize \in 0 .. MaxFile /\ fpos \in 0 .. fsize
    BY <1>1 DEF Types, TypeOK
  <1>7. Rest \in Nat /\ Rest + call.recvd = call.len
    BY <1>3, <1>4 DEF Rest
  <1>8. At \in Nat /\ At = call.off + call.recvd
    BY <1>3 DEF At
  <1>9. Place \in Nat /\ Place = call.mem + call.recvd
    BY <1>3 DEF Place
  <1>10. fsize \in Nat /\ fsize <= MaxFile
    BY <1>5, <1>6
  <1> QED
    BY <1>2, <1>3, <1>4, <1>5, <1>6, <1>7, <1>8, <1>9, <1>10

(* The parts of the running call's record. *)
LEMMA LoopRecords ==
    ASSUME Inv
    PROVE  /\ call \in CallType
           /\ buf.data \in [0 .. buf.size - 1 -> Bytes]
           /\ buf \in [data : {buf.data}, size : Sizes, pos : Nat]
  BY DEF Inv, Types, TypeOK

(* The kernel moves a piece of what is left: the next place in memory and  *)
(* in the file is behind it.                                               *)
LEMMA ReadSomeInv == Inv /\ ReadSome => Inv'
  <1> SUFFICES ASSUME Inv, ReadSome PROVE Inv'
    OBVIOUS
  <1> DEFINE new(n) == [i \in 0 .. buf.size - 1 |->
                          IF i \in Place .. Place + n - 1 THEN At + i - Place ELSE buf.data[i]]
  <1>1. Iterates /\ call.name \in Reading
    BY DEF ReadSome
  <1>2. PICK n \in 1 .. Least(Rest, Left(fsize, At)) :
          /\ buf' = [buf EXCEPT !.data = new(n)]
          /\ call' = [call EXCEPT !.recvd = @ + n]
          /\ fpos' = IF call.name = "pread_retry" THEN fpos ELSE fpos + n
    BY <1>1, LoopRecords DEF ReadSome
  <1>3. n \in Nat /\ n > 0 /\ n <= Rest /\ At + n <= fsize
    <2>1. Left(fsize, At) \in Nat
      BY <1>1, LoopTypes, LeftOver
    <2>2. n <= Left(fsize, At) /\ n <= Rest /\ n \in Nat /\ n > 0
      BY <1>1, <2>1, LoopTypes DEF Least
    <2> QED
      BY <1>1, <2>2, LoopTypes, LeftOver
  <1>4. /\ buf'.data = new(n) /\ buf'.size = buf.size /\ buf'.pos = buf.pos
        /\ buf' \in [data : {buf'.data}, size : Sizes, pos : Nat]
    BY <1>2, LoopRecords
  <1>5. /\ call' \in CallType /\ call'.name = call.name /\ call'.mem = call.mem
        /\ call'.len = call.len /\ call'.off = call.off /\ call'.recvd = call.recvd + n
    <2>1. call.recvd + n \in Nat
      BY <1>1, <1>3, LoopTypes
    <2> QED
      BY <1>2, <2>1, LoopRecords DEF CallType
  <1>6. /\ fsize' = fsize /\ out' = out /\ opos' = opos /\ pc' = pc /\ ret' = ret
        /\ base' = base /\ intact' = intact
    BY DEF ReadSome
  <1>7. new(n) \in [0 .. buf.size - 1 -> Bytes]
    <2>1. ASSUME NEW j \in Place .. Place + n - 1
          PROVE  At + j - Place \in Bytes
      BY <1>1, <1>3, LoopTypes DEF Bytes
    <2> QED
      BY <2>1, LoopRecords
  <1>8. TypeOK'
    <2>1. fpos' \in 0 .. fsize'
      <3>1. call.name # "pread_retry" => fpos = At
        BY <1>1, LoopTypes DEF Running, Filling, Reading
      <3>2. fpos \in 0 .. fsize /\ fsize \in Nat /\ At \in Nat
        BY <1>1, LoopTypes
      <3>3. fpos' \in {fpos, fpos + n} /\ (call.name = "pread_retry" => fpos' = fpos)
        BY <1>2
      <3> QED
        BY <1>3, <1>6, <3>1, <3>2, <3>3
    <2>2. call'.recvd \in 0 .. call'.len
      BY <1>1, <1>3, <1>5, LoopTypes
    <2> QED
      BY <1>4, <1>5, <1>6, <1>7, <2>1, <2>2 DEF Inv, Types, TypeOK
  <1>9. Types'
    BY <1>4, <1>5, <1>6, <1>8 DEF Inv, Types
  <1> HIDE DEF new
  <1>10. Placed(call.recvd)'
    <2>1. ASSUME NEW j \in 0 .. call.recvd + n - 1
          PROVE  buf'.data[call.mem + j] = call.off + j
      <3>1. j \in Nat /\ call.mem + j \in 0 .. buf.size - 1
        BY <1>1, <1>3, LoopTypes
      <3>2. CASE j < call.recvd
        <4>1. buf.data[call.mem + j] = call.off + j
          BY <1>1, <3>1, <3>2, LoopTypes DEF Placed
        <4>2. call.mem + j \notin Place .. Place + n - 1
          BY <1>1, <3>1, <3>2, LoopTypes
        <4> QED
          BY <1>4, <3>1, <4>1, <4>2 DEF new
      <3>3. CASE j >= call.recvd
        <4>1. call.mem + j \in Place .. Place + n - 1
          BY <1>1, <1>3, <3>1, <3>3, LoopTypes
        <4>2. At + (call.mem + j) - Place = call.off + j
          BY <1>1, <3>1, LoopTypes
        <4> QED
          BY <1>4, <3>1, <4>1, <4>2 DEF new
      <3> QED
        BY <1>1, <3>1, <3>2, <3>3, LoopTypes
    <2> QED
      BY <1>1, <1>3, <1>5, <2>1, LoopTypes DEF Placed
  <1>11. InCall'
    <2>1. call.name \in Filling => fpos' = call'.off + call'.recvd
      <3>1. call.name \in Filling => fpos' = fpos + n
        BY <1>2 DEF Filling
      <3>2. call.name \in Filling => fpos = call.off + call.recvd
        BY <1>1, LoopTypes DEF Running
      <3>3. call'.off = call.off /\ call'.recvd = call.recvd + n
        BY <1>5
      <3>4. call.off \in Nat /\ call.recvd \in Nat /\ n \in Nat
        BY <1>1, <1>3, LoopTypes
      <3>5. (call.off + call.recvd) + n = call.off + (call.recvd + n)
        BY <3>4
      <3> QED
        BY <3>1, <3>2, <3>3, <3>5
    <2>2. call'.off + call'.recvd <= fsize'
      BY <1>1, <1>3, <1>5, <1>6, LoopTypes
    <2>3. call.name \notin Writing
      BY <1>1 DEF Reading, Writing
    <2>4. Running(call)
      BY <1>1, LoopTypes
    <2>5. Running(call)'
      BY <1>1, <1>4, <1>5, <2>1, <2>2, <2>3, <2>4 DEF Running, Writing
    <2> QED
      BY <1>10, <2>5 DEF InCall
  <1>12. Gapless'
    <2> SUFFICES ASSUME intact', call.name = "buf_fill"
                 PROVE  call'.off = base' + buf'.pos /\ Piece'
      BY <1>1, <1>3, <1>5, <1>6, LoopTypes DEF Inv, Gapless, Reading, Writing
    <2>1. call.off = base + buf.pos /\ Piece /\ call.mem = buf.pos
      BY <1>1, <1>6, LoopTypes DEF Inv, Gapless, Running
    <2>2. ASSUME NEW j \in 0 .. buf.pos - 1
          PROVE  buf'.data[j] = base + j
      <3>1. j \in 0 .. buf.size - 1 /\ j \notin Place .. Place + n - 1
        BY <1>1, <2>1, LoopTypes
      <3> QED
        BY <1>4, <2>1, <3>1 DEF new, Piece
    <2> QED
      BY <1>4, <1>5, <1>6, <2>1, <2>2 DEF Piece
  <1>13. ReadsAllThereIs' /\ WritesAll' /\ EveryByteInPlace'
    BY <1>1, <1>6, LoopTypes DEF ReadsAllThereIs, WritesAll, EveryByteInPlace, Returned
  <1> QED
    BY <1>9, <1>11, <1>12, <1>13 DEF Inv

(* The kernel writes a part: it is in the file where it was in the Buf. *)
LEMMA WriteSomeInv == Inv /\ WriteSome => Inv'
  <1> SUFFICES ASSUME Inv, WriteSome PROVE Inv'
    OBVIOUS
  <1> DEFINE most(n) == Most(Len(out), At + n)
             new(n) == [i \in 1 .. most(n) |->
                          IF i \in At + 1 .. At + n THEN buf.data[Place + i - At - 1] ELSE out[i]]
  <1>1. Iterates /\ call.name \in Writing
    BY DEF WriteSome
  <1>2. PICK n \in 1 .. Rest :
          /\ out' = new(n)
          /\ call' = [call EXCEPT !.recvd = @ + n]
          /\ opos' = IF call.name = "pwrite_retry" THEN opos ELSE opos + n
    BY DEF WriteSome
  <1>3. n \in Nat /\ n > 0 /\ n <= Rest
    BY <1>1, LoopTypes
  <1>4. /\ call' \in CallType /\ call'.name = call.name /\ call'.mem = call.mem
        /\ call'.len = call.len /\ call'.off = call.off /\ call'.recvd = call.recvd + n
    <2>1. call.recvd + n \in Nat
      BY <1>1, <1>3, LoopTypes
    <2> QED
      BY <1>2, <2>1, LoopRecords DEF CallType
  <1>5. /\ fsize' = fsize /\ fpos' = fpos /\ buf' = buf /\ pc' = pc /\ ret' = ret
        /\ base' = base /\ intact' = intact
    BY DEF WriteSome
  <1>6. /\ out \in Seq(Bytes) /\ Len(out) \in Nat /\ Len(out) <= MaxOut
        /\ opos \in 0 .. Len(out)
    BY RetryIOAssumption DEF Inv, Types, TypeOK
  <1>7. At <= Len(out) /\ At + n <= MaxOut /\ (call.name = "write_retry" => opos = At)
    <2>1. Running(call)
      BY <1>1, LoopTypes
    <2>2. call.off + call.recvd <= Len(out) /\ call.off + call.len <= MaxOut
      BY <1>1, <2>1 DEF Running
    <2>3. call.name = "write_retry" => opos = call.off + call.recvd
      BY <2>1 DEF Running
    <2>4. At = call.off + call.recvd /\ At + n <= call.off + call.len
      BY <1>1, <1>3, LoopTypes
    <2>5. At \in Nat /\ call.off \in Nat /\ call.len \in Nat /\ MaxOut \in Nat
      BY <1>1, LoopTypes
    <2> QED
      BY <1>3, <1>6, <2>2, <2>3, <2>4, <2>5
  <1>8. most(n) \in Nat /\ At + n <= most(n) /\ Len(out) <= most(n) /\ most(n) <= MaxOut
        /\ most(n) \in {Len(out), At + n}
    <2>1. At \in Nat /\ MaxOut \in Nat
      BY <1>1, LoopTypes
    <2> QED
      BY <1>3, <1>6, <1>7, <2>1 DEF Most
  <1>9. new(n) \in [1 .. most(n) -> Bytes]
    <2>1. ASSUME NEW j \in At + 1 .. At + n
          PROVE  buf.data[Place + j - At - 1] \in Bytes
      <3>1. Place + j - At - 1 \in 0 .. buf.size - 1
        BY <1>1, <1>3, LoopTypes
      <3> QED
        BY <3>1, LoopRecords
    <2>2. ASSUME NEW j \in 1 .. most(n), j \notin At + 1 .. At + n
          PROVE  out[j] \in Bytes
      <3>1. j \in 1 .. Len(out)
        <4>1. At \in Nat
          BY <1>1, LoopTypes
        <4> QED
          BY <1>3, <1>6, <1>7, <1>8, <2>2, <4>1
      <3> QED
        BY <1>6, <3>1
    <2> QED
      BY <2>1, <2>2
  <1>10. out' \in Seq(Bytes) /\ Len(out') = most(n)
    BY <1>2, <1>8, <1>9
  <1>11. Types'
    <2>1. opos' \in 0 .. Len(out')
      <3>1. CASE call.name = "pwrite_retry"
        BY <1>2, <1>6, <1>8, <1>10, <3>1
      <3>2. CASE call.name = "write_retry"
        BY <1>2, <1>3, <1>6, <1>7, <1>8, <1>10, <3>2
      <3> QED
        BY <1>1, <3>1, <3>2 DEF Writing
    <2>2. call'.recvd \in 0 .. call'.len
      BY <1>1, <1>3, <1>4, LoopTypes
    <2>3. Len(out') <= MaxOut /\ \A j \in 1 .. Len(out') : out'[j] \in Bytes
      BY <1>2, <1>8, <1>9, <1>10
    <2>4. TypeOK'
      BY <1>4, <1>5, <2>1, <2>2, <2>3 DEF Inv, Types, TypeOK
    <2> QED
      BY <1>4, <1>5, <1>10, <2>4 DEF Inv, Types
  <1> HIDE DEF new, most
  <1>12. Placed(call.recvd)'
    <2>0. call.name \notin Reading
      BY <1>1 DEF Reading, Writing
    <2>1. ASSUME NEW j \in 0 .. call.recvd + n - 1
          PROVE  out'[call.off + j + 1] = buf.data[call.mem + j]
      <3>1. j \in Nat /\ call.off + j + 1 \in 1 .. most(n)
        <4>1. call.recvd \in Nat /\ call.off \in Nat /\ At = call.off + call.recvd
          BY <1>1, LoopTypes
        <4>2. j \in Nat /\ call.off + j + 1 <= At + n
          BY <1>3, <4>1
        <4> QED
          BY <1>3, <1>8, <4>1, <4>2
      <3>2. CASE j < call.recvd
        <4>1. out[call.off + j + 1] = buf.data[call.mem + j]
          BY <1>1, <2>0, <3>1, <3>2, LoopTypes DEF Placed
        <4>2. call.off + j + 1 \notin At + 1 .. At + n
          BY <1>1, <3>1, <3>2, LoopTypes
        <4> QED
          BY <1>2, <3>1, <4>1, <4>2 DEF new
      <3>3. CASE j >= call.recvd
        <4>1. call.off + j + 1 \in At + 1 .. At + n
          BY <1>1, <1>3, <3>1, <3>3, LoopTypes
        <4>2. Place + (call.off + j + 1) - At - 1 = call.mem + j
          BY <1>1, <3>1, LoopTypes
        <4> QED
          BY <1>2, <3>1, <4>1, <4>2 DEF new
      <3> QED
        BY <1>1, <3>1, <3>2, <3>3, LoopTypes
    <2> QED
      <3>1. ASSUME NEW j \in 0 .. call'.recvd - 1
            PROVE  out'[call'.off + j + 1] = buf'.data[call'.mem + j]
        <4>1. j \in 0 .. call.recvd + n - 1
          <5>1. call.recvd \in Nat
            BY <1>1, LoopTypes
          <5> QED
            BY <1>3, <1>4, <5>1
        <4>2. out'[call.off + j + 1] = buf.data[call.mem + j]
          BY <2>1, <4>1
        <4> QED
          BY <1>4, <1>5, <4>2
      <3> QED
        BY <1>4, <2>0, <3>1 DEF Placed
  <1>13. InCall'
    <2>1. call.name \notin Filling /\ call.name \notin Reading
      BY <1>1 DEF Writing, Filling, Reading
    <2>2. call.name = "write_retry" => opos' = call'.off + call'.recvd
      <3>1. call.name = "write_retry" => opos' = opos + n
        BY <1>2
      <3>2. call'.off + call'.recvd = At + n
        BY <1>1, <1>3, <1>4, LoopTypes
      <3> QED
        BY <1>7, <3>1, <3>2
    <2>3. call'.off + call'.len <= MaxOut /\ call'.off + call'.recvd <= Len(out')
      <3>1. Running(call)
        BY <1>1, LoopTypes
      <3>2. call.off + call.len <= MaxOut
        BY <1>1, <3>1 DEF Running
      <3>3. call'.off + call'.recvd = At + n
        BY <1>1, <1>3, <1>4, LoopTypes
      <3> QED
        BY <1>4, <1>8, <1>10, <3>2, <3>3
    <2>4. Running(call)'
      BY <1>1, <1>4, <2>1, <2>2, <2>3 DEF Running, Filling
    <2> QED
      BY <1>12, <2>4 DEF InCall
  <1>14. Gapless'
    <2>1. call.name # "buf_fill" /\ call.name # "buf_refill" /\ call.name # "pread_retry"
      BY <1>1 DEF Writing
    <2>2. intact => fpos = base + buf.pos /\ Piece
      BY <1>1 DEF Inv, Gapless
    <2>3. intact' => Piece'
      BY <1>5, <2>2 DEF Piece
    <2> QED
      BY <1>4, <1>5, <2>1, <2>2, <2>3 DEF Gapless
  <1>15. ReadsAllThereIs' /\ WritesAll' /\ EveryByteInPlace'
    BY <1>1, <1>5, LoopTypes DEF ReadsAllThereIs, WritesAll, EveryByteInPlace, Returned
  <1> QED
    BY <1>11, <1>13, <1>14, <1>15 DEF Inv

----------------------------------------------------------------------------
(* The loop ends, and a short count means that nothing is left.            *)
LEMMA LeaveInv == Inv /\ Leave => Inv'
  <1> SUFFICES ASSUME Inv, Leave PROVE Inv'
    OBVIOUS
  <1>1. pc = "loop" /\ Return(call.recvd) /\ UNCHANGED <<files, call>>
        /\ call.recvd # 0 /\ ~(call.recvd < call.len)
    BY DEF Leave, Iterates, GoOn
  <1>2. /\ call.recvd \in Nat /\ call.len \in Nat /\ call.off \in Nat /\ fsize \in Nat
        /\ call.recvd = call.len /\ Running(call)
    BY <1>1, RetryIOAssumption DEF Inv, Types, TypeOK, CallType, InCall
  <1>3. call.name \in Reading => call.recvd = Least(call.len, Left(fsize, call.off))
    <2> SUFFICES ASSUME call.name \in Reading
                 PROVE  call.recvd = Least(call.len, Left(fsize, call.off))
      OBVIOUS
    <2>1. call.off + call.recvd <= fsize
      BY <1>1, <1>2 DEF Running
    <2>2. call.recvd <= Left(fsize, call.off) /\ Left(fsize, call.off) \in Nat
      BY <1>2, <2>1, LeftOver
    <2> QED
      BY <1>2, <2>2 DEF Least
  <1> QED
    BY <1>1, <1>2, <1>3, ReturnInv

(* A call that moves nothing ends the loop with what was moved before. *)
LEMMA NothingMovedInv == Inv /\ NothingMoved => Inv'
  <1> SUFFICES ASSUME Inv, NothingMoved PROVE Inv'
    OBVIOUS
  <1>1. Iterates /\ Return(call.recvd) /\ UNCHANGED <<files, call>>
        /\ (Rest = 0 \/ (call.name \in Reading /\ Left(fsize, At) = 0))
    BY DEF NothingMoved, NoneLeft
  <1>2. call.recvd <= call.len /\ Left(fsize, call.off) \in Nat
    <2>1. call.recvd <= call.len /\ call.off \in Nat /\ fsize \in Nat
      BY <1>1, LoopTypes
    <2> QED
      BY <2>1, LeftOver
  <1>3. call.name \in Reading => call.recvd = Least(call.len, Left(fsize, call.off))
    <2> SUFFICES ASSUME call.name \in Reading
                 PROVE  call.recvd = Least(call.len, Left(fsize, call.off))
      OBVIOUS
    <2>1. call.recvd <= Left(fsize, call.off)
      <3>1. CASE call.recvd = 0
        BY <1>2, <3>1
      <3>2. CASE call.recvd > 0
        <4>1. call.off + call.recvd <= fsize
          BY <1>1, <3>2, LoopTypes DEF Running
        <4> QED
          BY <1>1, <4>1, LoopTypes, LeftOver
      <3> QED
        BY <1>1, <3>1, <3>2, LoopTypes
    <2>2. CASE Rest = 0
      <3>1. call.recvd = call.len
        BY <1>1, <2>2, LoopTypes
      <3> QED
        BY <1>1, <1>2, <2>1, <3>1, LoopTypes DEF Least
    <2>3. CASE Left(fsize, At) = 0
      <3>1. Left(fsize, call.off + call.recvd) = 0
        BY <1>1, <2>3, LoopTypes
      <3>2. call.recvd >= Left(fsize, call.off)
        BY <1>1, <3>1, LoopTypes, LeftOver
      <3> QED
        BY <1>1, <1>2, <2>1, <3>2, LoopTypes DEF Least
    <2> QED
      BY <1>1, <2>2, <2>3
  <1>4. call.name \in Writing => call.recvd = call.len
    <2>1. call.name \in Writing => Rest = 0
      BY <1>1 DEF Reading, Writing
    <2> QED
      BY <1>1, <2>1, LoopTypes
  <1>5. pc = "loop"
    BY <1>1, LoopTypes
  <1> QED
    BY <1>1, <1>3, <1>4, <1>5, ReturnInv

(* A call that fails ends the loop with -1. *)
LEMMA FailInv == Inv /\ Fail => Inv'
  BY ReturnInv DEF Fail, Iterates

----------------------------------------------------------------------------
(* What the caller does between two calls. *)
LEMMA BeginsInv == Inv /\ (BufFill \/ BufRefill \/ Pread \/ Write \/ Pwrite) => Inv'
  <1> SUFFICES ASSUME Inv, BufFill \/ BufRefill \/ Pread \/ Write \/ Pwrite PROVE Inv'
    OBVIOUS
  <1>1. /\ fpos \in Nat /\ opos \in Nat /\ opos <= Len(out) /\ Len(out) \in Nat
        /\ buf.pos \in Nat /\ buf.size \in Nat /\ buf.pos <= buf.size
        /\ MaxFile \in Nat /\ MaxOut \in Nat /\ fpos <= fsize
    BY RetryIOAssumption DEF Inv, Types, TypeOK
  <1>2. ASSUME NEW name \in Reading \cup Writing, NEW to \in Nat, NEW req \in Nat, NEW off \in Nat
        PROVE  /\ Call(name, to, req, off) \in CallType
               /\ Call(name, to, req, off).name = name /\ Call(name, to, req, off).mem = to
               /\ Call(name, to, req, off).len = req /\ Call(name, to, req, off).off = off
               /\ Call(name, to, req, off).recvd = 0
    BY DEF Call, CallType
  <1>3. CASE BufFill
    <2> DEFINE req == buf.size - buf.pos
               c == Call("buf_fill", buf.pos, req, fpos)
    <2>1. Begin(c) /\ base' = base /\ intact' = intact
      BY <1>3 DEF BufFill
    <2>2. req \in Nat /\ buf.pos + req = buf.size /\ "buf_fill" \in Reading \cup Writing
      BY <1>1 DEF Reading
    <2> HIDE DEF req
    <2>3. c \in CallType /\ c.name = "buf_fill" /\ c.mem = buf.pos
          /\ c.len = req /\ c.off = fpos /\ c.recvd = 0
      <3>1. fpos \in Nat /\ buf.pos \in Nat
        BY <1>1
      <3> QED
        BY <1>2, <2>2, <3>1
    <2> HIDE DEF c
    <2>4. Running(c) /\ c.mem + c.len <= buf.size
      BY <1>1, <2>2, <2>3 DEF Running, Reading, Writing
    <2> QED
      BY <2>1, <2>3, <2>4, BeginInv
  <1>4. CASE BufRefill
    <2> DEFINE c == Call("buf_refill", 0, buf.size, fpos)
    <2>1. Begin(c) /\ base' = base /\ intact' = intact
      BY <1>4 DEF BufRefill
    <2>2. c \in CallType /\ c.name = "buf_refill" /\ c.mem = 0
          /\ c.len = buf.size /\ c.off = fpos /\ c.recvd = 0
      <3>1. "buf_refill" \in Reading \cup Writing
        BY DEF Reading
      <3>2. 0 \in Nat /\ buf.size \in Nat /\ fpos \in Nat
        BY <1>1
      <3> QED
        BY <1>2, <3>1, <3>2
    <2> HIDE DEF c
    <2>3. Running(c) /\ c.mem + c.len <= buf.size
      BY <1>1, <2>2 DEF Running, Reading, Writing
    <2> QED
      BY <2>1, <2>2, <2>3, BeginInv
  <1>5. CASE Pread
    <2>1. PICK req \in 0 .. buf.size, off \in 0 .. MaxFile :
             Begin(Call("pread_retry", 0, req, off)) /\ base' = base /\ intact' = FALSE
      BY <1>5 DEF Pread
    <2> DEFINE c == Call("pread_retry", 0, req, off)
    <2>2. c \in CallType /\ c.name = "pread_retry" /\ c.mem = 0
          /\ c.len = req /\ c.recvd = 0
      BY <1>1, <1>2 DEF Reading
    <2>3. Begin(c)
      BY <2>1
    <2> HIDE DEF c
    <2>4. Running(c) /\ c.mem + c.len <= buf.size
      BY <1>1, <2>2 DEF Running, Reading, Writing, Filling
    <2> QED
      BY <2>1, <2>2, <2>3, <2>4, BeginInv
  <1>6. CASE Write
    <2>1. PICK req \in 0 .. buf.pos :
             /\ opos + req <= MaxOut
             /\ Begin(Call("write_retry", 0, req, opos)) /\ base' = base /\ intact' = intact
      BY <1>6 DEF Write
    <2> DEFINE c == Call("write_retry", 0, req, opos)
    <2>2. c \in CallType /\ c.name = "write_retry" /\ c.mem = 0
          /\ c.len = req /\ c.off = opos /\ c.recvd = 0
      <3>1. req \in Nat /\ opos \in Nat /\ "write_retry" \in Reading \cup Writing
        BY <1>1 DEF Writing
      <3> QED
        BY <1>2, <3>1
    <2>3. Begin(c)
      BY <2>1
    <2> HIDE DEF c
    <2>4. Running(c) /\ c.mem + c.len <= buf.size
      BY <1>1, <2>1, <2>2 DEF Running, Reading, Writing, Filling
    <2> QED
      BY <2>1, <2>2, <2>3, <2>4, BeginInv DEF Filling
  <1>7. CASE Pwrite
    <2>1. PICK off \in 0 .. Len(out), req \in 0 .. buf.pos :
             /\ off + req <= MaxOut
             /\ Begin(Call("pwrite_retry", 0, req, off)) /\ base' = base /\ intact' = intact
      BY <1>7 DEF Pwrite
    <2> DEFINE c == Call("pwrite_retry", 0, req, off)
    <2>2. c \in CallType /\ c.name = "pwrite_retry" /\ c.mem = 0
          /\ c.len = req /\ c.off = off /\ c.recvd = 0
      <3>1. req \in Nat /\ off \in Nat /\ "pwrite_retry" \in Reading \cup Writing
        BY <1>1 DEF Writing
      <3> QED
        BY <1>2, <3>1
    <2>3. Begin(c)
      BY <2>1
    <2> HIDE DEF c
    <2>4. Running(c) /\ c.mem + c.len <= buf.size
      BY <1>1, <2>1, <2>2 DEF Running, Reading, Writing, Filling
    <2> QED
      BY <2>1, <2>2, <2>3, <2>4, BeginInv DEF Filling
  <1> QED
    BY <1>3, <1>4, <1>5, <1>6, <1>7

(* Between two calls there is no call. *)
LEMMA NoCallRuns ==
    /\ NoCall \in CallType /\ NoCall.name = "none" /\ NoCall.len = 0 /\ NoCall.recvd = 0
  BY DEF NoCall, Call, CallType

(* buf_clear() *)
LEMMA BufClearInv == Inv /\ BufClear => Inv'
  <1> SUFFICES ASSUME Inv, BufClear PROVE Inv'
    OBVIOUS
  <1>1. /\ pc = "idle" /\ pc' = "idle" /\ call' = NoCall /\ ret' = 0 /\ base' = fpos
        /\ intact' = TRUE /\ buf' = [buf EXCEPT !.pos = 0]
        /\ fsize' = fsize /\ fpos' = fpos /\ out' = out /\ opos' = opos
    BY DEF BufClear, files
  <1>2. buf'.data = buf.data /\ buf'.size = buf.size /\ buf'.pos = 0
        /\ buf' \in [data : {buf'.data}, size : Sizes, pos : Nat]
    BY <1>1, LoopRecords
  <1>3. buf.size \in Nat /\ fpos \in Nat /\ 0 \in -1 .. MaxFile + MaxOut
    BY RetryIOAssumption DEF Inv, Types, TypeOK
  <1>4. TypeOK'
    BY <1>1, <1>2, <1>3, NoCallRuns DEF Inv, Types, TypeOK
  <1>5. Types'
    BY <1>1, <1>2, <1>3, <1>4, NoCallRuns DEF Inv, Types
  <1>6. Gapless'
    BY <1>1, <1>2, <1>3 DEF Gapless, Piece
  <1>7. InCall' /\ ReadsAllThereIs' /\ WritesAll' /\ EveryByteInPlace'
    BY <1>1 DEF InCall, ReadsAllThereIs, WritesAll, EveryByteInPlace, Returned
  <1> QED
    BY <1>5, <1>6, <1>7 DEF Inv

(* buf_realloc() *)
LEMMA BufReallocInv == Inv /\ BufRealloc => Inv'
  <1> SUFFICES ASSUME Inv, BufRealloc PROVE Inv'
    OBVIOUS
  <1> DEFINE new(size) == [i \in 0 .. size - 1 |-> IF i < buf.size THEN buf.data[i] ELSE Garbage]
  <1>1. PICK size \in Sizes :
          /\ buf' = [data |-> new(size), size |-> size, pos |-> Least(buf.pos, size)]
          /\ intact' = (intact /\ buf.pos <= size)
    BY DEF BufRealloc, PosWithin
  <1>2. /\ pc = "idle" /\ pc' = "idle" /\ call' = NoCall /\ ret' = 0 /\ base' = base
        /\ fsize' = fsize /\ fpos' = fpos /\ out' = out /\ opos' = opos
    BY DEF BufRealloc, files
  <1>3. size \in Nat /\ buf.size \in Nat /\ buf.pos \in Nat /\ buf.pos <= buf.size
        /\ 0 \in -1 .. MaxFile + MaxOut
    BY RetryIOAssumption DEF Inv, Types, TypeOK
  <1>4. buf'.data = new(size) /\ buf'.size = size /\ buf'.pos = Least(buf.pos, size)
    BY <1>1
  <1>5. Least(buf.pos, size) \in 0 .. size /\ (buf.pos <= size => Least(buf.pos, size) = buf.pos)
    BY <1>3 DEF Least
  <1>6. new(size) \in [0 .. size - 1 -> Bytes]
    <2>1. ASSUME NEW j \in 0 .. size - 1, j < buf.size
          PROVE  buf.data[j] \in Bytes
      BY <1>3, <2>1, LoopRecords
    <2> QED
      BY <2>1 DEF Bytes
  <1>7. buf' \in [data : {buf'.data}, size : Sizes, pos : Nat]
    BY <1>1, <1>3, <1>5
  <1>8. intact' \in BOOLEAN
    BY <1>1
  <1>9. TypeOK'
    BY <1>2, <1>3, <1>4, <1>5, <1>6, <1>8, NoCallRuns DEF Inv, Types, TypeOK
  <1>10. Types'
    BY <1>2, <1>7, <1>9, NoCallRuns DEF Inv, Types
  <1>11. Gapless'
    <2> SUFFICES ASSUME intact'
                 PROVE  fpos' = base' + buf'.pos /\ Piece'
      BY <1>2 DEF Gapless
    <2>1. intact /\ buf.pos <= size
      BY <1>1
    <2>2. fpos = base + buf.pos /\ Piece
      BY <1>2, <2>1 DEF Inv, Gapless
    <2>3. ASSUME NEW j \in 0 .. buf.pos - 1
          PROVE  buf'.data[j] = base + j
      BY <1>3, <1>4, <2>1, <2>2 DEF Piece
    <2> QED
      BY <1>2, <1>4, <1>5, <2>1, <2>2, <2>3 DEF Piece
  <1>12. InCall' /\ ReadsAllThereIs' /\ WritesAll' /\ EveryByteInPlace'
    BY <1>2 DEF InCall, ReadsAllThereIs, WritesAll, EveryByteInPlace, Returned
  <1> QED
    BY <1>10, <1>11, <1>12 DEF Inv

(* A step that changes nothing changes nothing. *)
LEMMA StutterInv == Inv /\ UNCHANGED vars => Inv'
  BY DEF Inv, Types, TypeOK, InCall, Running, Placed, Gapless, Piece, ReadsAllThereIs,
         WritesAll, EveryByteInPlace, Returned, vars

(* All steps keep the invariant. *)
LEMMA StepInv == Inv /\ [Next]_vars => Inv'
  BY BeginsInv, BufClearInv, BufReallocInv, ReadSomeInv, WriteSomeInv, NothingMovedInv,
     LeaveInv, FailInv, StutterInv DEF Next, Progress, Interrupt

(* The invariant holds in every state. *)
LEMMA Invariant == Spec => []Inv
  <1>1. Init => Inv
    BY InitInv
  <1>2. Inv /\ [Next]_vars => Inv'
    BY StepInv
  <1> QED
    BY <1>1, <1>2, PTL DEF Spec

(* For files, buffers and outputs of any size: a read returns all there is *)
(* or an error, a write all or an error (fileio.h:27-98).                  *)
THEOREM MovesAllOrFails == Spec => []MovesAll
  <1>1. Inv => MovesAll
    BY DEF Inv, Types, MovesAll
  <1>2. Spec => []Inv
    BY Invariant
  <1> QED
    BY <1>1, <1>2, PTL

(* In whatever pieces the kernel moves them, the bytes that a call says it *)
(* has moved are in their places, in memory and in the file.               *)
THEOREM MovesToPlace == Spec => []EveryByteInPlace
  <1>1. Inv => EveryByteInPlace
    BY DEF Inv
  <1>2. Spec => []Inv
    BY Invariant
  <1> QED
    BY <1>1, <1>2, PTL

(* A Buf has a piece of the file without a gap, whatever was filled,       *)
(* refilled, cleared, resized and written, if no failed read had already   *)
(* moved something (fileio.c, buf.c).                                      *)
THEOREM BufIsGapless == Spec => []HoldsPieceOfFile
  <1>1. Inv => HoldsPieceOfFile
    BY DEF Inv, Gapless, Piece, HoldsPieceOfFile
  <1>2. Spec => []Inv
    BY Invariant
  <1> QED
    BY <1>1, <1>2, PTL

----------------------------------------------------------------------------
(* Varint: the invariant rests on the table of widths.  After n bytes the  *)
(* decoder has at least the least value of n bytes, and what the encoder   *)
(* has left fits into the bytes that are left to it.                       *)

(* The least and the greatest value of a varint of n bytes. *)
LeastOf(n) == IF n = 1 THEN 0 ELSE MaxVal[n - 1] + 1
MostOf(n) == IF n = MaxLen THEN Longer(MaxVal[MaxLen - 1]) ELSE MaxVal[n]

Widths ==
    /\ phase = "encode" => Len(varint) > 0 /\ val <= MostOf(MaxLen + 1 - Len(varint))
    /\ phase \in {"decode", "decoded"} => pos > 0
    /\ phase = "decode" => exact >= LeastOf(pos)
    /\ phase \in {"encode", "encoded"} /\ pos > 0 => len > 0

VarintInv == DecodesExactly /\ Widths

----------------------------------------------------------------------------
(* Division with remainder: the digit of a number and what is left of it.  *)
LEMMA Digits ==
    ASSUME NEW v \in Nat
    PROVE  /\ v \div Base \in Nat /\ Low(v) \in 0 .. Base - 1 /\ Low(v) \in Byte
           /\ v = (v \div Base) * Base + Low(v)
           /\ v \div Base <= v
  <1>1. v \div Base \in Nat /\ v % Base \in 0 .. Base - 1
        /\ v = Base * (v \div Base) + (v % Base)
    BY VarintAssumption
  <1>2. v \div Base <= Base * (v \div Base)
    BY <1>1, VarintAssumption
  <1> QED
    BY <1>1, <1>2, VarintAssumption DEF Low, Byte

(* The words are a multiple of the digits. *)
LEMMA Quotient == M \div Base \in Nat /\ (M \div Base) * Base = M
  BY Digits, VarintAssumption DEF Low

(* The table of widths grows by a digit and one value per byte. *)
LEMMA Table ==
    /\ \A n \in 1 .. MaxLen : LeastOf(n) \in Nat /\ MostOf(n) \in Nat
    /\ MostOf(1) = Base - 1 /\ LeastOf(2) = Base
    /\ \A n \in 1 .. MaxLen - 1 : MostOf(n + 1) = Longer(MostOf(n))
    /\ \A n \in 2 .. MaxLen - 1 : LeastOf(n + 1) = (LeastOf(n) + 1) * Base
    /\ (LeastOf(MaxLen) + 1) * Base >= M /\ MostOf(MaxLen) >= M - 1
  <1>1. \A n \in 1 .. MaxLen - 1 : MaxVal[n] \in Nat
    BY WidthAssumption
  <1>2. \A m \in Nat : Longer(m) \in Nat
    BY VarintAssumption DEF Longer
  <1>3. \A n \in 1 .. MaxLen : LeastOf(n) \in Nat /\ MostOf(n) \in Nat
    BY <1>1, <1>2, VarintAssumption DEF LeastOf, MostOf
  <1>4. MostOf(1) = Base - 1 /\ LeastOf(2) = Base
    BY <1>1, WidthAssumption, VarintAssumption DEF LeastOf, MostOf
  <1>5. \A n \in 1 .. MaxLen - 1 : MostOf(n + 1) = Longer(MostOf(n))
    BY <1>1, WidthAssumption, VarintAssumption DEF MostOf
  <1>6. ASSUME NEW n \in 2 .. MaxLen - 1
        PROVE  LeastOf(n + 1) = (LeastOf(n) + 1) * Base
    <2>1. n - 1 \in 1 .. MaxLen - 2 /\ (n - 1) + 1 = n
      BY VarintAssumption
    <2>2. MaxVal[n] = Longer(MaxVal[n - 1])
      BY <2>1, WidthAssumption
    <2>3. LeastOf(n + 1) = MaxVal[n] + 1 /\ LeastOf(n) = MaxVal[n - 1] + 1
      BY <2>1 DEF LeastOf
    <2> QED
      BY <1>1, <2>1, <2>2, <2>3, VarintAssumption DEF Longer
  <1>7. (LeastOf(MaxLen) + 1) * Base >= M /\ MostOf(MaxLen) >= M - 1
    BY <1>1, WidthAssumption, VarintAssumption DEF LeastOf, MostOf, Longer
  <1> QED
    BY <1>3, <1>4, <1>5, <1>6, <1>7

(* val + 1 does not overflow: neither does the value that follows it.      *)
LEMMA NoOverflow ==
    ASSUME NEW v \in Vals, NEW b \in Byte, ~Overflows((v + 1) % M)
    PROVE  /\ (v + 1) * Base + Low(b) \in Vals
           /\ (((v + 1) % M) * Base + Low(b)) % M = (v + 1) * Base + Low(b)
  <1>1. (v + 1) % M = v + 1 /\ v + 2 <= M \div Base
    <2>1. v + 1 # M
      BY VarintAssumption DEF Overflows
    <2>2. v + 1 \in 0 .. M - 1
      BY <2>1, VarintAssumption DEF Vals
    <2>3. (v + 1) % M = v + 1
      BY <2>2, VarintAssumption
    <2> QED
      BY <2>2, <2>3, Quotient, VarintAssumption DEF Overflows, Vals
  <1>2. (v + 2) * Base <= M
    BY <1>1, Quotient, VarintAssumption DEF Vals
  <1>3. Low(b) \in 0 .. Base - 1
    BY Digits DEF Byte
  <1>4. (v + 1) * Base + Low(b) \in Vals
    BY <1>2, <1>3, VarintAssumption DEF Vals
  <1> QED
    BY <1>1, <1>4, VarintAssumption DEF Vals

(* It does: the bytes stand for no value. *)
LEMMA Overflow ==
    ASSUME NEW v \in Vals, Overflows((v + 1) % M)
    PROVE  (v + 1) * Base >= M
  <1>1. CASE v + 1 = M
    BY <1>1, VarintAssumption
  <1>2. CASE v + 1 # M
    <2>1. (v + 1) % M = v + 1 /\ v + 1 # 0
      BY <1>2, VarintAssumption DEF Vals
    <2>2. v + 1 >= M \div Base
      BY <2>1 DEF Overflows
    <2> QED
      BY <2>2, Quotient, VarintAssumption DEF Vals
  <1> QED
    BY <1>1, <1>2

(* A digit is a value: a word has at least one digit. *)
LEMMA FirstDigit ==
    ASSUME NEW b \in Byte
    PROVE  Low(b) \in 0 .. Base - 1 /\ Low(b) \in Vals /\ Low(b) \in Byte
  <1>1. M \div Base # 0
    BY Quotient, VarintAssumption
  <1>2. Base <= M
    BY <1>1, Quotient, VarintAssumption
  <1>3. b \in Nat
    BY VarintAssumption DEF Byte
  <1>4. Low(b) \in 0 .. Base - 1
    BY <1>3, Digits
  <1> QED
    BY <1>2, <1>4, VarintAssumption DEF Vals, Byte

(* What the encoder goes on with after a byte is a value that fits into    *)
(* one byte less.                                                          *)
LEMMA EncoderShrinks ==
    ASSUME NEW v \in Vals, v \div Base # 0, NEW max \in Nat
    PROVE  /\ NextDigit(v) \in Vals /\ Base + Low(NextDigit(v)) \in Byte
           /\ v >= Base
           /\ v <= Longer(max) => NextDigit(v) <= max
  <1> DEFINE q == v \div Base
  <1>1. v \in Nat /\ q \in Nat \ {0} /\ q <= v
        /\ v = q * Base + Low(v) /\ Low(v) \in 0 .. Base - 1
    <2>1. v \in Nat
      BY VarintAssumption DEF Vals
    <2> QED
      BY <2>1, Digits
  <1> HIDE DEF q
  <1>2. NextDigit(v) = q - 1
    BY DEF NextDigit, q
  <1>3. NextDigit(v) \in Vals /\ NextDigit(v) \in Nat
    BY <1>1, <1>2, VarintAssumption DEF Vals
  <1>4. Base + Low(NextDigit(v)) \in Byte
    <2>1. Low(NextDigit(v)) \in 0 .. Base - 1
      BY <1>3, Digits
    <2> QED
      BY <2>1, VarintAssumption DEF Byte
  <1>5. q * Base >= Base
    BY <1>1, VarintAssumption
  <1>6. v >= Base
    BY <1>1, <1>5, VarintAssumption
  <1>7. ASSUME v <= Longer(max) PROVE q - 1 <= max
    <2>1. q * Base < (max + 2) * Base
      BY <1>1, <1>7, VarintAssumption DEF Longer
    <2>2. ~ (q >= max + 2)
      <3>1. q >= max + 2 => q * Base >= (max + 2) * Base
        BY <1>1, VarintAssumption
      <3> QED
        BY <2>1, <3>1, <1>1, VarintAssumption
    <2> QED
      BY <1>1, <2>2
  <1> QED
    BY <1>2, <1>3, <1>4, <1>6, <1>7

(* A decoder that has not overflowed may read one more byte, and has at    *)
(* least the least value of that many.                                     *)
LEMMA DecoderGrows ==
    ASSUME NEW v \in Nat, NEW p \in 1 .. MaxLen, v >= LeastOf(p),
           NEW d \in 0 .. Base - 1, (v + 1) * Base + d < M
    PROVE  p < MaxLen /\ (v + 1) * Base + d >= LeastOf(p + 1)
  <1>1. LeastOf(p) \in Nat
    BY Table
  <1>2. (v + 1) * Base >= (LeastOf(p) + 1) * Base
    BY <1>1, VarintAssumption
  <1>3. (v + 1) * Base \in Nat /\ (LeastOf(p) + 1) * Base \in Nat
    BY <1>1, VarintAssumption
  <1>4. p # MaxLen
    BY <1>1, <1>2, <1>3, Table, VarintAssumption
  <1>5. p \in 1 .. MaxLen - 1
    BY <1>4, VarintAssumption
  <1>6. CASE p = 1
    <2>1. LeastOf(p) = 0 /\ LeastOf(p + 1) = Base
      BY <1>6, Table DEF LeastOf
    <2> QED
      BY <1>2, <1>3, <1>5, <2>1, VarintAssumption
  <1>7. CASE p # 1
    <2>1. p \in 2 .. MaxLen - 1
      BY <1>5, <1>7
    <2>2. LeastOf(p + 1) = (LeastOf(p) + 1) * Base
      BY <2>1, Table
    <2> QED
      BY <1>2, <1>3, <1>5, <2>2, VarintAssumption
  <1> QED
    BY <1>6, <1>7

----------------------------------------------------------------------------
(* Both calls start within the invariant. *)
LEMMA VarintInitInv == VarintInit => VarintInv
  <1> SUFFICES ASSUME VarintInit PROVE VarintInv
    OBVIOUS
  <1> USE DEF VarintInv, DecodesExactly, VarintTypeOK, NeverWraps, StaysInMaxLen, Widths
  <1>1. mem \in [Cells -> Byte] /\ mem[1] \in Byte /\ Low(mem[1]) \in Byte
        /\ Low(mem[1]) \in Vals
    <2>1. mem \in [Cells -> Byte] /\ mem[1] \in Byte
      BY BufferAssumption, VarintAssumption DEF VarintInit, Cells
    <2> QED
      BY <2>1, FirstDigit
  <1>2. CASE phase = "encode"
    <2>1. given \in Vals /\ val = given /\ varint = <<Low(val)>> /\ pos = 0 /\ exact = 0
      BY <1>2 DEF VarintInit
    <2>2. varint \in Seq(Byte) /\ Len(varint) = 1
      BY <2>1, Digits DEF Vals
    <2>3. val <= MostOf(MaxLen)
      BY <2>1, Table, VarintAssumption DEF Vals
    <2> QED
      BY <1>1, <1>2, <2>1, <2>2, <2>3, VarintAssumption DEF VarintInit, Vals
  <1>3. CASE phase = "decode"
    <2>1. given = -1 /\ val = Low(mem[1]) /\ varint = << >> /\ pos = 1 /\ exact = Low(mem[1])
      BY <1>3 DEF VarintInit
    <2>2. exact >= LeastOf(pos)
      BY <1>1, <2>1 DEF LeastOf, Vals
    <2> QED
      BY <1>1, <1>3, <2>1, <2>2, VarintAssumption DEF VarintInit, Vals
  <1> QED
    BY <1>2, <1>3 DEF VarintInit

(* The seven steps keep the invariant. *)
LEMMA VarintStepInv == VarintInv /\ [VarintNext]_varintvars => VarintInv'
  <1> SUFFICES ASSUME VarintInv, [VarintNext]_varintvars PROVE VarintInv'
    OBVIOUS
  <1> USE DEF VarintInv, DecodesExactly, VarintTypeOK, NeverWraps, StaysInMaxLen, Widths
  <1>0. /\ val \in Vals /\ val \in Nat /\ varint \in Seq(Byte) /\ mem \in [Cells -> Byte]
        /\ \A c \in Cells : mem[c] \in Byte
    BY DEF Vals
  <1>1. CASE EncodeByte
    <2>1. /\ phase = "encode" /\ phase' = "encode" /\ val \div Base # 0
          /\ val' = NextDigit(val) /\ varint' = <<Base + Low(NextDigit(val))>> \o varint
          /\ Len(varint) \in 1 .. MaxLen /\ val <= MostOf(MaxLen + 1 - Len(varint))
      BY <1>1 DEF EncodeByte
    <2>2. PICK n \in 1 .. MaxLen : n = MaxLen + 1 - Len(varint) /\ val <= MostOf(n)
      BY <2>1, VarintAssumption
    <2>3. /\ val' \in Vals /\ Base + Low(NextDigit(val)) \in Byte /\ val >= Base
          /\ \A max \in Nat : val <= Longer(max) => val' <= max
      BY <1>0, <2>1, EncoderShrinks
    <2>4. varint' \in Seq(Byte) /\ Len(varint') = Len(varint) + 1
      BY <1>0, <2>1, <2>3
    <2>5. n # 1
      <3>1. MostOf(1) = Base - 1 /\ Base \in Nat
        BY Table, VarintAssumption
      <3> QED
        BY <1>0, <2>2, <2>3, <3>1
    <2>6. n - 1 \in 1 .. MaxLen - 1 /\ (n - 1) + 1 = n
      BY <2>2, <2>5, VarintAssumption
    <2>7. MostOf(n) = Longer(MostOf(n - 1)) /\ MostOf(n - 1) \in Nat
      <3> DEFINE m == n - 1
      <3>1. m \in 1 .. MaxLen - 1 /\ m + 1 = n /\ MaxLen \in Nat
        BY <2>6, VarintAssumption
      <3> HIDE DEF m
      <3>2. m \in 1 .. MaxLen
        BY <3>1
      <3>3. MostOf(m) \in Nat
        BY <3>2, Table
      <3>4. MostOf(m + 1) = Longer(MostOf(m))
        BY <3>1, Table
      <3> QED
        BY <3>1, <3>3, <3>4 DEF m
    <2>8. val' <= MostOf(n - 1)
      BY <2>2, <2>3, <2>7
    <2>9. n - 1 = MaxLen + 1 - Len(varint') /\ Len(varint') \in 1 .. MaxLen
      BY <2>1, <2>2, <2>4, <2>6, VarintAssumption
    <2> QED
      BY <1>1, <2>1, <2>3, <2>4, <2>8, <2>9 DEF EncodeByte
  <1>2. CASE EncodeEnd
    <2>1. Overwritten \in [Cells -> Byte]
      BY <1>0, VarintAssumption DEF Overwritten, Cells
    <2>2. Len(varint) \in 1 .. MaxLen /\ phase = "encode"
      BY <1>2 DEF EncodeEnd
    <2>3. mem' = mem \/ mem' = Overwritten
      BY <1>2 DEF EncodeEnd
    <2>4. /\ phase' \in {"done", "encoded"} /\ result' \in {-1, Len(varint)}
          /\ <<val, varint, pos, exact, len, given>>' = <<val, varint, pos, exact, len, given>>
      BY <1>2 DEF EncodeEnd
    <2> QED
      BY <2>1, <2>2, <2>3, <2>4
  <1>3. CASE DecodeByte
    <2>1. /\ phase = "decode" /\ phase' = "decode" /\ ~Overflows((val + 1) % M)
          /\ pos' = pos + 1 /\ exact' = (exact + 1) * Base + Low(mem[pos + 1])
          /\ val' = (((val + 1) % M) * Base + Low(mem[pos + 1])) % M
          /\ val = exact /\ pos \in 1 .. MaxLen /\ exact >= LeastOf(pos)
      BY <1>3 DEF DecodeByte, Plus1
    <2>2. mem[pos + 1] \in Byte
      BY <1>0, <2>1, VarintAssumption DEF Cells
    <2>3. val' = exact' /\ val' \in Vals
      BY <1>0, <2>1, <2>2, NoOverflow
    <2>4. Low(mem[pos + 1]) \in 0 .. Base - 1
      BY <2>2, FirstDigit
    <2>5. exact' < M /\ exact' \in Nat
      BY <2>3, VarintAssumption DEF Vals
    <2>6. pos < MaxLen /\ exact' >= LeastOf(pos + 1)
      BY <1>0, <2>1, <2>4, <2>5, DecoderGrows
    <2> QED
      BY <1>3, <2>1, <2>3, <2>5, <2>6, VarintAssumption DEF DecodeByte
  <1>4. CASE DecodeOverflow
    <2>1. phase = "decode" /\ More(mem[pos]) /\ Overflows((val + 1) % M)
      BY <1>4 DEF DecodeOverflow, Plus1
    <2>2. (exact + 1) * Base >= M
      BY <1>0, <2>1, Overflow
    <2> QED
      BY <1>4, <2>1, <2>2, VarintAssumption DEF DecodeOverflow
  <1>5. CASE DecodeEnd
    BY <1>5, VarintAssumption DEF DecodeEnd, Vals
  <1>6. CASE DecodeAgain
    <2>1. mem[1] \in Byte
      BY <1>0, VarintAssumption DEF Cells
    <2>2. Low(mem[1]) \in Vals /\ Low(mem[1]) \in Nat
      BY <2>1, FirstDigit
    <2> QED
      BY <1>6, <2>2, VarintAssumption DEF DecodeAgain, LeastOf
  <1>7. CASE EncodeAgain
    <2>1. varint' = <<Low(val)>> /\ Low(val) \in Byte /\ val' = val
      BY <1>7, Digits DEF EncodeAgain, Vals
    <2>2. varint' \in Seq(Byte) /\ Len(varint') = 1
      BY <2>1
    <2>3. val <= MostOf(MaxLen)
      BY Table, VarintAssumption DEF Vals
    <2> QED
      BY <1>7, <2>1, <2>2, <2>3, VarintAssumption DEF EncodeAgain
  <1>8. CASE UNCHANGED varintvars
    BY <1>8 DEF varintvars
  <1> QED
    BY <1>1, <1>2, <1>3, <1>4, <1>5, <1>6, <1>7, <1>8 DEF VarintNext

(* The decoder is exact for every word, digit and buffer: what it returns  *)
(* is the number that the bytes stand for, it gives up only on bytes that  *)
(* stand for none, and neither function passes VARINT_MAXLEN (varint.c).   *)
THEOREM VarintsAreExact == VarintSpec => []DecodesExactly
  <1>1. VarintInv => DecodesExactly
    BY DEF VarintInv
  <1> QED
    BY VarintInitInv, VarintStepInv, <1>1, PTL DEF VarintSpec

----------------------------------------------------------------------------
(* Division finds what a number was made of. *)
LEMMA Undone ==
    ASSUME NEW a \in Nat, NEW d \in 0 .. Base - 1
    PROVE  (a * Base + d) \div Base = a /\ Low(a * Base + d) = d
  <1> DEFINE v == a * Base + d
             q == v \div Base
             r == Low(v)
  <1>1. v \in Nat /\ Base \in Nat /\ Base > 0
    BY VarintAssumption
  <1>2. q \in Nat /\ r \in 0 .. Base - 1 /\ v = q * Base + r
    BY <1>1, Digits
  <1>3. q * Base + r = a * Base + d
    BY <1>2
  <1> HIDE DEF v, q, r
  <1>4. ~(q < a)
    <2>1. q < a => (q + 1) * Base <= a * Base
      BY <1>1, <1>2
    <2>2. (q + 1) * Base = q * Base + Base
      BY <1>1, <1>2
    <2> QED
      BY <1>1, <1>2, <1>3, <2>1, <2>2
  <1>5. ~(a < q)
    <2>1. a < q => (a + 1) * Base <= q * Base
      BY <1>1, <1>2
    <2>2. (a + 1) * Base = a * Base + Base
      BY <1>1
    <2> QED
      BY <1>1, <1>2, <1>3, <2>1, <2>2
  <1>6. q = a /\ r = d
    BY <1>1, <1>2, <1>3, <1>4, <1>5
  <1> QED
    BY <1>6 DEF v, q, r

(* A number below the base is a digit, and nothing is left of it. *)
LEMMA OneDigit ==
    ASSUME NEW d \in 0 .. Base - 1
    PROVE  d \div Base = 0 /\ Low(d) = d
  <1>1. 0 * Base + d = d
    BY VarintAssumption
  <1> QED
    BY <1>1, Undone

(* A byte is its digit, and the bit if it has it. *)
LEMMA BytesAreDigits ==
    ASSUME NEW b \in Byte
    PROVE  /\ Low(b) \in 0 .. Base - 1
           /\ b = IF More(b) THEN Base + Low(b) ELSE Low(b)
  <1>1. CASE More(b)
    <2>1. b - Base \in 0 .. Base - 1 /\ 1 * Base + (b - Base) = b
      BY <1>1, VarintAssumption DEF Byte, More
    <2>2. Low(b) = b - Base
      BY <2>1, Undone
    <2> QED
      BY <1>1, <2>1, <2>2, VarintAssumption DEF Byte
  <1>2. CASE ~More(b)
    <2>1. b \in 0 .. Base - 1
      BY <1>2, VarintAssumption DEF Byte, More
    <2> QED
      BY <1>2, <2>1, OneDigit
  <1> QED
    BY <1>1, <1>2

(* A byte that is followed by another *)
LEMMA MoreByte ==
    ASSUME NEW d \in 0 .. Base - 1
    PROVE  Base + d \in Byte /\ More(Base + d) /\ Low(Base + d) = d
  <1>1. 1 * Base + d = Base + d /\ Base + d \in Byte /\ More(Base + d)
    BY VarintAssumption DEF Byte, More
  <1> QED
    BY <1>1, Undone

(* The first n bytes of b belong to one varint: from first on, f has the   *)
(* number that they stand for up to each.                                  *)
Spelt(f, b, n, first) ==
    /\ f \in [1 .. n -> Nat] /\ f[1] = first
    /\ \A k \in 1 .. n - 1 : More(b[k]) /\ f[k + 1] = (f[k] + 1) * Base + Low(b[k + 1])

(* A value that is encoded can be had back from what has been encoded of   *)
(* it, and then from the buffer; and bytes that were decoded are encoded   *)
(* again, the last first.                                                  *)
OfValue(f) == Spelt(f, varint, Len(varint), val) /\ f[Len(varint)] = given

OfBuffer(f, n) == Spelt(f, mem, n, Low(mem[1]))

Rounds ==
    /\ given # -1 /\ phase = "encode" =>
         /\ Low(varint[1]) = Low(val) /\ ~More(varint[Len(varint)])
         /\ \E f : OfValue(f)
    /\ given # -1 /\ phase \in {"encoded", "decode"} =>
         /\ Len(varint) > 0 /\ ~More(mem[Len(varint)])
         /\ \E f : /\ OfBuffer(f, Len(varint)) /\ f[Len(varint)] = given
                   /\ phase = "decode" => pos <= Len(varint) /\ f[pos] = exact
    /\ given # -1 /\ phase = "decoded" => result = given /\ len = Len(varint)
    /\ given = -1 /\ phase = "decode" => \E f : OfBuffer(f, pos) /\ f[pos] = exact
    /\ given = -1 /\ phase = "decoded" =>
         ~More(mem[len]) /\ \E f : OfBuffer(f, len) /\ f[len] = val
    /\ given = -1 /\ phase = "encode" =>
         /\ Len(varint) <= len /\ len <= MaxLen
         /\ \A i \in 1 .. Len(varint) : varint[i] = mem[len - Len(varint) + i]
         /\ \E f : OfBuffer(f, len) /\ f[len - Len(varint) + 1] = val
    /\ given = -1 /\ phase = "encoded" => Len(varint) = len

(* What was decoded so far has a value of so many bytes. *)
InWidth ==
    phase \in {"decode", "decoded"} => LeastOf(pos) <= exact /\ exact <= MostOf(pos)

RoundInv == VarintInv /\ Rounds /\ InWidth

(* The digit of the number that bytes stand for is that of the last byte.  *)
LEMMA LastDigit ==
    ASSUME NEW n \in Nat, NEW f, OfBuffer(f, n), NEW k \in 1 .. n,
           mem \in [Cells -> Byte], n \in 1 .. MaxLen
    PROVE  /\ Low(f[k]) = Low(mem[k]) /\ f[k] \in Nat
           /\ f[k] \div Base = IF k = 1 THEN 0 ELSE f[k - 1] + 1
  <1>1. n \in 1 .. MaxLen /\ MaxLen \in Nat /\ mem[1] \in Byte /\ mem[k] \in Byte
    BY VarintAssumption DEF Cells
  <1>2. f[k] \in Nat
    BY DEF OfBuffer, Spelt
  <1>3. Low(mem[k]) \in 0 .. Base - 1
    BY <1>1, BytesAreDigits
  <1>4. CASE k = 1
    <2>1. f[k] = Low(mem[k])
      BY <1>4 DEF OfBuffer, Spelt
    <2> QED
      BY <1>2, <1>3, <1>4, <2>1, OneDigit
  <1>5. CASE k # 1
    <2>1. k - 1 \in 1 .. n - 1 /\ (k - 1) + 1 = k /\ k - 1 \in 1 .. n
      BY <1>1, <1>5
    <2>2. f[k] = (f[k - 1] + 1) * Base + Low(mem[k]) /\ f[k - 1] + 1 \in Nat
      <3>1. f[(k - 1) + 1] = (f[k - 1] + 1) * Base + Low(mem[(k - 1) + 1])
        BY <2>1 DEF OfBuffer, Spelt
      <3>2. f[k - 1] \in Nat
        BY <2>1 DEF OfBuffer, Spelt
      <3> QED
        BY <2>1, <3>1, <3>2
    <2> QED
      BY <1>2, <1>3, <1>5, <2>2, Undone
  <1> QED
    BY <1>4, <1>5

(* One byte is spelt by its number. *)
LEMMA OneByte ==
    ASSUME NEW b, NEW first \in Nat
    PROVE  \E f : Spelt(f, b, 1, first) /\ f[1] = first
  <1> DEFINE f == [k \in 1 .. 1 |-> first]
  <1>1. Spelt(f, b, 1, first) /\ f[1] = first
    BY DEF Spelt
  <1> HIDE DEF f
  <1> QED
    BY <1>1

(* What the invariant above says of every step *)
LEMMA Facts ==
    ASSUME VarintInv
    PROVE  /\ val \in Nat /\ varint \in Seq(Byte) /\ Len(varint) \in 0 .. MaxLen
           /\ mem \in [Cells -> Byte] /\ \A k \in 1 .. MaxLen + 1 : mem[k] \in Byte
           /\ MaxLen \in Nat /\ pos \in Nat /\ pos <= MaxLen /\ exact \in Nat
           /\ phase = "encode" => Len(varint) \in 1 .. MaxLen
           /\ phase \in {"decode", "decoded"} => pos \in 1 .. MaxLen /\ val = exact
           /\ phase = "decoded" => result = exact /\ len = pos
  BY VarintAssumption
  DEF VarintInv, DecodesExactly, VarintTypeOK, NeverWraps, StaysInMaxLen, Widths, Vals, Cells

(* Nothing is encoded at the start. *)
LEMMA RoundInit == VarintInit => RoundInv
  <1> SUFFICES ASSUME VarintInit PROVE Rounds /\ InWidth
    BY VarintInitInv DEF RoundInv
  <1>1. VarintInv
    BY VarintInitInv
  <1>2. CASE phase = "encode"
    <2>1. given \in Vals /\ given \in Nat /\ given # -1 /\ val = given /\ varint = <<Low(val)>>
      BY <1>2 DEF VarintInit, Vals
    <2>2. Low(val) \in 0 .. Base - 1
      BY <2>1, Digits
    <2>3. Low(Low(val)) = Low(val) /\ ~More(Low(val))
      BY <2>2, OneDigit, VarintAssumption DEF More
    <2>4. Len(varint) = 1 /\ varint[1] = Low(val)
      BY <2>1
    <2>5. \E f : OfValue(f)
      BY <2>1, <2>4, OneByte DEF OfValue
    <2> QED
      BY <1>2, <2>1, <2>3, <2>4, <2>5 DEF Rounds, InWidth
  <1>3. CASE phase = "decode"
    <2>1. given = -1 /\ pos = 1 /\ exact = Low(mem[1])
      BY <1>3 DEF VarintInit
    <2>2. exact \in 0 .. Base - 1
      BY <1>1, <2>1, Facts, BytesAreDigits
    <2>3. \E f : OfBuffer(f, 1) /\ f[1] = exact
      BY <2>1, <2>2, OneByte DEF OfBuffer
    <2>4. LeastOf(1) = 0 /\ MostOf(1) = Base - 1
      BY Table DEF LeastOf
    <2> QED
      BY <1>3, <2>1, <2>2, <2>3, <2>4, VarintAssumption DEF Rounds, InWidth
  <1> QED
    BY <1>2, <1>3 DEF VarintInit

(* A byte is put before those of a value, or is the byte before of those   *)
(* that were decoded.                                                      *)
LEMMA RoundEncodeByte == RoundInv /\ EncodeByte => Rounds'
  <1> SUFFICES ASSUME RoundInv, EncodeByte PROVE Rounds'
    OBVIOUS
  <1> DEFINE n == Len(varint)
             v == NextDigit(val)
             b == Base + Low(v)
  <1>1. /\ phase = "encode" /\ phase' = "encode" /\ val \div Base # 0 /\ val' = v
        /\ varint' = <<b>> \o varint
        /\ UNCHANGED <<mem, pos, exact, result, len, given>>
    BY DEF EncodeByte
  <1>2. VarintInv /\ Rounds
    BY DEF RoundInv
  <1>3. /\ val \in Nat /\ varint \in Seq(Byte) /\ n \in 1 .. MaxLen
        /\ mem \in [Cells -> Byte] /\ \A k \in 1 .. MaxLen + 1 : mem[k] \in Byte
        /\ MaxLen \in Nat
    BY <1>1, <1>2, Facts
  <1>4. /\ v \in Nat /\ val = (v + 1) * Base + Low(val) /\ Low(v) \in 0 .. Base - 1
        /\ v + 1 = val \div Base
    <2> DEFINE q == val \div Base
    <2>1. q \in Nat \ {0} /\ val = q * Base + Low(val)
      BY <1>1, <1>3, Digits
    <2>2. v = q - 1
      BY DEF NextDigit
    <2> HIDE DEF q, v
    <2>3. v \in Nat /\ v + 1 = q
      BY <2>1, <2>2
    <2> QED
      BY <2>1, <2>3, Digits DEF q
  <1>5. b \in Byte /\ More(b) /\ Low(b) = Low(v)
    BY <1>4, MoreByte
  <1> HIDE DEF v, b
  <1>6. /\ Len(varint') = n + 1 /\ varint'[1] = b
        /\ \A k \in 1 .. n : varint'[k + 1] = varint[k]
    BY <1>1, <1>3, <1>5
  <1>7. CASE given # -1
    <2>1. Low(varint[1]) = Low(val) /\ ~More(varint[n])
      BY <1>1, <1>2, <1>7 DEF Rounds
    <2>2. PICK f : OfValue(f)
      BY <1>1, <1>2, <1>7 DEF Rounds
    <2>3. /\ f \in [1 .. n -> Nat] /\ f[1] = val /\ f[n] = given
          /\ \A k \in 1 .. n - 1 :
                More(varint[k]) /\ f[k + 1] = (f[k] + 1) * Base + Low(varint[k + 1])
      BY <2>2 DEF OfValue, Spelt
    <2> DEFINE g == [k \in 1 .. n + 1 |-> IF k = 1 THEN v ELSE f[k - 1]]
    <2>4. /\ g \in [1 .. n + 1 -> Nat] /\ g[1] = v /\ g[n + 1] = given
          /\ \A k \in 1 .. n : g[k + 1] = f[k]
      <3>1. \A k \in 1 .. n + 1 : k # 1 => k - 1 \in 1 .. n
        BY <1>3
      <3>2. g \in [1 .. n + 1 -> Nat]
        BY <1>4, <2>3, <3>1
      <3>3. g[1] = v
        BY <1>3
      <3>4. \A k \in 1 .. n : k + 1 \in 1 .. n + 1 /\ k + 1 # 1 /\ (k + 1) - 1 = k
        BY <1>3
      <3>5. \A k \in 1 .. n : g[k + 1] = f[k]
        BY <3>4
      <3>6. n \in 1 .. n
        BY <1>3
      <3>7. g[n + 1] = given
        BY <2>3, <3>5, <3>6
      <3> QED
        BY <3>2, <3>3, <3>5, <3>7
    <2> HIDE DEF g
    <2>5. ASSUME NEW k \in 1 .. n
          PROVE  More(varint'[k]) /\ g[k + 1] = (g[k] + 1) * Base + Low(varint'[k + 1])
      <3>1. CASE k = 1
        BY <1>3, <1>4, <1>5, <1>6, <2>1, <2>3, <2>4, <3>1
      <3>2. CASE k # 1
        <4>1. k - 1 \in 1 .. n - 1 /\ (k - 1) + 1 = k /\ k - 1 \in 1 .. n /\ k \in 1 .. n
          BY <1>3, <3>2
        <4>2. varint'[k] = varint[k - 1] /\ varint'[k + 1] = varint[k]
              /\ g[k] = f[k - 1] /\ g[k + 1] = f[k]
          <5>1. varint'[(k - 1) + 1] = varint[k - 1] /\ g[(k - 1) + 1] = f[k - 1]
            BY <1>6, <2>4, <4>1
          <5> QED
            BY <1>6, <2>4, <4>1, <5>1
        <4>3. /\ More(varint[k - 1])
              /\ f[(k - 1) + 1] = (f[k - 1] + 1) * Base + Low(varint[(k - 1) + 1])
          BY <2>3, <4>1
        <4> QED
          BY <4>1, <4>2, <4>3
      <3> QED
        BY <3>1, <3>2
    <2>6. (\E h : OfValue(h))'
      <3>1. Spelt(g, varint', n + 1, v)
        <4>1. (n + 1) - 1 = n
          BY <1>3
        <4> QED
          BY <2>4, <2>5, <4>1 DEF Spelt
      <3>2. PICK h : h = g
        OBVIOUS
      <3>3. (OfValue(h))'
        BY <1>1, <1>6, <2>4, <3>1, <3>2 DEF OfValue, Spelt
      <3> QED
        BY <3>3
    <2>7. Low(varint'[1]) = Low(val') /\ ~More(varint'[n + 1])
      BY <1>1, <1>3, <1>5, <1>6, <2>1
    <2> QED
      BY <1>1, <1>6, <1>7, <2>6, <2>7 DEF Rounds
  <1>8. CASE given = -1
    <2> DEFINE j == len - n + 1
    <2>1. /\ n <= len /\ len <= MaxLen /\ \A i \in 1 .. n : varint[i] = mem[len - n + i]
          /\ len \in Nat
      <3>1. len \in Nat
        BY <1>2 DEF VarintInv, DecodesExactly, VarintTypeOK
      <3> QED
        BY <1>1, <1>2, <1>8, <3>1 DEF Rounds
    <2>2. PICK f : OfBuffer(f, len) /\ f[j] = val
      BY <1>1, <1>2, <1>8 DEF Rounds
    <2>3. j \in 1 .. len /\ len \in 1 .. MaxLen
      BY <1>3, <2>1
    <2>4. val \div Base = (IF j = 1 THEN 0 ELSE f[j - 1] + 1)
      BY <1>3, <2>1, <2>2, <2>3, LastDigit
    <2>5. j # 1 /\ f[j - 1] + 1 = v + 1
      BY <1>1, <1>4, <2>4
    <2>6. j - 1 \in 1 .. len /\ j - 1 \in 1 .. len - 1 /\ j - 1 = len - n /\ n + 1 <= len
      BY <1>3, <2>1, <2>3, <2>5
    <2>7. f[j - 1] = v /\ Low(v) = Low(mem[j - 1])
      <3>1. Low(f[j - 1]) = Low(mem[j - 1]) /\ f[j - 1] \in Nat
        BY <1>3, <2>1, <2>2, <2>3, <2>6, LastDigit
      <3> QED
        BY <1>4, <2>5, <3>1
    <2>8. mem[j - 1] = b
      <3>1. mem[j - 1] \in Byte /\ More(mem[j - 1])
        <4>1. j - 1 \in 1 .. MaxLen + 1
          BY <1>3, <2>1, <2>6
        <4> QED
          BY <1>3, <2>2, <2>6, <4>1 DEF OfBuffer, Spelt
      <3> QED
        BY <2>7, <3>1, BytesAreDigits DEF b
    <2>9. ASSUME NEW i \in 1 .. n + 1 PROVE varint'[i] = mem[len - (n + 1) + i]
      <3>1. CASE i = 1
        <4>1. len - (n + 1) + i = j - 1
          BY <1>3, <2>1, <3>1
        <4> QED
          BY <1>6, <2>8, <3>1, <4>1
      <3>2. CASE i # 1
        <4>1. i - 1 \in 1 .. n /\ (i - 1) + 1 = i /\ len - n + (i - 1) = len - (n + 1) + i
          BY <1>3, <2>1, <3>2
        <4>2. varint'[(i - 1) + 1] = varint[i - 1] /\ varint[i - 1] = mem[len - n + (i - 1)]
          BY <1>6, <2>1, <4>1
        <4> QED
          BY <4>1, <4>2
      <3> QED
        BY <3>1, <3>2
    <2>10. f[len - (n + 1) + 1] = v
      <3>1. len - (n + 1) + 1 = j - 1
        BY <1>3, <2>1
      <3> QED
        BY <2>7, <3>1
    <2>11. (\E h : OfBuffer(h, len) /\ h[len - Len(varint) + 1] = val)'
      <3>1. (OfBuffer(f, len))'
        BY <1>1, <2>2 DEF OfBuffer, Spelt
      <3> QED
        BY <1>1, <1>6, <2>10, <3>1
    <2> QED
      BY <1>1, <1>6, <1>8, <2>1, <2>6, <2>9, <2>11 DEF Rounds
  <1> QED
    BY <1>7, <1>8

(* The buffer has the bytes of the value; or as many as were decoded.      *)
LEMMA RoundEncodeEnd == RoundInv /\ EncodeEnd => Rounds'
  <1> SUFFICES ASSUME RoundInv, EncodeEnd PROVE Rounds'
    OBVIOUS
  <1> DEFINE n == Len(varint)
  <1>1. /\ phase = "encode" /\ val \div Base = 0
        /\ phase' = "done" \/ (phase' = "encoded" /\ mem' = Overwritten)
        /\ UNCHANGED <<val, varint, pos, exact, len, given>>
    BY DEF EncodeEnd
  <1>2. VarintInv /\ Rounds
    BY DEF RoundInv
  <1>3. /\ val \in Nat /\ varint \in Seq(Byte) /\ n \in 1 .. MaxLen
        /\ mem \in [Cells -> Byte] /\ MaxLen \in Nat
    BY <1>1, <1>2, Facts
  <1>4. CASE phase' = "done"
    BY <1>4 DEF Rounds
  <1>5. CASE phase' = "encoded" /\ mem' = Overwritten /\ given # -1
    <2>1. Low(varint[1]) = Low(val) /\ ~More(varint[n])
      BY <1>1, <1>2, <1>5 DEF Rounds
    <2>2. PICK f : OfValue(f)
      BY <1>1, <1>2, <1>5 DEF Rounds
    <2>3. \A k \in 1 .. n : mem'[k] = varint[k]
      BY <1>3, <1>5 DEF Overwritten, Cells
    <2>4. val = Low(val)
      <3>1. val = (val \div Base) * Base + Low(val) /\ Low(val) \in 0 .. Base - 1
        BY <1>3, Digits
      <3>2. 0 * Base = 0 /\ \A d \in 0 .. Base - 1 : 0 + d = d
        BY VarintAssumption
      <3> QED
        BY <1>1, <3>1, <3>2
    <2>5. f[1] = Low(mem'[1]) /\ ~More(mem'[n])
      BY <1>3, <2>1, <2>2, <2>3, <2>4 DEF OfValue, Spelt
    <2>6. \A k \in 1 .. n - 1 :
             More(mem'[k]) /\ f[k + 1] = (f[k] + 1) * Base + Low(mem'[k + 1])
      <3>1. \A k \in 1 .. n - 1 : k \in 1 .. n /\ k + 1 \in 1 .. n
        BY <1>3
      <3> QED
        BY <2>2, <2>3, <3>1 DEF OfValue, Spelt
    <2>7. (OfBuffer(f, n))' /\ f[n] = given
      BY <1>1, <2>2, <2>5, <2>6 DEF OfBuffer, OfValue, Spelt
    <2> QED
      BY <1>1, <1>3, <1>5, <2>5, <2>7 DEF Rounds
  <1>6. CASE phase' = "encoded" /\ given = -1
    <2> DEFINE j == len - n + 1
    <2>1. n <= len /\ len <= MaxLen /\ len \in Nat
      <3>1. len \in Nat
        BY <1>2 DEF VarintInv, DecodesExactly, VarintTypeOK
      <3> QED
        BY <1>1, <1>2, <1>6, <3>1 DEF Rounds
    <2>2. PICK f : OfBuffer(f, len) /\ f[j] = val
      BY <1>1, <1>2, <1>6 DEF Rounds
    <2>3. j \in 1 .. len /\ len \in 1 .. MaxLen
      BY <1>3, <2>1
    <2>4. val \div Base = (IF j = 1 THEN 0 ELSE f[j - 1] + 1)
      BY <1>3, <2>1, <2>2, <2>3, LastDigit
    <2>5. j # 1 => f[j - 1] \in Nat
      <3>1. j # 1 => j - 1 \in 1 .. len
        BY <2>1, <2>3
      <3> QED
        BY <2>2, <3>1 DEF OfBuffer, Spelt
    <2>6. j = 1
      BY <1>1, <2>4, <2>5
    <2>7. n = len
      BY <1>3, <2>1, <2>6
    <2> QED
      BY <1>1, <1>6, <2>7 DEF Rounds
  <1> QED
    BY <1>1, <1>4, <1>5, <1>6

(* What has been decoded of a value goes on as it was encoded. *)
LEMMA RoundDecodeByte == RoundInv /\ DecodeByte => Rounds' /\ InWidth'
  <1> SUFFICES ASSUME RoundInv, DecodeByte PROVE Rounds' /\ InWidth'
    OBVIOUS
  <1> DEFINE d == Low(mem[pos + 1])
             next == (exact + 1) * Base + d
  <1>1. /\ phase = "decode" /\ phase' = "decode" /\ More(mem[pos])
        /\ pos' = pos + 1 /\ exact' = next
        /\ UNCHANGED <<mem, varint, result, len, given>>
    BY DEF DecodeByte
  <1>2. VarintInv /\ Rounds /\ InWidth
    BY DEF RoundInv
  <1>3. /\ mem \in [Cells -> Byte] /\ pos \in 1 .. MaxLen /\ exact \in Nat
        /\ mem[pos + 1] \in Byte /\ MaxLen \in Nat
    <2>1. pos \in 1 .. MaxLen /\ MaxLen \in Nat /\ pos + 1 \in 1 .. MaxLen + 1
      BY <1>1, <1>2, Facts
    <2> QED
      BY <1>2, <2>1, Facts
  <1>4. d \in 0 .. Base - 1 /\ next \in Nat
    <2>1. d \in 0 .. Base - 1
      BY <1>3, BytesAreDigits
    <2> QED
      BY <1>3, <2>1, VarintAssumption
  <1>5. VarintInv'
    BY <1>2, VarintStepInv DEF VarintNext
  <1>6. pos + 1 \in 1 .. MaxLen
    <2>1. pos' <= MaxLen
      BY <1>5 DEF VarintInv, DecodesExactly, StaysInMaxLen
    <2> QED
      BY <1>1, <1>3, <2>1
  <1>7. InWidth'
    <2>1. exact <= MostOf(pos) /\ pos \in 1 .. MaxLen - 1
      BY <1>1, <1>2, <1>3, <1>6 DEF InWidth
    <2>2. MostOf(pos) \in Nat /\ MostOf(pos + 1) = (MostOf(pos) + 2) * Base - 1
      BY <1>3, <2>1, Table DEF Longer
    <2>3. (exact + 1) * Base <= (MostOf(pos) + 1) * Base
      BY <1>3, <2>1, <2>2, VarintAssumption
    <2>4. (MostOf(pos) + 2) * Base = (MostOf(pos) + 1) * Base + Base
      BY <2>2, VarintAssumption
    <2>5. (exact + 1) * Base \in Nat /\ (MostOf(pos) + 1) * Base \in Nat
      BY <1>3, <2>2, VarintAssumption
    <2> HIDE DEF d
    <2>6. next <= MostOf(pos + 1)
      BY <1>4, <2>2, <2>3, <2>4, <2>5, VarintAssumption
    <2>7. next >= LeastOf(pos + 1)
      BY <1>1, <1>5 DEF VarintInv, Widths
    <2> QED
      BY <1>1, <2>6, <2>7 DEF InWidth, LeastOf, MostOf
  <1> HIDE DEF next
  <1>8. CASE given # -1
    <2>1. /\ Len(varint) > 0 /\ ~More(mem[Len(varint)]) /\ Len(varint) \in Nat
      BY <1>1, <1>2, <1>8, Facts DEF Rounds
    <2>2. PICK f : /\ OfBuffer(f, Len(varint)) /\ f[Len(varint)] = given
                   /\ pos <= Len(varint) /\ f[pos] = exact
      BY <1>1, <1>2, <1>8 DEF Rounds
    <2>3. pos \in 1 .. Len(varint) - 1
      BY <1>1, <1>3, <2>1, <2>2
    <2>4. f[pos + 1] = next /\ pos + 1 <= Len(varint)
      BY <2>1, <2>2, <2>3 DEF OfBuffer, Spelt, next
    <2>5. (OfBuffer(f, Len(varint)))'
      BY <1>1, <2>2 DEF OfBuffer, Spelt
    <2> QED
      BY <1>1, <1>7, <1>8, <2>1, <2>2, <2>4, <2>5 DEF Rounds
  <1>9. CASE given = -1
    <2>1. PICK f : OfBuffer(f, pos) /\ f[pos] = exact
      BY <1>1, <1>2, <1>9 DEF Rounds
    <2>2. PICK g : g = [k \in 1 .. pos + 1 |-> IF k = pos + 1 THEN next ELSE f[k]]
      OBVIOUS
    <2>3. /\ g \in [1 .. pos + 1 -> Nat] /\ g[pos + 1] = next
          /\ \A k \in 1 .. pos : g[k] = f[k]
      <3>1. \A k \in 1 .. pos + 1 : k # pos + 1 => k \in 1 .. pos
        BY <1>3
      <3>2. f \in [1 .. pos -> Nat]
        BY <2>1 DEF OfBuffer, Spelt
      <3> QED
        BY <1>3, <1>4, <2>2, <3>1, <3>2
    <2>4. ASSUME NEW k \in 1 .. pos
          PROVE  More(mem[k]) /\ g[k + 1] = (g[k] + 1) * Base + Low(mem[k + 1])
      <3>1. CASE k = pos
        BY <1>1, <1>3, <2>1, <2>3, <3>1 DEF next
      <3>2. CASE k # pos
        <4>1. k \in 1 .. pos - 1 /\ k + 1 \in 1 .. pos
          BY <1>3, <3>2
        <4> QED
          BY <2>1, <2>3, <4>1 DEF OfBuffer, Spelt
      <3> QED
        BY <3>1, <3>2
    <2>5. g[1] = Low(mem[1])
      BY <1>3, <2>1, <2>3 DEF OfBuffer, Spelt
    <2>6. (OfBuffer(g, pos))' /\ g[pos'] = exact'
      <3>1. (pos + 1) - 1 = pos
        BY <1>3
      <3> QED
        BY <1>1, <2>3, <2>4, <2>5, <3>1 DEF OfBuffer, Spelt
    <2> QED
      BY <1>1, <1>7, <1>9, <2>6 DEF Rounds
  <1> QED
    BY <1>7, <1>8, <1>9

(* The last byte decoded is the last of the value. *)
LEMMA RoundDecodeEnd == RoundInv /\ DecodeEnd => Rounds' /\ InWidth'
  <1> SUFFICES ASSUME RoundInv, DecodeEnd PROVE Rounds' /\ InWidth'
    OBVIOUS
  <1>1. /\ phase = "decode" /\ phase' = "decoded" /\ ~More(mem[pos])
        /\ result' = val /\ len' = pos
        /\ UNCHANGED <<mem, val, varint, pos, exact, given>>
    BY DEF DecodeEnd
  <1>2. VarintInv /\ Rounds /\ InWidth
    BY DEF RoundInv
  <1>3. pos \in 1 .. MaxLen /\ val = exact /\ MaxLen \in Nat /\ Len(varint) \in Nat
    BY <1>1, <1>2, Facts
  <1>4. InWidth'
    BY <1>1, <1>2 DEF InWidth, LeastOf, MostOf
  <1>5. CASE given # -1
    <2>1. PICK f : /\ OfBuffer(f, Len(varint)) /\ f[Len(varint)] = given
                   /\ pos <= Len(varint) /\ f[pos] = exact
      BY <1>1, <1>2, <1>5 DEF Rounds
    <2>2. ~(pos \in 1 .. Len(varint) - 1)
      BY <1>1, <2>1 DEF OfBuffer, Spelt
    <2>3. pos = Len(varint)
      BY <1>3, <2>1, <2>2
    <2> QED
      BY <1>1, <1>3, <1>4, <1>5, <2>1, <2>3 DEF Rounds
  <1>6. CASE given = -1
    <2>1. PICK f : OfBuffer(f, pos) /\ f[pos] = exact
      BY <1>1, <1>2, <1>6 DEF Rounds
    <2>2. (OfBuffer(f, len))' /\ f[len'] = val'
      BY <1>1, <1>3, <2>1 DEF OfBuffer, Spelt
    <2> QED
      BY <1>1, <1>4, <1>6, <2>2 DEF Rounds
  <1> QED
    BY <1>4, <1>5, <1>6

(* Decoding starts with the first byte of what was encoded. *)
LEMMA RoundDecodeAgain == RoundInv /\ DecodeAgain => Rounds' /\ InWidth'
  <1> SUFFICES ASSUME RoundInv, DecodeAgain PROVE Rounds' /\ InWidth'
    OBVIOUS
  <1>1. /\ phase = "encoded" /\ phase' = "decode" /\ pos' = 1 /\ exact' = Low(mem[1])
        /\ UNCHANGED <<mem, varint, result, len, given>>
    BY DEF DecodeAgain
  <1>2. VarintInv /\ Rounds
    BY DEF RoundInv
  <1>3. Low(mem[1]) \in 0 .. Base - 1 /\ Low(mem[1]) \in Nat
    <2>1. mem[1] \in Byte
      BY <1>2, Facts
    <2> QED
      BY <2>1, BytesAreDigits
  <1>4. InWidth'
    <2>1. LeastOf(1) = 0 /\ MostOf(1) = Base - 1
      BY Table DEF LeastOf
    <2> QED
      BY <1>1, <1>3, <2>1, VarintAssumption DEF InWidth, LeastOf, MostOf
  <1>5. CASE given # -1
    <2>1. Len(varint) > 0 /\ ~More(mem[Len(varint)]) /\ Len(varint) \in Nat
      BY <1>1, <1>2, <1>5, Facts DEF Rounds
    <2>2. PICK f : OfBuffer(f, Len(varint)) /\ f[Len(varint)] = given
      BY <1>1, <1>2, <1>5 DEF Rounds
    <2>3. (OfBuffer(f, Len(varint)))' /\ 1 <= Len(varint) /\ f[1] = exact'
      BY <1>1, <2>1, <2>2 DEF OfBuffer, Spelt
    <2> QED
      BY <1>1, <1>4, <1>5, <2>1, <2>2, <2>3 DEF Rounds
  <1>6. CASE given = -1
    <2>1. PICK f : Spelt(f, mem, 1, Low(mem[1])) /\ f[1] = Low(mem[1])
      BY <1>3, OneByte
    <2>2. (OfBuffer(f, pos))' /\ f[pos'] = exact'
      BY <1>1, <2>1 DEF OfBuffer, Spelt
    <2> QED
      BY <1>1, <1>4, <1>6, <2>2 DEF Rounds
  <1> QED
    BY <1>4, <1>5, <1>6

(* The digit of the value that was decoded is the last byte. *)
LEMMA RoundEncodeAgain == RoundInv /\ EncodeAgain => Rounds'
  <1> SUFFICES ASSUME RoundInv, EncodeAgain PROVE Rounds'
    OBVIOUS
  <1>1. /\ phase = "decoded" /\ given = -1 /\ phase' = "encode" /\ varint' = <<Low(val)>>
        /\ UNCHANGED <<mem, val, pos, exact, result, len, given>>
    BY DEF EncodeAgain
  <1>2. VarintInv /\ Rounds
    BY DEF RoundInv
  <1>3. /\ len \in 1 .. MaxLen /\ mem \in [Cells -> Byte] /\ mem[len] \in Byte /\ MaxLen \in Nat
    <2>1. len \in 1 .. MaxLen /\ MaxLen \in Nat
      BY <1>1, <1>2, Facts
    <2>2. len \in 1 .. MaxLen + 1
      BY <2>1
    <2> QED
      BY <1>2, <2>1, <2>2, Facts
  <1>4. ~More(mem[len])
    BY <1>1, <1>2 DEF Rounds
  <1>5. PICK f : OfBuffer(f, len) /\ f[len] = val
    BY <1>1, <1>2 DEF Rounds
  <1>6. Low(val) = mem[len]
    <2>1. Low(f[len]) = Low(mem[len])
      <3>1. len \in Nat /\ len \in 1 .. len
        BY <1>3
      <3> QED
        BY <1>3, <1>5, <3>1, LastDigit
    <2>2. mem[len] = Low(mem[len])
      BY <1>3, <1>4, BytesAreDigits
    <2> QED
      BY <1>5, <2>1, <2>2
  <1>7. /\ Len(varint') = 1 /\ varint'[1] = mem[len]
        /\ len - 1 + 1 = len
    BY <1>1, <1>3, <1>6
  <1>8. (OfBuffer(f, len))' /\ f[len' - Len(varint') + 1] = val'
    BY <1>1, <1>5, <1>7 DEF OfBuffer, Spelt
  <1>9. \A i \in 1 .. 1 : i = 1
    OBVIOUS
  <1> QED
    BY <1>1, <1>3, <1>4, <1>7, <1>8, <1>9 DEF Rounds

(* All steps keep the second invariant too. *)
LEMMA RoundStep == RoundInv /\ [VarintNext]_varintvars => RoundInv'
  <1> SUFFICES ASSUME RoundInv, [VarintNext]_varintvars PROVE RoundInv'
    OBVIOUS
  <1>1. VarintInv'
    BY VarintStepInv DEF RoundInv
  <1>2. CASE EncodeByte \/ EncodeEnd \/ EncodeAgain
    <2>1. InWidth'
      BY <1>2 DEF EncodeByte, EncodeEnd, EncodeAgain, InWidth
    <2> QED
      BY <1>1, <1>2, <2>1, RoundEncodeByte, RoundEncodeEnd, RoundEncodeAgain DEF RoundInv
  <1>3. CASE DecodeByte \/ DecodeEnd \/ DecodeAgain
    BY <1>1, <1>3, RoundDecodeByte, RoundDecodeEnd, RoundDecodeAgain DEF RoundInv
  <1>4. CASE DecodeOverflow
    BY <1>1, <1>4 DEF DecodeOverflow, RoundInv, Rounds, InWidth
  <1>5. CASE UNCHANGED varintvars
    <2>1. UNCHANGED <<phase, mem, val, varint, pos, exact, result, len, given>>
      BY <1>5 DEF varintvars
    <2>2. InWidth'
      BY <2>1 DEF RoundInv, InWidth, LeastOf, MostOf
    <2>3. \A f, n : (OfBuffer(f, n) => OfBuffer(f, n)') /\ (OfValue(f) => OfValue(f)')
      BY <2>1 DEF OfBuffer, OfValue, Spelt
    <2>4. Rounds'
      BY <2>1, <2>3 DEF RoundInv, Rounds
    <2> QED
      BY <1>1, <2>2, <2>4 DEF RoundInv
  <1> QED
    BY <1>2, <1>3, <1>4, <1>5 DEF VarintNext

(* Encoding and decoding are each other's inverse, and a value has one     *)
(* encoding, of the length that the table of varint.h gives it.            *)
THEOREM VarintsRoundTrip == VarintSpec => []RoundTrips
  <1>1. RoundInv => RoundTrips
    <2> SUFFICES ASSUME RoundInv PROVE RoundTrips
      OBVIOUS
    <2>1. VarintInv /\ Rounds /\ InWidth
      BY DEF RoundInv
    <2>2. ASSUME phase = "decoded", given # -1
          PROVE  /\ result = given /\ len = Len(varint)
                 /\ len < MaxLen => given <= MaxVal[len]
                 /\ len > 1 => given > MaxVal[len - 1]
      <3>1. /\ result = given /\ len = Len(varint) /\ result = exact /\ len = pos /\ exact \in Nat
            /\ len \in 1 .. MaxLen /\ MaxLen \in Nat
        BY <2>1, <2>2, Facts DEF Rounds
      <3>2. LeastOf(len) <= given /\ given <= MostOf(len)
        BY <2>1, <2>2, <3>1 DEF InWidth
      <3>3. \A n \in 1 .. MaxLen - 1 : MaxVal[n] \in Nat
        BY WidthAssumption
      <3>4. len > 1 => MaxVal[len - 1] + 1 <= given /\ MaxVal[len - 1] \in Nat
        <4>1. len > 1 => len - 1 \in 1 .. MaxLen - 1
          BY <3>1
        <4> QED
          BY <3>1, <3>2, <3>3, <4>1 DEF LeastOf
      <3> QED
        BY <3>1, <3>2, <3>4 DEF MostOf
    <2>3. phase \in {"encode", "encoded"} /\ given = -1 =>
            /\ phase = "encode" =>
                 /\ Len(varint) <= len
                 /\ \A i \in 1 .. Len(varint) : varint[i] = mem[len - Len(varint) + i]
            /\ phase = "encoded" => Len(varint) = len
      BY <2>1 DEF Rounds
    <2> QED
      BY <2>2, <2>3 DEF RoundTrips
  <1> QED
    BY RoundInit, RoundStep, <1>1, PTL DEF VarintSpec
----------------------------------------------------------------------------
(* Streams: the invariant says what each byte in transit is.               *)
(*                                                                         *)
(* Where a frame begins in all that the sender writes. *)
FrameAt(f) == Len(DataBefore[f]) + (f - 1) * HdrSize

(* The sizes that the header of a frame may have. *)
Declared(f) ==
    {sizes[f]} \cup (IF f = Len(sizes) THEN {UNCOMPRESS_SIZE_UNKNOWN} ELSE {})

(* What the byte number p is, and those that follow it. *)
Belongs(b, p) ==
    \A f \in 1 .. Len(sizes) :
       /\ \A j \in 1 .. HdrSize :
             p = FrameAt(f) + j => \E size \in Declared(f) : b = HdrByte(size, j)
       /\ \A j \in 1 .. sizes[f] : p = FrameAt(f) + HdrSize + j => b = DataByte(f, j)

Segment(s, p) == \A k \in 1 .. Len(s) : Belongs(s[k], p + k)

Wire == {"data", "header"} \X Nat \X Nat

StreamTypes ==
    /\ StreamsTypeOK
    /\ sizes \in Seq(FrameSizes) /\ Len(sizes) >= 1
    /\ place \in Nat
    /\ {cin, cout, file, din, dout, received} \subseteq Seq(Wire)

(* An encoder of the frame f, when p bytes of the frame have been read and *)
(* the last of them are in its buffer.                                     *)
Encodes(ctx, in, f, p) ==
    /\ p <= sizes[f] /\ Len(in) <= p
    /\ \A k \in 1 .. Len(in) : in[k] = DataByte(f, p - Len(in) + k)
    /\ ctx.srcsize \in Declared(f)
    /\ ctx.bytes_in = p - Len(in)
    /\ \/ ctx.bytes_out = 0 /\ Len(in) = p
       \/ ctx.bytes_out = HdrSize + p - Len(in)

Encoding ==
    IF frame = 0 THEN place = 0 /\ ~open /\ cin = << >>
    ELSE /\ Encodes(cctx, cin, frame, place)
         /\ ~open => place = sizes[frame] /\ Accepted(cctx, cin)

(* A decoder in the frame f, *)
Decodes(ctx, f) ==
    /\ f \in 1 .. Len(sizes)
    /\ ctx.bytes_in = HdrSize + ctx.bytes_out
    /\ ctx.bytes_out <= sizes[f]
    /\ ctx.srcsize \in Declared(f)

(* and one that is in it or before it. *)
Reaches(f) ==
    /\ decompressed = DataBefore[f] \o Data(f, 0, dctx.bytes_out)
    /\ \/ dctx = NewCtx
       \/ Decodes(dctx, f) /\ (dctx.bytes_out < sizes[f] \/ dctx.srcsize = UNCOMPRESS_SIZE_UNKNOWN)

(* What is on the way from the encoder to the decoder, and what either has *)
(* written or read.                                                        *)
transit == din \o (file \o cout)

written == IF frame = 0 THEN 0 ELSE FrameAt(frame) + cctx.bytes_out

Decoding ==
    \E f \in 1 .. Len(sizes) + 1 :
       /\ Reaches(f)
       /\ Segment(transit, FrameAt(f) + dctx.bytes_in)
       /\ FrameAt(f) + dctx.bytes_in + Len(transit) = written

StreamsInv == StreamTypes /\ Encoding /\ Decoding /\ NeverHeaderError
----------------------------------------------------------------------------
(* The constants, one by one *)
LEMMA StreamConstants ==
    /\ HdrSize \in Nat /\ HdrSize >= 2 /\ SizeMax \in Nat /\ SizeMax > 6 + HdrSize
    /\ RecInSize \in Nat /\ RecInSize < SizeMax - 5
    /\ \A s \in FrameSizes : s \in Nat /\ s < SizeMax - 2 /\ HdrSize + s <= SizeMax
    /\ CinSize \in Nat /\ CoutSize \in Nat /\ DinSize \in Nat /\ DoutSize \in Nat
    /\ Frames \in Nat
  BY CodecAssumption, StreamsAssumption DEF UNCOMPRESS_SIZE_MAX

(* A byte is never of two kinds, *)
LEMMA KindsDiffer ==
    ASSUME NEW f, NEW size, NEW j, NEW k
    PROVE  /\ DataByte(f, j) # HdrByte(size, k)
           /\ HdrByte(size, k)[1] = "header" /\ HdrByte(size, k)[2] = size
           /\ HdrByte(size, k)[3] = k
  BY DEF DataByte, HdrByte

(* and is one of those on the wire. *)
LEMMA OnTheWire ==
    ASSUME NEW f \in Nat, NEW j \in Nat
    PROVE  DataByte(f, j) \in Wire /\ HdrByte(f, j) \in Wire
  BY DEF DataByte, HdrByte, Wire

(* Pieces of a frame *)
LEMMA DataType ==
    ASSUME NEW f \in Nat, NEW a \in Nat, NEW b \in Nat, a <= b
    PROVE  /\ Data(f, a, b) \in Seq(Wire) /\ Len(Data(f, a, b)) = b - a
           /\ \A k \in 1 .. b - a : Data(f, a, b)[k] = DataByte(f, a + k)
  <1>1. b - a \in Nat /\ \A k \in 1 .. b - a : a + k \in Nat
    OBVIOUS
  <1>2. \A k \in 1 .. b - a : DataByte(f, a + k) \in Wire
    BY <1>1, OnTheWire
  <1>3. Data(f, a, b) \in [1 .. b - a -> Wire]
    BY <1>2 DEF Data
  <1>4. Data(f, a, b) \in Seq(Wire) /\ Len(Data(f, a, b)) = b - a
    BY <1>1, <1>3
  <1> QED
    BY <1>4 DEF Data

(* Two pieces that meet are one. *)
LEMMA DataConcat ==
    ASSUME NEW f \in Nat, NEW a \in Nat, NEW b \in Nat, NEW c \in Nat, a <= b, b <= c
    PROVE  Data(f, a, b) \o Data(f, b, c) = Data(f, a, c)
  <1> DEFINE s == Data(f, a, b)
             t == Data(f, b, c)
             u == Data(f, a, c)
  <1>1. /\ s \in Seq(Wire) /\ t \in Seq(Wire) /\ u \in Seq(Wire)
        /\ Len(s) = b - a /\ Len(t) = c - b /\ Len(u) = c - a
        /\ \A k \in 1 .. b - a : s[k] = DataByte(f, a + k)
        /\ \A k \in 1 .. c - b : t[k] = DataByte(f, b + k)
        /\ \A k \in 1 .. c - a : u[k] = DataByte(f, a + k)
    <2>1. a <= c
      OBVIOUS
    <2> QED
      BY <2>1, DataType
  <1> HIDE DEF s, t, u
  <1>2. /\ s \o t \in Seq(Wire) /\ Len(s \o t) = Len(s) + Len(t)
        /\ \A k \in 1 .. Len(s) + Len(t) :
              (s \o t)[k] = IF k <= Len(s) THEN s[k] ELSE t[k - Len(s)]
    BY <1>1, ConcatProperties
  <1>3. ASSUME NEW k \in 1 .. Len(s \o t) PROVE (s \o t)[k] = u[k]
    <2>1. k \in 1 .. c - a /\ u[k] = DataByte(f, a + k) /\ Len(s) = b - a
      BY <1>1, <1>2
    <2>2. CASE k <= b - a
      BY <1>1, <1>2, <2>1, <2>2
    <2>3. CASE ~(k <= b - a)
      <3>1. k - (b - a) \in 1 .. c - b /\ b + (k - (b - a)) = a + k
        BY <2>1, <2>3
      <3>2. (s \o t)[k] = t[k - (b - a)]
        BY <1>1, <1>2, <2>3
      <3> QED
        BY <1>1, <2>1, <3>1, <3>2
    <2> QED
      BY <2>2, <2>3
  <1>4. Len(s \o t) = Len(u)
    BY <1>1, <1>2
  <1>5. s \o t = u
    BY <1>1, <1>2, <1>3, <1>4, SeqEqual
  <1> QED
    BY <1>5 DEF s, t, u

(* The first bytes of a buffer, and those after them *)
LEMMA TakeAndDrop ==
    ASSUME NEW s \in Seq(Wire), NEW n \in 0 .. Len(s)
    PROVE  /\ Take(n, s) \in Seq(Wire) /\ Len(Take(n, s)) = n
           /\ \A k \in 1 .. n : Take(n, s)[k] = s[k]
           /\ Drop(n, s) \in Seq(Wire) /\ Len(Drop(n, s)) = Len(s) - n
           /\ \A k \in 1 .. Len(s) - n : Drop(n, s)[k] = s[n + k]
           /\ Take(n, s) \o Drop(n, s) = s
  <1>1. Len(s) \in Nat /\ \A k \in 1 .. Len(s) : s[k] \in Wire
    BY ElementOfSeq, LenProperties
  <1>2. /\ Take(n, s) \in Seq(Wire) /\ Len(Take(n, s)) = n
        /\ \A k \in 1 .. n : Take(n, s)[k] = s[k]
    <2>1. \A k \in 1 .. n : s[k] \in Wire
      BY <1>1
    <2>2. /\ SubSeq(s, 1, n) \in Seq(Wire)
          /\ Len(SubSeq(s, 1, n)) = IF 1 <= n THEN n - 1 + 1 ELSE 0
          /\ \A k \in 1 .. n - 1 + 1 : SubSeq(s, 1, n)[k] = s[1 + k - 1]
      BY <1>1, <2>1, SubSeqProperties
    <2> QED
      BY <1>1, <2>2 DEF Take
  <1>3. /\ Drop(n, s) \in Seq(Wire) /\ Len(Drop(n, s)) = Len(s) - n
        /\ \A k \in 1 .. Len(s) - n : Drop(n, s)[k] = s[n + k]
    <2>1. \A k \in n + 1 .. Len(s) : s[k] \in Wire
      BY <1>1
    <2>2. /\ SubSeq(s, n + 1, Len(s)) \in Seq(Wire)
          /\ Len(SubSeq(s, n + 1, Len(s))) = IF n + 1 <= Len(s) THEN Len(s) - (n + 1) + 1 ELSE 0
          /\ \A k \in 1 .. Len(s) - (n + 1) + 1 :
                SubSeq(s, n + 1, Len(s))[k] = s[(n + 1) + k - 1]
      BY <1>1, <2>1, SubSeqProperties
    <2> QED
      BY <1>1, <2>2 DEF Drop
  <1>4. Take(n, s) \o Drop(n, s) = s
    <2> DEFINE t == Take(n, s)
               d == Drop(n, s)
    <2>0. t \in Seq(Wire) /\ d \in Seq(Wire) /\ Len(t) = n /\ Len(d) = Len(s) - n
      BY <1>2, <1>3
    <2>1. /\ t \o d \in Seq(Wire) /\ Len(t \o d) = Len(t) + Len(d)
          /\ \A k \in 1 .. Len(t) + Len(d) :
                (t \o d)[k] = IF k <= Len(t) THEN t[k] ELSE d[k - Len(t)]
      <3> HIDE DEF t, d
      <3> QED
        BY <2>0, ConcatProperties
    <2>2. ASSUME NEW k \in 1 .. Len(t \o d) PROVE (t \o d)[k] = s[k]
      <3>1. k \in 1 .. Len(s) /\ (t \o d)[k] = IF k <= n THEN t[k] ELSE d[k - n]
        <4> HIDE DEF t, d
        <4> QED
          BY <1>1, <2>0, <2>1
      <3>2. CASE k <= n
        BY <1>2, <3>1, <3>2
      <3>3. CASE ~(k <= n)
        <4>1. k - n \in 1 .. Len(s) - n /\ n + (k - n) = k
          BY <1>1, <3>1, <3>3
        <4> QED
          BY <1>3, <3>1, <3>3, <4>1
      <3> QED
        BY <3>2, <3>3
    <2>3. Len(t \o d) = Len(s)
      <3> HIDE DEF t, d
      <3> QED
        BY <1>1, <2>0, <2>1
    <2> HIDE DEF t, d
    <2>4. t \o d = s
      BY <2>1, <2>2, <2>3, SeqEqual
    <2> QED
      BY <2>4 DEF t, d
  <1> QED
    BY <1>2, <1>3, <1>4

(* What is dropped from the first of two sequences is dropped from both. *)
LEMMA DropConcat ==
    ASSUME NEW s \in Seq(Wire), NEW t \in Seq(Wire), NEW n \in 0 .. Len(s)
    PROVE  Drop(n, s \o t) = Drop(n, s) \o t
  <1> DEFINE u == s \o t
             d == Drop(n, s)
  <1>0. Len(s) \in Nat /\ Len(t) \in Nat
    BY LenProperties
  <1>1. /\ u \in Seq(Wire) /\ Len(u) = Len(s) + Len(t)
        /\ \A k \in 1 .. Len(s) + Len(t) : u[k] = IF k <= Len(s) THEN s[k] ELSE t[k - Len(s)]
    BY ConcatProperties
  <1>2. d \in Seq(Wire) /\ Len(d) = Len(s) - n /\ \A k \in 1 .. Len(s) - n : d[k] = s[n + k]
    BY TakeAndDrop
  <1> HIDE DEF u, d
  <1>3. n \in 0 .. Len(u)
    BY <1>0, <1>1
  <1>4. /\ Drop(n, u) \in Seq(Wire) /\ Len(Drop(n, u)) = Len(u) - n
        /\ \A k \in 1 .. Len(u) - n : Drop(n, u)[k] = u[n + k]
    BY <1>1, <1>3, TakeAndDrop
  <1>5. /\ d \o t \in Seq(Wire) /\ Len(d \o t) = Len(d) + Len(t)
        /\ \A k \in 1 .. Len(d) + Len(t) : (d \o t)[k] = IF k <= Len(d) THEN d[k] ELSE t[k - Len(d)]
    BY <1>2, ConcatProperties
  <1>6. ASSUME NEW k \in 1 .. Len(Drop(n, u)) PROVE Drop(n, u)[k] = (d \o t)[k]
    <2>1. k \in 1 .. Len(u) - n /\ Drop(n, u)[k] = u[n + k] /\ n + k \in 1 .. Len(s) + Len(t)
      BY <1>0, <1>1, <1>4
    <2>2. CASE k <= Len(s) - n
      <3>1. k \in 1 .. Len(s) - n /\ n + k <= Len(s)
        BY <1>0, <2>1, <2>2
      <3>2. (d \o t)[k] = d[k]
        BY <1>0, <1>1, <1>2, <1>5, <2>1, <2>2
      <3> QED
        BY <1>1, <1>2, <2>1, <3>1, <3>2
    <2>3. CASE ~(k <= Len(s) - n)
      <3>1. ~(n + k <= Len(s)) /\ (n + k) - Len(s) = k - (Len(s) - n)
        BY <1>0, <2>1, <2>3
      <3>2. (d \o t)[k] = t[k - (Len(s) - n)]
        BY <1>0, <1>1, <1>2, <1>5, <2>1, <2>3
      <3> QED
        BY <1>1, <2>1, <3>1, <3>2
    <2> QED
      BY <2>2, <2>3
  <1>7. Len(Drop(n, u)) = Len(d \o t)
    BY <1>0, <1>1, <1>2, <1>4, <1>5
  <1>8. Drop(n, u) = d \o t
    BY <1>4, <1>5, <1>6, <1>7, SeqEqual
  <1> QED
    BY <1>8 DEF u, d

(* What is a segment of all that is written stays one, without its first   *)
(* bytes and with those that follow it.                                    *)
LEMMA SegmentDrop ==
    ASSUME NEW s \in Seq(Wire), NEW p \in Nat, Segment(s, p), NEW n \in 0 .. Len(s)
    PROVE  Segment(Drop(n, s), p + n)
  <1>1. Len(s) \in Nat
    BY LenProperties
  <1>2. ASSUME NEW k \in 1 .. Len(Drop(n, s)) PROVE Belongs(Drop(n, s)[k], (p + n) + k)
    <2>1. k \in 1 .. Len(s) - n /\ Drop(n, s)[k] = s[n + k]
      BY TakeAndDrop
    <2>2. n + k \in 1 .. Len(s) /\ p + (n + k) = (p + n) + k
      BY <1>1, <2>1
    <2>3. Belongs(s[n + k], p + (n + k))
      BY <2>2 DEF Segment
    <2> QED
      BY <2>1, <2>2, <2>3
  <1> QED
    BY <1>2 DEF Segment

(* Two segments that meet are one. *)
LEMMA SegmentConcat ==
    ASSUME NEW s \in Seq(Wire), NEW t \in Seq(Wire), NEW p \in Nat,
           Segment(s, p), Segment(t, p + Len(s))
    PROVE  Segment(s \o t, p)
  <1>0. Len(s) \in Nat /\ Len(t) \in Nat
    BY LenProperties
  <1>1. /\ Len(s \o t) = Len(s) + Len(t)
        /\ \A k \in 1 .. Len(s) + Len(t) :
              (s \o t)[k] = IF k <= Len(s) THEN s[k] ELSE t[k - Len(s)]
    BY ConcatProperties
  <1>2. ASSUME NEW k \in 1 .. Len(s \o t) PROVE Belongs((s \o t)[k], p + k)
    <2>1. CASE k <= Len(s)
      <3>1. k \in 1 .. Len(s) /\ (s \o t)[k] = s[k]
        BY <1>0, <1>1, <2>1
      <3> QED
        BY <3>1 DEF Segment
    <2>2. CASE ~(k <= Len(s))
      <3> DEFINE j == k - Len(s)
      <3>1. j \in 1 .. Len(t) /\ (s \o t)[k] = t[j] /\ (p + Len(s)) + j = p + k
        BY <1>0, <1>1, <2>2
      <3> HIDE DEF j
      <3>2. Belongs(t[j], (p + Len(s)) + j)
        BY <3>1 DEF Segment
      <3> QED
        BY <3>1, <3>2
    <2> QED
      BY <2>1, <2>2
  <1> QED
    BY <1>2 DEF Segment

(* The first bytes of a frame *)
LEMMA FirstData ==
    ASSUME NEW f \in Nat, NEW n \in Nat
    PROVE  Data(f, 0, n) \in Seq(Wire) /\ Len(Data(f, 0, n)) = n
  <1>1. 0 \in Nat /\ 0 <= n /\ n - 0 = n
    OBVIOUS
  <1> QED
    BY <1>1, DataType

(* Concatenation as an operator of which only what is cited is known:      *)
(* the provers lose their way when they expand \o.                         *)
Cat(s, t) == s \o t

(* It joins sequences of bytes, in whatever order it is applied. *)
LEMMA CatFacts ==
    /\ \A s \in Seq(Wire), t \in Seq(Wire) : Cat(s, t) \in Seq(Wire)
    /\ \A s \in Seq(Wire), t \in Seq(Wire), u \in Seq(Wire) :
          Cat(Cat(s, t), u) = Cat(s, Cat(t, u))
  <1>1. ASSUME NEW s \in Seq(Wire), NEW t \in Seq(Wire) PROVE Cat(s, t) \in Seq(Wire)
    BY ConcatProperties DEF Cat
  <1>2. ASSUME NEW s \in Seq(Wire), NEW t \in Seq(Wire), NEW u \in Seq(Wire)
        PROVE  Cat(Cat(s, t), u) = Cat(s, Cat(t, u))
    BY ConcatAssociative DEF Cat
  <1> QED
    BY <1>1, <1>2

(* The last of four sequences can be appended last. *)
LEMMA ConcatFour ==
    ASSUME NEW s \in Seq(Wire), NEW t \in Seq(Wire), NEW u \in Seq(Wire), NEW v \in Seq(Wire)
    PROVE  s \o (t \o (u \o v)) = (s \o (t \o u)) \o v
  <1>1. Cat(t, Cat(u, v)) = Cat(Cat(t, u), v) /\ Cat(t, u) \in Seq(Wire)
    BY CatFacts
  <1>2. Cat(s, Cat(Cat(t, u), v)) = Cat(Cat(s, Cat(t, u)), v)
    BY <1>1, CatFacts
  <1>3. Cat(s, Cat(t, Cat(u, v))) = Cat(Cat(s, Cat(t, u)), v)
    BY <1>1, <1>2
  <1> QED
    BY <1>3 DEF Cat

----------------------------------------------------------------------------
(* The frames of the sender *)
HasFrames == sizes \in Seq(FrameSizes) /\ Len(sizes) >= 1

(* There is a frame, and each has a size that its header can tell. *)
LEMMA FrameSize ==
    ASSUME HasFrames
    PROVE  /\ Len(sizes) \in Nat /\ Len(sizes) >= 1
           /\ \A f \in 1 .. Len(sizes) :
                 /\ sizes[f] \in FrameSizes /\ sizes[f] \in Nat
                 /\ sizes[f] < SizeMax - 2 /\ HdrSize + sizes[f] <= SizeMax
  <1>1. Len(sizes) \in Nat /\ \A f \in 1 .. Len(sizes) : sizes[f] \in FrameSizes
    BY ElementOfSeq, LenProperties DEF HasFrames
  <1> QED
    BY <1>1, StreamConstants DEF HasFrames

(* A header has the size of its frame, or none if the frame is the last. *)
LEMMA DeclaredSize ==
    ASSUME HasFrames, NEW f \in 1 .. Len(sizes), NEW size \in Declared(f)
    PROVE  /\ size \in Nat /\ size <= SizeMax /\ size # UNCOMPRESS_SIZE_ERROR
           /\ size = sizes[f] \/ (size = UNCOMPRESS_SIZE_UNKNOWN /\ f = Len(sizes))
           /\ sizes[f] # UNCOMPRESS_SIZE_UNKNOWN
  BY FrameSize, StreamConstants DEF Declared, UNCOMPRESS_SIZE_UNKNOWN, UNCOMPRESS_SIZE_ERROR

(* The data before a frame ends with that of the frame before it. *)
LEMMA DataRecurs ==
    ASSUME HasFrames
    PROVE  /\ DataBefore[0] = << >> /\ DataBefore[1] = << >>
           /\ \A f \in 0 .. Len(sizes) + 1 : DataBefore[f] \in Seq(Wire)
           /\ \A f \in 1 .. Len(sizes) :
                 DataBefore[f + 1] = DataBefore[f] \o Data(f, 0, sizes[f])
  <1> DEFINE n == Len(sizes) + 1
             R == Seq(Wire)
             Next1(s, f) == IF f = 0 THEN << >> ELSE s \o Data(f, 0, sizes[f])
             step == [x \in R \X (0 .. n - 1) |-> Next1(x[1], x[2])]
             Body(g) == [f \in 0 .. n |-> IF f <= 1 THEN << >>
                                          ELSE g[f - 1] \o Data(f - 1, 0, sizes[f - 1])]
  <1>1. n \in Nat /\ n >= 2 /\ n - 1 = Len(sizes) /\ << >> \in R
    BY FrameSize
  <1>2. ASSUME NEW s \in R, NEW f \in 0 .. n - 1 PROVE Next1(s, f) \in R
    <2>1. CASE f = 0
      BY <1>1, <2>1
    <2>2. CASE f # 0
      <3>1. f \in 1 .. Len(sizes) /\ f \in Nat
        BY <1>1, <2>2
      <3>2. Data(f, 0, sizes[f]) \in R
        BY <3>1, FrameSize, FirstData
      <3>3. s \o Data(f, 0, sizes[f]) \in R
        BY <3>2, ConcatProperties
      <3> QED
        BY <2>2, <3>3
    <2> QED
      BY <2>1, <2>2
  <1>3. step \in [R \X (0 .. n - 1) -> R]
    <2> HIDE DEF Next1, n, R
    <2> QED
      BY <1>2
  <1>4. PICK g : Accumulated(g, n, R, << >>, step)
    <2> HIDE DEF step, n, R
    <2> QED
      BY <1>1, <1>3, Accumulates
  <1>5. ASSUME NEW f \in 0 .. n
        PROVE  g[f] = IF f <= 1 THEN << >> ELSE g[f - 1] \o Data(f - 1, 0, sizes[f - 1])
    <2> HIDE DEF n, R
    <2>1. g \in [0 .. n -> R] /\ g[f] = IF f = 0 THEN << >> ELSE step[<<g[f - 1], f - 1>>]
      <3> HIDE DEF step
      <3> QED
        BY <1>4 DEF Accumulated
    <2>2. CASE f = 0
      BY <2>1, <2>2
    <2>3. CASE f # 0
      <3>1. f - 1 \in 0 .. n - 1 /\ f - 1 \in 0 .. n /\ (f - 1 = 0 <=> f <= 1)
        BY <1>1, <2>3
      <3>2. <<g[f - 1], f - 1>> \in R \X (0 .. n - 1)
        BY <2>1, <3>1
      <3>3. step[<<g[f - 1], f - 1>>] = Next1(g[f - 1], f - 1)
        <4> HIDE DEF Next1
        <4> QED
          BY <3>2
      <3> HIDE DEF step
      <3>4. g[f] = Next1(g[f - 1], f - 1)
        BY <2>1, <2>3, <3>3
      <3> QED
        BY <3>1, <3>4
    <2> QED
      BY <2>2, <2>3
  <1>6. g = Body(g)
    <2> HIDE DEF n, R, step
    <2>1. g \in [0 .. n -> R]
      BY <1>4 DEF Accumulated
    <2> QED
      BY <1>5, <2>1
  <1>7. DataBefore = Body(DataBefore)
    <2> HIDE DEF step, R
    <2> QED
      BY <1>6 DEF DataBefore
  <1>8. \A f \in 0 .. n : DataBefore[f] = IF f <= 1 THEN << >>
                             ELSE DataBefore[f - 1] \o Data(f - 1, 0, sizes[f - 1])
    <2>1. \A f \in 0 .. n : Body(DataBefore)[f] = IF f <= 1 THEN << >>
                             ELSE DataBefore[f - 1] \o Data(f - 1, 0, sizes[f - 1])
      <3> HIDE DEF n
      <3> QED
        OBVIOUS
    <2> HIDE DEF Body
    <2> QED
      BY <1>7, <2>1
  <1> HIDE DEF step, Next1, Body, n
  <1>9. DataBefore[0] = << >> /\ DataBefore[1] = << >>
    <2>1. 0 \in 0 .. n /\ 1 \in 0 .. n
      BY <1>1
    <2> QED
      BY <1>8, <2>1
  <1>10. \A f \in 1 .. Len(sizes) : DataBefore[f + 1] = DataBefore[f] \o Data(f, 0, sizes[f])
    <2> SUFFICES ASSUME NEW f \in 1 .. Len(sizes)
                 PROVE  DataBefore[f + 1] = DataBefore[f] \o Data(f, 0, sizes[f])
      OBVIOUS
    <2>1. f + 1 \in 0 .. n /\ ~(f + 1 <= 1) /\ (f + 1) - 1 = f
      BY <1>1
    <2>2. DataBefore[f + 1] = DataBefore[(f + 1) - 1] \o Data((f + 1) - 1, 0, sizes[(f + 1) - 1])
      BY <1>8, <2>1
    <2> QED
      BY <2>1, <2>2
  <1> DEFINE P == {f \in Nat : f <= n => DataBefore[f] \in R}
  <1>11. 0 \in P
    BY <1>1, <1>9
  <1>12. ASSUME NEW f \in P PROVE f + 1 \in P
    <2>1. f \in Nat /\ f + 1 \in Nat
      OBVIOUS
    <2>2. CASE f = 0
      BY <1>1, <1>9, <2>2
    <2>3. CASE f # 0 /\ f + 1 <= n
      <3>1. f \in 1 .. Len(sizes) /\ DataBefore[f] \in R
        BY <1>1, <2>1, <2>3
      <3>2. Data(f, 0, sizes[f]) \in R
        BY <2>1, <3>1, FrameSize, FirstData
      <3>3. DataBefore[f] \o Data(f, 0, sizes[f]) \in R
        BY <3>1, <3>2, ConcatProperties
      <3>4. DataBefore[f + 1] \in R
        BY <1>10, <3>1, <3>3
      <3> QED
        BY <2>1, <3>4
    <2> QED
      BY <2>1, <2>2, <2>3
  <1>13. P = Nat
    <2>1. P \in SUBSET Nat
      OBVIOUS
    <2> HIDE DEF P
    <2> QED
      BY <1>11, <1>12, <2>1, Induction
  <1>14. \A f \in 0 .. n : DataBefore[f] \in R
    <2> SUFFICES ASSUME NEW f \in 0 .. n PROVE DataBefore[f] \in R
      OBVIOUS
    <2>1. f \in Nat /\ f <= n
      BY <1>1
    <2>2. f \in P
      BY <1>13, <2>1
    <2> QED
      BY <2>1, <2>2
  <1> QED
    BY <1>9, <1>10, <1>14 DEF n

(* Where frames begin: each where the one before it ends. *)
LEMMA FramesFollow ==
    ASSUME HasFrames
    PROVE  /\ FrameAt(1) = 0
           /\ \A f \in 1 .. Len(sizes) + 1 : FrameAt(f) \in Nat
           /\ \A f \in 1 .. Len(sizes) : FrameAt(f + 1) = FrameAt(f) + HdrSize + sizes[f]
  <1>1. HdrSize \in Nat /\ Len(sizes) \in Nat
    BY StreamConstants, FrameSize
  <1>2. FrameAt(1) = 0
    <2>1. Len(DataBefore[1]) = 0
      BY DataRecurs, EmptySeq
    <2> QED
      BY <1>1, <2>1 DEF FrameAt
  <1>3. ASSUME NEW f \in 1 .. Len(sizes) + 1 PROVE FrameAt(f) \in Nat
    <2>1. DataBefore[f] \in Seq(Wire)
      <3>1. f \in 0 .. Len(sizes) + 1
        BY <1>1
      <3> QED
        BY <3>1, DataRecurs
    <2>2. Len(DataBefore[f]) \in Nat /\ f - 1 \in Nat
      BY <1>1, <2>1, LenProperties
    <2>3. (f - 1) * HdrSize \in Nat
      BY <1>1, <2>2
    <2> QED
      BY <2>2, <2>3 DEF FrameAt
  <1>4. ASSUME NEW f \in 1 .. Len(sizes)
        PROVE  FrameAt(f + 1) = FrameAt(f) + HdrSize + sizes[f]
    <2>1. f \in Nat /\ f \in 0 .. Len(sizes) + 1 /\ sizes[f] \in Nat
      BY <1>1, FrameSize
    <2>2. DataBefore[f] \in Seq(Wire) /\ Data(f, 0, sizes[f]) \in Seq(Wire)
          /\ Len(Data(f, 0, sizes[f])) = sizes[f]
      BY <2>1, DataRecurs, FirstData
    <2>3. Len(DataBefore[f + 1]) = Len(DataBefore[f]) + sizes[f] /\ Len(DataBefore[f]) \in Nat
      <3>1. Len(DataBefore[f] \o Data(f, 0, sizes[f]))
              = Len(DataBefore[f]) + Len(Data(f, 0, sizes[f])) /\ Len(DataBefore[f]) \in Nat
        BY <2>2, ConcatProperties, LenProperties
      <3> QED
        BY <2>1, <2>2, <3>1, DataRecurs
    <2>4. ((f + 1) - 1) * HdrSize = (f - 1) * HdrSize + HdrSize /\ (f - 1) * HdrSize \in Int
      <3>1. (f + 1) - 1 = (f - 1) + 1 /\ f - 1 \in Int
        BY <2>1
      <3>2. \A k \in Int : (k + 1) * HdrSize = k * HdrSize + HdrSize /\ k * HdrSize \in Int
        BY <1>1
      <3> QED
        BY <3>1, <3>2
    <2> DEFINE a == Len(DataBefore[f])
               b == Len(DataBefore[f + 1])
               c == (f - 1) * HdrSize
               d == ((f + 1) - 1) * HdrSize
    <2>5. FrameAt(f) = a + c /\ FrameAt(f + 1) = b + d
      BY DEF FrameAt
    <2>6. b = a + sizes[f] /\ a \in Nat /\ d = c + HdrSize /\ c \in Int
      BY <2>3, <2>4
    <2> HIDE DEF a, b, c, d
    <2> QED
      BY <1>1, <2>1, <2>5, <2>6
  <1> QED
    BY <1>2, <1>3, <1>4

(* No two frames overlap. *)
LEMMA FramesApart ==
    ASSUME HasFrames, NEW f \in 1 .. Len(sizes), NEW g \in 1 .. Len(sizes) + 1, f < g
    PROVE  FrameAt(f) + HdrSize + sizes[f] <= FrameAt(g)
  <1> DEFINE P == {k \in Nat : f + 1 + k <= Len(sizes) + 1 =>
                                 FrameAt(f + 1) <= FrameAt(f + 1 + k)}
  <1>1. Len(sizes) \in Nat /\ HdrSize \in Nat /\ \A k \in 1 .. Len(sizes) : sizes[k] \in Nat
    BY FrameSize, StreamConstants
  <1>2. 0 \in P
    <2>1. f + 1 + 0 = f + 1 /\ f + 1 \in 1 .. Len(sizes) + 1
      BY <1>1
    <2>2. FrameAt(f + 1) \in Nat
      BY <2>1, FramesFollow
    <2> QED
      BY <2>1, <2>2
  <1>3. ASSUME NEW k \in P PROVE k + 1 \in P
    <2>1. CASE f + 1 + (k + 1) <= Len(sizes) + 1
      <3> DEFINE j == f + 1 + k
      <3>1. j \in 1 .. Len(sizes) /\ f + 1 + (k + 1) = j + 1 /\ k \in Nat
            /\ j \in 1 .. Len(sizes) + 1 /\ f + 1 \in 1 .. Len(sizes) + 1
        BY <1>1, <2>1
      <3>2. FrameAt(f + 1) <= FrameAt(j)
        BY <1>1, <3>1
      <3> HIDE DEF j
      <3>3. FrameAt(j + 1) = FrameAt(j) + HdrSize + sizes[j] /\ FrameAt(j) \in Nat
            /\ FrameAt(f + 1) \in Nat /\ sizes[j] \in Nat
        BY <1>1, <3>1, FramesFollow
      <3>4. FrameAt(f + 1) <= FrameAt(j + 1)
        BY <1>1, <3>2, <3>3
      <3> QED
        BY <3>1, <3>4
    <2> QED
      BY <2>1
  <1>4. P = Nat
    <2>1. P \in SUBSET Nat
      OBVIOUS
    <2> HIDE DEF P
    <2> QED
      BY <1>2, <1>3, <2>1, Induction
  <1>5. g - (f + 1) \in Nat /\ f + 1 + (g - (f + 1)) = g /\ g <= Len(sizes) + 1
    BY <1>1
  <1>6. FrameAt(f + 1) <= FrameAt(g)
    <2>1. g - (f + 1) \in P
      BY <1>4, <1>5
    <2> QED
      BY <1>5, <2>1
  <1> QED
    BY <1>6, FramesFollow

(* What is the byte with the number j of a frame, with its header, is that *)
(* of no other.                                                            *)
LEMMA OneFrame ==
    ASSUME HasFrames, NEW f \in 1 .. Len(sizes), NEW g \in 1 .. Len(sizes),
           NEW j \in 1 .. HdrSize + sizes[f], NEW k \in 1 .. HdrSize + sizes[g],
           FrameAt(f) + j = FrameAt(g) + k
    PROVE  f = g /\ j = k
  <1>1. /\ Len(sizes) \in Nat /\ HdrSize \in Nat /\ sizes[f] \in Nat /\ sizes[g] \in Nat
        /\ f \in 1 .. Len(sizes) + 1 /\ g \in 1 .. Len(sizes) + 1
    BY FrameSize, StreamConstants
  <1>2. FrameAt(f) \in Nat /\ FrameAt(g) \in Nat
    BY <1>1, FramesFollow
  <1>3. ~(f < g)
    <2> SUFFICES ASSUME f < g PROVE FALSE
      OBVIOUS
    <2>1. FrameAt(f) + HdrSize + sizes[f] <= FrameAt(g)
      BY <1>1, FramesApart
    <2> QED
      BY <1>1, <1>2, <2>1
  <1>4. ~(g < f)
    <2> SUFFICES ASSUME g < f PROVE FALSE
      OBVIOUS
    <2>1. FrameAt(g) + HdrSize + sizes[g] <= FrameAt(f)
      BY <1>1, FramesApart
    <2> QED
      BY <1>1, <1>2, <2>1
  <1>5. f = g
    BY <1>1, <1>3, <1>4
  <1> QED
    BY <1>1, <1>2, <1>5

(* A byte of a header is in its place, *)
LEMMA HeaderBelongs ==
    ASSUME HasFrames, NEW f \in 1 .. Len(sizes), NEW size \in Declared(f),
           NEW j \in 1 .. HdrSize
    PROVE  Belongs(HdrByte(size, j), FrameAt(f) + j)
  <1>1. HdrSize \in Nat /\ \A g \in 1 .. Len(sizes) : sizes[g] \in Nat
    BY FrameSize, StreamConstants
  <1>2. j \in 1 .. HdrSize + sizes[f]
    BY <1>1
  <1>3. ASSUME NEW g \in 1 .. Len(sizes), NEW k \in 1 .. HdrSize, FrameAt(f) + j = FrameAt(g) + k
        PROVE  \E s \in Declared(g) : HdrByte(size, j) = HdrByte(s, k)
    <2>1. k \in 1 .. HdrSize + sizes[g]
      BY <1>1
    <2>2. f = g /\ j = k
      BY <1>2, <1>3, <2>1, OneFrame
    <2> QED
      BY <2>2
  <1>4. ASSUME NEW g \in 1 .. Len(sizes), NEW k \in 1 .. sizes[g],
               FrameAt(f) + j = FrameAt(g) + HdrSize + k
        PROVE  FALSE
    <2>1. HdrSize + k \in 1 .. HdrSize + sizes[g] /\ ~(j = HdrSize + k)
      BY <1>1
    <2>2. FrameAt(f) + j = FrameAt(g) + (HdrSize + k)
      <3>1. g \in 1 .. Len(sizes) + 1
        BY FrameSize
      <3>2. FrameAt(g) \in Nat
        BY <3>1, FramesFollow
      <3> QED
        BY <1>1, <1>4, <3>2
    <2>3. j = HdrSize + k
      BY <1>2, <2>1, <2>2, OneFrame
    <2> QED
      BY <2>1, <2>3
  <1> QED
    BY <1>3, <1>4 DEF Belongs

(* and so is one of the data. *)
LEMMA DataBelongs ==
    ASSUME HasFrames, NEW f \in 1 .. Len(sizes), NEW j \in 1 .. sizes[f]
    PROVE  Belongs(DataByte(f, j), FrameAt(f) + HdrSize + j)
  <1>1. HdrSize \in Nat /\ \A g \in 1 .. Len(sizes) : sizes[g] \in Nat
    BY FrameSize, StreamConstants
  <1>2. \A g \in 1 .. Len(sizes) : FrameAt(g) \in Nat
    <2>1. \A g \in 1 .. Len(sizes) : g \in 1 .. Len(sizes) + 1
      BY FrameSize
    <2> QED
      BY <2>1, FramesFollow
  <1>3. HdrSize + j \in 1 .. HdrSize + sizes[f]
    BY <1>1
  <1>4. FrameAt(f) + HdrSize + j = FrameAt(f) + (HdrSize + j)
    BY <1>1, <1>2
  <1>5. ASSUME NEW g \in 1 .. Len(sizes), NEW k \in 1 .. HdrSize,
               FrameAt(f) + HdrSize + j = FrameAt(g) + k
        PROVE  FALSE
    <2>1. k \in 1 .. HdrSize + sizes[g] /\ ~(HdrSize + j = k)
      BY <1>1
    <2>2. HdrSize + j = k
      BY <1>3, <1>4, <1>5, <2>1, OneFrame
    <2> QED
      BY <2>1, <2>2
  <1>6. ASSUME NEW g \in 1 .. Len(sizes), NEW k \in 1 .. sizes[g],
               FrameAt(f) + HdrSize + j = FrameAt(g) + HdrSize + k
        PROVE  DataByte(f, j) = DataByte(g, k)
    <2>1. HdrSize + k \in 1 .. HdrSize + sizes[g]
      BY <1>1
    <2>2. FrameAt(f) + (HdrSize + j) = FrameAt(g) + (HdrSize + k)
      BY <1>1, <1>2, <1>6
    <2>3. f = g /\ HdrSize + j = HdrSize + k
      BY <1>3, <2>1, <2>2, OneFrame
    <2>4. j = k
      BY <1>1, <2>3
    <2> QED
      BY <2>3, <2>4
  <1> QED
    BY <1>5, <1>6 DEF Belongs

(* What the sender has written ends in the frame that it compresses, *)
LEMMA FrameOfPosition ==
    ASSUME HasFrames, NEW f \in 1 .. Len(sizes) + 1, NEW g \in 1 .. Len(sizes),
           FrameAt(f) < FrameAt(g) + HdrSize + sizes[g]
    PROVE  f <= g
  <1>1. Len(sizes) \in Nat /\ HdrSize \in Nat /\ sizes[g] \in Nat /\ FrameAt(f) \in Nat
        /\ g \in 1 .. Len(sizes) + 1
    BY FrameSize, StreamConstants, FramesFollow
  <1>2. FrameAt(g) \in Nat
    BY <1>1, FramesFollow
  <1> SUFFICES ASSUME g < f PROVE FALSE
    BY <1>1
  <1>3. FrameAt(g) + HdrSize + sizes[g] <= FrameAt(f)
    BY FramesApart
  <1> QED
    BY <1>1, <1>2, <1>3

----------------------------------------------------------------------------
(* The copy at the end of compress() and decompress() *)
LEMMA CopyType ==
    ASSUME NEW ctx \in Context, NEW in \in Seq(Wire), NEW to \in Seq(Wire),
           NEW n \in 0 .. Len(in)
    PROVE  LET c == Copy(ctx, n, in, to)
           IN  /\ c.in = Drop(n, in) /\ c.out = to \o Take(n, in) /\ c.ret = 0
               /\ c.ctx.srcsize = ctx.srcsize
               /\ c.ctx.bytes_in = ctx.bytes_in + n /\ c.ctx.bytes_out = ctx.bytes_out + n
               /\ c.ctx = [srcsize |-> ctx.srcsize, bytes_in |-> ctx.bytes_in + n,
                           bytes_out |-> ctx.bytes_out + n]
               /\ c = [ctx |-> c.ctx, in |-> c.in, out |-> c.out, ret |-> 0]
  BY DEF Copy, Outcome, Context

(* The encoder: what a call writes goes on with what was written.          *)
GoesOn(res, ctx, in, to, size, f, p) ==
    /\ res.ctx \in Context /\ res.in \in Seq(Wire) /\ Len(res.in) <= Len(in)
    /\ Encodes(res.ctx, res.in, f, p)
    /\ \E t \in Seq(Wire) :
          /\ res.out = to \o t /\ Len(to) + Len(t) <= size
          /\ res.ctx.bytes_out = ctx.bytes_out + Len(t)
          /\ Segment(t, FrameAt(f) + ctx.bytes_out)

(* memcpy_compress(), once the header is written, goes on with the data. *)
LEMMA PutDataGoesOn ==
    ASSUME HasFrames, NEW f \in 1 .. Len(sizes), NEW p \in Nat,
           NEW ctx \in Context, NEW in \in Seq(Wire), NEW to \in Seq(Wire), NEW size \in Nat,
           Encodes(ctx, in, f, p), ctx.bytes_out = HdrSize + p - Len(in), Len(to) <= size
    PROVE  GoesOn(PutData(ctx, in, to, size), ctx, in, to, size, f, p)
  <1> DEFINE room == size - Len(to)
             m == MIN(Len(in), room)
             c == PutData(ctx, in, to, size)
             t == Take(m, in)
  <1>1. /\ Len(in) \in Nat /\ Len(to) \in Nat /\ HdrSize \in Nat /\ HdrSize >= 2 /\ SizeMax \in Nat
        /\ sizes[f] \in Nat /\ HdrSize + sizes[f] <= SizeMax
        /\ p <= sizes[f] /\ Len(in) <= p
        /\ \A k \in 1 .. Len(in) : in[k] = DataByte(f, p - Len(in) + k)
        /\ ctx.srcsize \in Declared(f) /\ ctx.bytes_in = p - Len(in)
    BY LenProperties, StreamConstants, FrameSize DEF Encodes
  <1>2. m \in 0 .. Len(in) /\ m <= room
    BY <1>1 DEF MIN
  <1>3. c = Copy(ctx, m, in, to)
    BY DEF PutData, Room
  <1>4. /\ c.in = Drop(m, in) /\ c.out = to \o t
        /\ c.ctx = [srcsize |-> ctx.srcsize, bytes_in |-> ctx.bytes_in + m,
                    bytes_out |-> ctx.bytes_out + m]
    <2> HIDE DEF m, c
    <2> QED
      BY <1>2, <1>3, CopyType
  <1>5. /\ t \in Seq(Wire) /\ Len(t) = m /\ \A k \in 1 .. m : t[k] = in[k]
        /\ c.in \in Seq(Wire) /\ Len(c.in) = Len(in) - m
        /\ \A k \in 1 .. Len(in) - m : c.in[k] = in[m + k]
    <2> DEFINE d == Drop(m, in)
    <2>1. /\ t \in Seq(Wire) /\ Len(t) = m /\ (\A k \in 1 .. m : t[k] = in[k])
          /\ d \in Seq(Wire) /\ Len(d) = Len(in) - m
          /\ \A k \in 1 .. Len(in) - m : d[k] = in[m + k]
      <3> HIDE DEF m
      <3> QED
        BY <1>2, TakeAndDrop
    <2>2. c.in = d
      BY <1>4
    <2> HIDE DEF m, c, d, t
    <2> QED
      BY <2>1, <2>2
  <1> HIDE DEF m, c, t, room
  <1>6. /\ c.ctx.srcsize = ctx.srcsize /\ c.ctx.bytes_in = ctx.bytes_in + m
        /\ c.ctx.bytes_out = ctx.bytes_out + m
    BY <1>4
  <1>7. c.ctx \in Context
    <2> DEFINE l == Len(in)
    <2>0. /\ l \in Nat /\ m \in 0 .. l /\ p \in Nat /\ l <= p /\ sizes[f] \in Nat
          /\ p <= sizes[f] /\ HdrSize \in Nat /\ SizeMax \in Nat
          /\ HdrSize + sizes[f] <= SizeMax
          /\ ctx.bytes_in = p - l /\ ctx.bytes_out = HdrSize + p - l
      BY <1>1, <1>2
    <2> HIDE DEF l
    <2>1. ctx.bytes_in + m \in 0 .. SizeMax
      BY <2>0
    <2>2. ctx.bytes_out + m \in 0 .. SizeMax
      <3>1. p - l + m \in 0 .. p
        BY <2>0
      <3> DEFINE q == p - l + m
      <3>2. HdrSize + p - l + m = HdrSize + q /\ q \in Nat /\ q <= p
        BY <2>0, <3>1
      <3> HIDE DEF q
      <3>3. HdrSize + q \in 0 .. SizeMax
        BY <2>0, <3>2
      <3> QED
        BY <2>0, <3>2, <3>3
    <2>3. ctx.srcsize \in 0 .. SizeMax
      BY DEF Context
    <2> QED
      BY <1>4, <2>1, <2>2, <2>3 DEF Context
  <1>8. Encodes(c.ctx, c.in, f, p)
    <2>1. Len(c.in) <= p /\ c.ctx.bytes_in = p - Len(c.in)
          /\ c.ctx.bytes_out = HdrSize + p - Len(c.in)
      <3> DEFINE l == Len(in)
      <3>1. l \in Nat /\ m \in 0 .. l /\ l <= p /\ HdrSize \in Nat
        BY <1>1, <1>2
      <3>2. /\ Len(c.in) = l - m /\ c.ctx.bytes_in = p - l + m
            /\ c.ctx.bytes_out = HdrSize + p - l + m
        BY <1>1, <1>5, <1>6
      <3> HIDE DEF l
      <3>3. l - m <= p /\ p - l + m = p - (l - m) /\ HdrSize + p - l + m = HdrSize + p - (l - m)
        BY <3>1
      <3> QED
        BY <3>2, <3>3
    <2>2. ASSUME NEW k \in 1 .. Len(c.in) PROVE c.in[k] = DataByte(f, p - Len(c.in) + k)
      <3>1. k \in 1 .. Len(in) - m /\ m + k \in 1 .. Len(in)
            /\ p - Len(in) + (m + k) = p - Len(c.in) + k
        BY <1>1, <1>2, <1>5
      <3> QED
        BY <1>1, <1>5, <3>1
    <2> QED
      BY <1>1, <1>6, <2>1, <2>2 DEF Encodes
  <1>9. Segment(t, FrameAt(f) + ctx.bytes_out)
    <2>1. FrameAt(f) \in Nat
      <3>1. f \in 1 .. Len(sizes) + 1
        BY FrameSize
      <3> QED
        BY <3>1, FramesFollow
    <2>2. ASSUME NEW k \in 1 .. Len(t) PROVE Belongs(t[k], (FrameAt(f) + ctx.bytes_out) + k)
      <3> DEFINE j == p - Len(in) + k
      <3>1. k \in 1 .. m /\ k \in 1 .. Len(in)
        BY <1>1, <1>2, <1>5
      <3>2. j \in 1 .. sizes[f]
        <4> DEFINE l == Len(in)
        <4>1. /\ l \in Nat /\ k \in 1 .. l /\ p \in Nat /\ l <= p
              /\ sizes[f] \in Nat /\ p <= sizes[f]
          BY <1>1, <3>1
        <4> HIDE DEF l
        <4>2. p - l + k \in 1 .. sizes[f]
          BY <4>1
        <4> QED
          BY <4>2 DEF l
      <3>3. t[k] = DataByte(f, j)
        BY <1>1, <1>5, <3>1
      <3>4. (FrameAt(f) + ctx.bytes_out) + k = FrameAt(f) + HdrSize + j
        BY <1>1, <2>1, <3>1
      <3> HIDE DEF j
      <3>5. Belongs(DataByte(f, j), FrameAt(f) + HdrSize + j)
        BY <3>2, DataBelongs
      <3> QED
        BY <3>3, <3>4, <3>5
    <2> QED
      BY <2>2 DEF Segment
  <1>10. Len(to) + Len(t) <= size /\ Len(c.in) <= Len(in)
    BY <1>1, <1>2, <1>5 DEF room
  <1>11. \E u \in Seq(Wire) :
            /\ c.out = to \o u /\ Len(to) + Len(u) <= size
            /\ c.ctx.bytes_out = ctx.bytes_out + Len(u)
            /\ Segment(u, FrameAt(f) + ctx.bytes_out)
    BY <1>4, <1>5, <1>6, <1>9, <1>10
  <1> QED
    BY <1>5, <1>7, <1>8, <1>10, <1>11 DEF c, GoesOn

(* A header is what a frame begins with. *)
LEMMA HeaderType ==
    ASSUME HasFrames, NEW f \in 1 .. Len(sizes), NEW size \in Declared(f)
    PROVE  /\ Header(size) \in Seq(Wire) /\ Len(Header(size)) = HdrSize
           /\ Segment(Header(size), FrameAt(f))
  <1>1. HdrSize \in Nat /\ size \in Nat
    BY StreamConstants, DeclaredSize
  <1>2. Header(size) \in [1 .. HdrSize -> Wire]
    <2>1. \A j \in 1 .. HdrSize : HdrByte(size, j) \in Wire
      BY <1>1, OnTheWire
    <2> QED
      BY <2>1 DEF Header
  <1>3. Header(size) \in Seq(Wire) /\ Len(Header(size)) = HdrSize
    BY <1>1, <1>2
  <1>4. ASSUME NEW j \in 1 .. Len(Header(size)) PROVE Belongs(Header(size)[j], FrameAt(f) + j)
    <2>1. j \in 1 .. HdrSize /\ Header(size)[j] = HdrByte(size, j)
      BY <1>3 DEF Header
    <2> QED
      BY <2>1, HeaderBelongs
  <1> QED
    BY <1>3, <1>4 DEF Segment

(* memcpy_compress() goes on, with the header, with data, or with nothing. *)
LEMMA CompressGoesOn ==
    ASSUME HasFrames, NEW f \in 1 .. Len(sizes), NEW p \in Nat,
           NEW ctx \in Context, NEW in \in Seq(Wire), NEW to \in Seq(Wire), NEW size \in Nat,
           Encodes(ctx, in, f, p), Len(to) <= size
    PROVE  GoesOn(Compress(ctx, in, to, size), ctx, in, to, size, f, p)
  <1> DEFINE c == Compress(ctx, in, to, size)
             hd == Header(ctx.srcsize)
             counted == CountHeader(ctx)
  <1>1. /\ Len(in) \in Nat /\ Len(to) \in Nat /\ HdrSize \in Nat /\ HdrSize >= 2
        /\ SizeMax \in Nat /\ SizeMax > 6 + HdrSize /\ ctx.bytes_out \in Nat
        /\ ctx.srcsize \in Declared(f)
    BY LenProperties, StreamConstants DEF Context, Encodes
  <1>2. CASE ctx.bytes_out # 0
    <2>1. c = PutData(ctx, in, to, size)
      BY <1>2 DEF Compress
    <2>2. ctx.bytes_out = HdrSize + p - Len(in)
      BY <1>2 DEF Encodes
    <2>3. GoesOn(PutData(ctx, in, to, size), ctx, in, to, size, f, p)
      BY <2>2, PutDataGoesOn
    <2> HIDE DEF c
    <2>4. GoesOn(c, ctx, in, to, size, f, p)
      BY <2>1, <2>3
    <2> QED
      BY <2>4 DEF c
  <1>3. CASE ctx.bytes_out = 0 /\ HdrSize > Room(to, size)
    <2>1. c = Outcome(ctx, in, to, COMPRESS_ERR_BUF)
      BY <1>3 DEF Compress
    <2> HIDE DEF c
    <2>2. c.ctx = ctx /\ c.in = in /\ c.out = to
      BY <2>1 DEF Outcome
    <2>3. << >> \in Seq(Wire) /\ Len(<< >>) = 0 /\ to \o << >> = to
      BY EmptySeq, ConcatEmptySeq
    <2>4. Segment(<< >>, FrameAt(f) + ctx.bytes_out)
      BY <2>3 DEF Segment
    <2>5. c.ctx.bytes_out = ctx.bytes_out + Len(<< >>) /\ Len(to) + Len(<< >>) <= size
      BY <1>1, <2>2, <2>3
    <2>6. \E t \in Seq(Wire) :
             /\ c.out = to \o t /\ Len(to) + Len(t) <= size
             /\ c.ctx.bytes_out = ctx.bytes_out + Len(t)
             /\ Segment(t, FrameAt(f) + ctx.bytes_out)
      BY <2>2, <2>3, <2>4, <2>5
    <2>7. GoesOn(c, ctx, in, to, size, f, p)
      <3>1. c.ctx \in Context /\ c.in \in Seq(Wire) /\ Len(c.in) <= Len(in)
        BY <1>1, <2>2
      <3>2. Encodes(c.ctx, c.in, f, p)
        BY <2>2
      <3> QED
        BY <2>6, <3>1, <3>2 DEF GoesOn
    <2> QED
      BY <2>7 DEF c
  <1>4. CASE ctx.bytes_out = 0 /\ ~(HdrSize > Room(to, size))
    <2> DEFINE d == PutData(counted, in, to \o hd, size)
    <2>1. c = d
      BY <1>4 DEF Compress
    <2>2. hd \in Seq(Wire) /\ Len(hd) = HdrSize /\ Segment(hd, FrameAt(f))
      BY <1>1, HeaderType
    <2>3. counted \in Context /\ counted.bytes_out = HdrSize
          /\ counted.srcsize = ctx.srcsize /\ counted.bytes_in = ctx.bytes_in
      <3>1. HdrSize \in 0 .. SizeMax
        BY <1>1
      <3> QED
        BY <3>1 DEF CountHeader, Context
    <2>4. Len(in) = p
      BY <1>1, <1>4 DEF Encodes
    <2>5. Encodes(counted, in, f, p) /\ counted.bytes_out = HdrSize + p - Len(in)
      <3>1. HdrSize = HdrSize + p - Len(in)
        BY <1>1, <2>4
      <3> HIDE DEF counted
      <3> QED
        BY <2>3, <3>1 DEF Encodes
    <2>6. to \o hd \in Seq(Wire) /\ Len(to \o hd) = Len(to) + HdrSize /\ Len(to \o hd) <= size
      <3>1. to \o hd \in Seq(Wire) /\ Len(to \o hd) = Len(to) + Len(hd)
        <4> HIDE DEF hd
        <4> QED
          BY <2>2, ConcatProperties
      <3>2. ~(HdrSize > size - Len(to))
        BY <1>4 DEF Room
      <3> HIDE DEF hd
      <3> QED
        BY <1>1, <2>2, <3>1, <3>2
    <2>7. GoesOn(d, counted, in, to \o hd, size, f, p)
      <3> HIDE DEF counted, hd
      <3> QED
        BY <2>3, <2>5, <2>6, PutDataGoesOn
    <2> HIDE DEF c, d, counted, hd
    <2>8. PICK t \in Seq(Wire) :
             /\ d.out = (to \o hd) \o t /\ Len(to \o hd) + Len(t) <= size
             /\ d.ctx.bytes_out = HdrSize + Len(t)
             /\ Segment(t, FrameAt(f) + HdrSize)
      BY <2>3, <2>7 DEF GoesOn
    <2>9. hd \o t \in Seq(Wire) /\ Len(hd \o t) = HdrSize + Len(t)
      <3>1. hd \in Seq(Wire) /\ Len(hd) = HdrSize
        BY <2>2
      <3>2. hd \o t \in Seq(Wire) /\ Len(hd \o t) = Len(hd) + Len(t)
        BY <3>1, ConcatProperties
      <3> QED
        BY <3>1, <3>2
    <2>10. d.out = to \o (hd \o t) /\ Len(t) \in Nat
      <3>1. (to \o hd) \o t = to \o (hd \o t)
        <4>1. Cat(Cat(to, hd), t) = Cat(to, Cat(hd, t))
          BY <2>2, CatFacts
        <4> QED
          BY <4>1 DEF Cat
      <3>2. Len(t) \in Nat
        BY LenProperties
      <3> QED
        BY <2>8, <3>1, <3>2
    <2>11. FrameAt(f) \in Nat /\ FrameAt(f) + ctx.bytes_out = FrameAt(f)
      <3>1. f \in 1 .. Len(sizes) + 1
        BY FrameSize
      <3>2. FrameAt(f) \in Nat
        BY <3>1, FramesFollow
      <3> QED
        BY <1>4, <3>2
    <2>12. Segment(hd \o t, FrameAt(f))
      BY <2>2, <2>8, <2>11, SegmentConcat
    <2>13. Len(to) + Len(hd \o t) <= size /\ d.ctx.bytes_out = ctx.bytes_out + Len(hd \o t)
      BY <1>1, <1>4, <2>6, <2>8, <2>9, <2>10
    <2>14. \E u \in Seq(Wire) :
             /\ d.out = to \o u /\ Len(to) + Len(u) <= size
             /\ d.ctx.bytes_out = ctx.bytes_out + Len(u)
             /\ Segment(u, FrameAt(f) + ctx.bytes_out)
      BY <2>9, <2>11, <2>12, <2>13, <2>10
    <2> QED
      BY <2>1, <2>7, <2>14 DEF c, GoesOn
  <1> QED
    BY <1>2, <1>3, <1>4

----------------------------------------------------------------------------
(* No step changes the frames. *)
LEMMA SameFrames ==
    ASSUME sizes' = sizes
    PROVE  /\ DataBefore' = DataBefore
           /\ \A f : FrameAt(f)' = FrameAt(f) /\ Declared(f)' = Declared(f)
  <1>1. DataBefore' = DataBefore
    BY DEF DataBefore
  <1>2. \A f : FrameAt(f)' = FrameAt(f)
    BY <1>1 DEF FrameAt
  <1>3. \A f : Declared(f)' = Declared(f)
    BY DEF Declared
  <1> QED
    BY <1>1, <1>2, <1>3

(* What is to be shown of the encoder after a step, *)
LEMMA EncodingNext ==
    ASSUME sizes' = sizes, frame' # 0, Encodes(cctx', cin', frame', place'),
           ~open' => place' = sizes[frame'] /\ Accepted(cctx', cin')
    PROVE  Encoding'
  BY SameFrames DEF Encoding, Encodes, Accepted

(* and of the decoder. *)
LEMMA DecodingNext ==
    ASSUME sizes' = sizes, NEW f \in 1 .. Len(sizes) + 1,
           decompressed' = DataBefore[f] \o Data(f, 0, dctx'.bytes_out),
           \/ dctx' = NewCtx
           \/ Decodes(dctx', f) /\ (dctx'.bytes_out < sizes[f]
                                       \/ dctx'.srcsize = UNCOMPRESS_SIZE_UNKNOWN),
           Segment(transit', FrameAt(f) + dctx'.bytes_in),
           FrameAt(f) + dctx'.bytes_in + Len(transit') = written'
    PROVE  Decoding'
  <1>1. DataBefore' = DataBefore /\ \A g : FrameAt(g)' = FrameAt(g) /\ Declared(g)' = Declared(g)
    BY SameFrames
  <1>2. Reaches(f)'
    BY <1>1 DEF Reaches, Decodes
  <1>3. Segment(transit, FrameAt(f) + dctx.bytes_in)'
    BY <1>1 DEF Segment, Belongs
  <1>4. (FrameAt(f) + dctx.bytes_in + Len(transit) = written)'
    BY <1>1
  <1> QED
    BY <1>2, <1>3, <1>4 DEF Decoding

(* The receiver changes nothing of the encoder. *)
LEMMA EncodingSame == ASSUME Encoding, UNCHANGED sender PROVE Encoding'
  BY SameFrames DEF Encoding, Encodes, Accepted, sender

----------------------------------------------------------------------------
(* The decoder: what a call takes from its input is data of the frame that *)
(* it is in, up to the end of this frame.                                  *)
InFrame(ctx, f) ==
    /\ ctx \in Context /\ Decodes(ctx, f)
    /\ ctx.bytes_out < sizes[f] \/ ctx.srcsize = UNCOMPRESS_SIZE_UNKNOWN

Gets(res, ctx, in, to, size, f) ==
    /\ \E n \in 0 .. Len(in) :
          /\ res.in = Drop(n, in)
          /\ res.out = to \o Data(f, ctx.bytes_out, ctx.bytes_out + n)
          /\ Len(to) + n <= size
          /\ ctx.bytes_out + n <= sizes[f]
          /\ \/ res.ctx = NewCtx /\ ctx.bytes_out + n = sizes[f]
             \/ InFrame(res.ctx, f) /\ res.ctx.bytes_out = ctx.bytes_out + n
    /\ res.ret \in 0 .. RecInSize

(* memcpy_decompress(), once the header is read, gets data of its frame. *)
LEMMA GetDataGets ==
    ASSUME HasFrames, NEW f, NEW ctx \in Context, Decodes(ctx, f),
           NEW in \in Seq(Wire), NEW to \in Seq(Wire), NEW size \in Nat, Len(to) <= size,
           Segment(in, FrameAt(f) + ctx.bytes_in),
           FrameAt(f) + ctx.bytes_in + Len(in) <= FrameAt(Len(sizes) + 1)
    PROVE  Gets(GetData(ctx, in, to, size), ctx, in, to, size, f)
  <1> DEFINE room == size - Len(to)
             m == MaxIn(ctx, in)
             n == MIN(m, room)
             c == Copy(ctx, n, in, to)
             b == ctx.bytes_out
             r == GetData(ctx, in, to, size)
  <1>1. /\ f \in 1 .. Len(sizes) /\ Len(sizes) \in Nat
        /\ Len(in) \in Nat /\ Len(to) \in Nat /\ HdrSize \in Nat
        /\ SizeMax \in Nat /\ SizeMax > 6 + HdrSize /\ RecInSize \in Nat
        /\ sizes[f] \in Nat /\ HdrSize + sizes[f] <= SizeMax /\ sizes[f] < SizeMax - 2
        /\ b \in Nat /\ b <= sizes[f] /\ ctx.bytes_in = HdrSize + b
        /\ ctx.srcsize \in 0 .. SizeMax
    BY LenProperties, StreamConstants, FrameSize DEF Decodes, Context
  <1>2. \/ ctx.srcsize = sizes[f] /\ ctx.srcsize # UNCOMPRESS_SIZE_UNKNOWN
        \/ ctx.srcsize = UNCOMPRESS_SIZE_UNKNOWN /\ f = Len(sizes)
    <2>1. ctx.srcsize \in Declared(f)
      BY DEF Decodes
    <2> QED
      BY <1>1, <2>1, DeclaredSize
  <1>3. FrameAt(f) \in Nat
    <2>1. f \in 1 .. Len(sizes) + 1
      BY <1>1
    <2> QED
      BY <2>1, FramesFollow
  <1> HIDE DEF b
  <1>4. m \in 0 .. Len(in) /\ b + m <= sizes[f]
    <2>1. CASE ctx.srcsize = UNCOMPRESS_SIZE_UNKNOWN
      <3>1. m = Len(in)
        BY <2>1 DEF MaxIn
      <3>2. f = Len(sizes)
        BY <1>2, <2>1
      <3>3. FrameAt(f + 1) = FrameAt(f) + HdrSize + sizes[f]
        BY <1>1, FramesFollow
      <3>4. FrameAt(f) + (HdrSize + b) + Len(in) <= FrameAt(f) + HdrSize + sizes[f]
        BY <1>1, <3>2, <3>3
      <3>5. b + Len(in) <= sizes[f]
        <4> DEFINE a == FrameAt(f)
                   l == Len(in)
        <4>1. /\ a \in Nat /\ l \in Nat /\ b \in Nat /\ HdrSize \in Nat /\ sizes[f] \in Nat
              /\ a + (HdrSize + b) + l <= a + HdrSize + sizes[f]
          BY <1>1, <1>3, <3>4
        <4> HIDE DEF a, l
        <4>2. b + l <= sizes[f]
          BY <4>1
        <4> QED
          BY <4>2 DEF l
      <3> HIDE DEF m
      <3> QED
        BY <1>1, <3>1, <3>5
    <2>2. CASE ctx.srcsize # UNCOMPRESS_SIZE_UNKNOWN
      <3>1. ctx.srcsize = sizes[f]
        BY <1>2, <2>2
      <3>2. m = MIN(Len(in), Minus(sizes[f], b))
        BY <2>2, <3>1 DEF MaxIn, b
      <3>3. Minus(sizes[f], b) = sizes[f] - b
        <4> DEFINE d == sizes[f] - b
                   words == SizeMax + 1
        <4>1. d \in 0 .. words - 1 /\ words \in Nat \ {0}
          <5>1. /\ sizes[f] \in Nat /\ b \in Nat /\ b <= sizes[f] /\ SizeMax \in Nat
                /\ sizes[f] < SizeMax - 2
            BY <1>1
          <5> QED
            BY <5>1
        <4>2. Minus(sizes[f], b) = d % words
          BY DEF Minus
        <4> HIDE DEF d, words
        <4>3. d % words = d
          BY <4>1
        <4> QED
          BY <4>2, <4>3 DEF d
      <3> HIDE DEF m
      <3> QED
        BY <1>1, <3>2, <3>3 DEF MIN
    <2> QED
      BY <2>1, <2>2
  <1> HIDE DEF m
  <1>5. n \in 0 .. Len(in) /\ Len(to) + n <= size /\ b + n <= sizes[f] /\ n \in Nat
    <2>1. room \in Nat /\ Len(to) + room = size
      BY <1>1
    <2> HIDE DEF room
    <2>2. m \in Nat /\ n \in Nat /\ n <= m /\ n <= room
      BY <1>1, <1>4, <2>1 DEF MIN
    <2> HIDE DEF n
    <2>3. Len(in) \in Nat /\ Len(to) \in Nat /\ b \in Nat /\ sizes[f] \in Nat
      BY <1>1
    <2>4. n \in 0 .. Len(in)
      BY <1>4, <2>2, <2>3
    <2>5. Len(to) + n <= size
      BY <2>1, <2>2, <2>3
    <2>6. b + n <= sizes[f]
      BY <1>4, <2>2, <2>3
    <2> QED
      BY <2>2, <2>4, <2>5, <2>6
  <1> HIDE DEF n, room
  <1>6. Take(n, in) = Data(f, b, b + n)
    <2>1. f \in Nat /\ b + n \in Nat /\ b <= b + n /\ (b + n) - b = n
      BY <1>1, <1>5
    <2>2. /\ Data(f, b, b + n) \in Seq(Wire) /\ Len(Data(f, b, b + n)) = n
          /\ \A k \in 1 .. n : Data(f, b, b + n)[k] = DataByte(f, b + k)
      <3> DEFINE e == b + n
      <3> HIDE DEF e
      <3>1. f \in Nat /\ b \in Nat /\ e \in Nat /\ b <= e /\ e - b = n
        BY <1>1, <2>1 DEF e
      <3>2. /\ Data(f, b, e) \in Seq(Wire) /\ Len(Data(f, b, e)) = e - b
            /\ \A k \in 1 .. e - b : Data(f, b, e)[k] = DataByte(f, b + k)
        BY <3>1, DataType
      <3> QED
        BY <3>1, <3>2 DEF e
    <2>3. /\ Take(n, in) \in Seq(Wire) /\ Len(Take(n, in)) = n
          /\ \A k \in 1 .. n : Take(n, in)[k] = in[k]
      BY <1>5, TakeAndDrop
    <2>4. ASSUME NEW k \in 1 .. n PROVE in[k] = DataByte(f, b + k)
      <3>1. k \in 1 .. Len(in) /\ b + k \in 1 .. sizes[f]
        <4>1. n \in 0 .. Len(in) /\ Len(in) \in Nat
          BY <1>1, <1>5
        <4>2. b \in Nat /\ n \in Nat /\ b + n <= sizes[f] /\ sizes[f] \in Nat
          BY <1>1, <1>5
        <4>3. k \in 1 .. Len(in)
          BY <4>1
        <4> QED
          BY <4>2, <4>3
      <3>2. Belongs(in[k], (FrameAt(f) + ctx.bytes_in) + k)
        BY <3>1 DEF Segment
      <3>3. (FrameAt(f) + ctx.bytes_in) + k = FrameAt(f) + HdrSize + (b + k)
        BY <1>1, <1>3, <3>1
      <3> QED
        BY <1>1, <3>1, <3>2, <3>3 DEF Belongs
    <2>5. \A k \in 1 .. Len(Take(n, in)) : Take(n, in)[k] = Data(f, b, b + n)[k]
      BY <2>2, <2>3, <2>4
    <2> QED
      BY <2>2, <2>3, <2>5, SeqEqual
  <1>7. /\ c.in = Drop(n, in) /\ c.out = to \o Data(f, b, b + n) /\ c.ret = 0
        /\ c.ctx = [srcsize |-> ctx.srcsize, bytes_in |-> ctx.bytes_in + n, bytes_out |-> b + n]
        /\ c = [ctx |-> c.ctx, in |-> c.in, out |-> c.out, ret |-> 0]
    <2>1. /\ c.in = Drop(n, in) /\ c.out = to \o Take(n, in) /\ c.ret = 0
          /\ c.ctx = [srcsize |-> ctx.srcsize, bytes_in |-> ctx.bytes_in + n,
                      bytes_out |-> ctx.bytes_out + n]
          /\ c = [ctx |-> c.ctx, in |-> c.in, out |-> c.out, ret |-> 0]
      BY <1>5, CopyType
    <2> HIDE DEF c
    <2> QED
      BY <1>6, <2>1 DEF b
  <1> HIDE DEF c
  <1>8. c.ctx.srcsize = ctx.srcsize /\ c.ctx.bytes_in = HdrSize + (b + n) /\ c.ctx.bytes_out = b + n
    <2>1. ctx.bytes_in + n = HdrSize + (b + n)
      BY <1>1, <1>5
    <2> QED
      BY <1>7, <2>1
  <1>9. c.ctx \in Context /\ Decodes(c.ctx, f)
    <2>1. HdrSize + (b + n) \in 0 .. SizeMax /\ b + n \in 0 .. SizeMax
      BY <1>1, <1>5
    <2>2. c.ctx \in Context
      BY <1>1, <1>7, <1>8, <2>1 DEF Context
    <2> QED
      BY <1>1, <1>5, <1>8, <2>2 DEF Decodes
  <1>10. r = CASE c.ctx.srcsize = UNCOMPRESS_SIZE_UNKNOWN -> c
               [] c.ctx.bytes_out = c.ctx.srcsize -> [c EXCEPT !.ctx = NewCtx]
               [] OTHER -> [c EXCEPT !.ret = MIN(RecInSize, Minus(c.ctx.srcsize, c.ctx.bytes_in))]
    BY DEF GetData, AfterFrame, Room, c, n, m, room
  <1> HIDE DEF r
  <1>11. /\ r.in = c.in /\ r.out = c.out /\ r.ret \in 0 .. RecInSize
         /\ \/ r.ctx = NewCtx /\ b + n = sizes[f]
            \/ InFrame(r.ctx, f) /\ r.ctx.bytes_out = b + n
    <2>1. CASE ctx.srcsize = UNCOMPRESS_SIZE_UNKNOWN
      <3>1. ~(c.ctx.bytes_out = c.ctx.srcsize)
        <4>1. c.ctx.srcsize = SizeMax /\ c.ctx.bytes_out = b + n
          BY <1>8, <2>1 DEF UNCOMPRESS_SIZE_UNKNOWN
        <4>2. b + n < SizeMax
          BY <1>1, <1>5
        <4>3. b + n \in Int /\ SizeMax \in Int
          BY <1>1, <1>5
        <4> QED
          BY <4>1, <4>2, <4>3
      <3>2. r = c
        BY <1>8, <1>10, <2>1, <3>1
      <3>3. 0 \in 0 .. RecInSize
        BY <1>1
      <3> QED
        BY <1>7, <1>8, <1>9, <2>1, <3>2, <3>3 DEF InFrame
    <2>2. CASE ctx.srcsize # UNCOMPRESS_SIZE_UNKNOWN /\ b + n = ctx.srcsize
      <3>1. r = [c EXCEPT !.ctx = NewCtx]
        BY <1>8, <1>10, <2>2
      <3>2. r.ctx = NewCtx /\ r.in = c.in /\ r.out = c.out /\ r.ret = 0
        BY <1>7, <3>1
      <3>3. 0 \in 0 .. RecInSize
        BY <1>1
      <3>4. b + n = sizes[f]
        BY <1>2, <2>2
      <3> QED
        BY <3>2, <3>3, <3>4
    <2>3. CASE ctx.srcsize # UNCOMPRESS_SIZE_UNKNOWN /\ b + n # ctx.srcsize
      <3> DEFINE hint == MIN(RecInSize, Minus(c.ctx.srcsize, c.ctx.bytes_in))
      <3>1. r = [c EXCEPT !.ret = hint]
        BY <1>8, <1>10, <2>3
      <3>2. hint \in 0 .. RecInSize
        <4>1. c.ctx.srcsize - c.ctx.bytes_in \in Int /\ SizeMax + 1 \in Nat \ {0}
          <5>1. c.ctx.srcsize \in Int
            BY <1>1, <1>8
          <5>2. c.ctx.bytes_in \in Int
            BY <1>1, <1>5, <1>8
          <5>3. SizeMax + 1 \in Nat \ {0}
            BY <1>1
          <5> QED
            BY <5>1, <5>2, <5>3
        <4>2. Minus(c.ctx.srcsize, c.ctx.bytes_in) \in Nat
          BY <4>1 DEF Minus
        <4> QED
          BY <1>1, <4>2 DEF MIN
      <3> HIDE DEF hint
      <3>3. r.ctx = c.ctx /\ r.in = c.in /\ r.out = c.out /\ r.ret = hint
        BY <1>7, <3>1
      <3>4. b + n < sizes[f]
        <4>1. b + n # sizes[f]
          BY <1>2, <2>3
        <4>2. b + n <= sizes[f]
          BY <1>5
        <4>3. b + n \in Int /\ sizes[f] \in Int
          BY <1>1, <1>5
        <4> QED
          BY <4>1, <4>2, <4>3
      <3> QED
        BY <1>8, <1>9, <3>2, <3>3, <3>4 DEF InFrame
    <2> QED
      BY <2>1, <2>2, <2>3
  <1>12. \E k \in 0 .. Len(in) :
            /\ r.in = Drop(k, in)
            /\ r.out = to \o Data(f, b, b + k)
            /\ Len(to) + k <= size
            /\ b + k <= sizes[f]
            /\ \/ r.ctx = NewCtx /\ b + k = sizes[f]
               \/ InFrame(r.ctx, f) /\ r.ctx.bytes_out = b + k
    BY <1>5, <1>7, <1>11
  <1> QED
    BY <1>11, <1>12 DEF Gets, r, b

(* Where a frame begins there is a header, with its size or with none. *)
LEMMA GetSizeDeclared ==
    ASSUME HasFrames, NEW f \in 1 .. Len(sizes), NEW s \in Seq(Wire), Len(s) >= HdrSize,
           Segment(s, FrameAt(f))
    PROVE  GetSize(s) \in Declared(f) /\ GetSize(s) # UNCOMPRESS_SIZE_ERROR
  <1>1. HdrSize \in Nat /\ HdrSize >= 2 /\ Len(s) \in Nat
    BY StreamConstants, LenProperties
  <1>2. ASSUME NEW j \in 1 .. HdrSize PROVE \E size \in Declared(f) : s[j] = HdrByte(size, j)
    <2>1. j \in 1 .. Len(s)
      BY <1>1
    <2>2. Belongs(s[j], FrameAt(f) + j)
      BY <2>1 DEF Segment
    <2> QED
      BY <2>2 DEF Belongs
  <1>3. PICK size \in Declared(f) : s[1] = HdrByte(size, 1)
    <2>1. 1 \in 1 .. HdrSize
      BY <1>1
    <2> QED
      BY <1>2, <2>1
  <1>4. PICK last \in Declared(f) : s[HdrSize] = HdrByte(last, HdrSize)
    <2>1. HdrSize \in 1 .. HdrSize
      BY <1>1
    <2> QED
      BY <1>2, <2>1
  <1>5. s[1][1] = "header" /\ s[1][3] = 1 /\ s[HdrSize][2] = last
    BY <1>3, <1>4, KindsDiffer
  <1>6. GetSize(s) = last
    BY <1>5 DEF GetSize
  <1> QED
    BY <1>6, DeclaredSize

(* What is dropped in two parts could be dropped at once. *)
LEMMA DropTwice ==
    ASSUME NEW s \in Seq(Wire), NEW m \in 0 .. Len(s), NEW n \in 0 .. Len(s) - m
    PROVE  Drop(n, Drop(m, s)) = Drop(m + n, s)
  <1> DEFINE t == Drop(m, s)
             u == Drop(n, t)
             v == Drop(m + n, s)
  <1>0. Len(s) \in Nat /\ m + n \in 0 .. Len(s) /\ n \in Nat
    <2>1. Len(s) \in Nat
      BY LenProperties
    <2> QED
      BY <2>1
  <1>1. t \in Seq(Wire) /\ Len(t) = Len(s) - m /\ \A k \in 1 .. Len(s) - m : t[k] = s[m + k]
    BY TakeAndDrop
  <1>2. /\ v \in Seq(Wire) /\ Len(v) = Len(s) - (m + n)
        /\ \A k \in 1 .. Len(s) - (m + n) : v[k] = s[(m + n) + k]
    BY <1>0, TakeAndDrop
  <1>3. u \in Seq(Wire) /\ Len(u) = Len(t) - n /\ \A k \in 1 .. Len(t) - n : u[k] = t[n + k]
    <2> HIDE DEF t
    <2>1. t \in Seq(Wire) /\ n \in 0 .. Len(t)
      BY <1>1
    <2> QED
      BY <2>1, TakeAndDrop
  <1> HIDE DEF t, u, v
  <1>4. Len(u) = Len(v)
    BY <1>0, <1>1, <1>2, <1>3
  <1>5. ASSUME NEW k \in 1 .. Len(u) PROVE u[k] = v[k]
    <2>1. /\ k \in 1 .. Len(t) - n /\ k \in 1 .. Len(s) - (m + n) /\ n + k \in 1 .. Len(s) - m
          /\ m + (n + k) = (m + n) + k
      BY <1>0, <1>1, <1>3
    <2> QED
      BY <1>1, <1>2, <1>3, <2>1
  <1>6. u = v
    BY <1>2, <1>3, <1>4, <1>5, SeqEqual
  <1> QED
    BY <1>6 DEF u, v, t

(* What the sender has written is part of the frames up to its own. *)
LEMMA WrittenType ==
    ASSUME StreamTypes, Encoding
    PROVE  /\ HasFrames /\ written \in Nat
           /\ frame = 0 => written = 0
           /\ frame # 0 =>
                 /\ frame \in 1 .. Len(sizes)
                 /\ written <= FrameAt(frame) + HdrSize + sizes[frame]
                 /\ written = FrameAt(frame)
                       \/ written = FrameAt(frame) + HdrSize + (place - Len(cin))
           /\ written <= FrameAt(Len(sizes) + 1)
  <1>1. HasFrames /\ HdrSize \in Nat /\ Len(cin) \in Nat /\ place \in Nat /\ Len(sizes) \in Nat
    <2>1. HasFrames
      BY DEF StreamTypes, HasFrames
    <2>2. cin \in Seq(Wire)
      BY DEF StreamTypes
    <2> QED
      BY <2>1, <2>2, LenProperties, StreamConstants, FrameSize DEF StreamTypes
  <1>2. FrameAt(Len(sizes) + 1) \in Nat
    <2>1. Len(sizes) + 1 \in 1 .. Len(sizes) + 1
      BY <1>1
    <2> QED
      BY <1>1, <2>1, FramesFollow
  <1>3. CASE frame = 0
    BY <1>1, <1>2, <1>3 DEF written
  <1>4. CASE frame # 0
    <2>1. frame \in 1 .. Len(sizes)
      <3>1. frame \in 0 .. Len(sizes)
        BY DEF StreamTypes, StreamsTypeOK
      <3> QED
        BY <1>1, <1>4, <3>1
    <2>2. FrameAt(frame) \in Nat /\ sizes[frame] \in Nat
      <3>1. frame \in 1 .. Len(sizes) + 1
        BY <1>1, <2>1
      <3> QED
        BY <1>1, <2>1, <3>1, FrameSize, FramesFollow
    <2>3. /\ place <= sizes[frame] /\ Len(cin) <= place
          /\ \/ cctx.bytes_out = 0
             \/ cctx.bytes_out = HdrSize + place - Len(cin)
      BY <1>4 DEF Encoding, Encodes
    <2>4. FrameAt(frame) + HdrSize + sizes[frame] <= FrameAt(Len(sizes) + 1)
      <3>1. Len(sizes) + 1 \in 1 .. Len(sizes) + 1 /\ frame < Len(sizes) + 1
        BY <1>1, <2>1
      <3> QED
        BY <1>1, <2>1, <3>1, FramesApart
    <2>5. written = FrameAt(frame) + cctx.bytes_out
      BY <1>4 DEF written
    <2> DEFINE e == Len(cin)
               a == FrameAt(frame)
               b == cctx.bytes_out
               z == FrameAt(Len(sizes) + 1)
               w == written
    <2>6. /\ w \in Nat /\ w <= a + HdrSize + sizes[frame]
          /\ w = a \/ w = a + HdrSize + (place - e)
          /\ w <= z
      <3>1. /\ e \in Nat /\ a \in Nat /\ z \in Nat /\ place \in Nat /\ HdrSize \in Nat
            /\ sizes[frame] \in Nat /\ place <= sizes[frame] /\ e <= place
            /\ b = 0 \/ b = HdrSize + place - e
            /\ a + HdrSize + sizes[frame] <= z /\ w = a + b
        BY <1>1, <1>2, <2>2, <2>3, <2>4, <2>5
      <3> HIDE DEF e, a, b, z, w
      <3> QED
        BY <3>1
    <2> QED
      BY <1>1, <1>4, <2>1, <2>6
  <1> QED
    BY <1>3, <1>4

(* dstream_decompress(): it stays where it is, because there is too little *)
(* of a header, or reads the first k bytes and gives out n of the frame.   *)
Waits(res, ctx, in, to) ==
    res.ctx = ctx /\ res.in = in /\ res.out = to /\ res.ret = COMPRESS_ERR_BUF

Proceeds(res, ctx, in, to, size, f) ==
    /\ f \in 1 .. Len(sizes)
    /\ \E k \in 0 .. Len(in), n \in Nat :
          /\ res.in = Drop(k, in)
          /\ res.out = to \o Data(f, ctx.bytes_out, ctx.bytes_out + n)
          /\ Len(to) + n <= size
          /\ ctx.bytes_out + n <= sizes[f]
          /\ ctx.bytes_in + k = HdrSize + (ctx.bytes_out + n)
          /\ \/ res.ctx = NewCtx /\ ctx.bytes_out + n = sizes[f]
             \/ InFrame(res.ctx, f) /\ res.ctx.bytes_out = ctx.bytes_out + n
    /\ res.ret \in 0 .. RecInSize

(* memcpy_decompress() waits or proceeds, it never finds an error. *)
LEMMA DecompressProceeds ==
    ASSUME HasFrames, NEW f \in 1 .. Len(sizes) + 1, NEW ctx \in Context,
           ctx = NewCtx \/ InFrame(ctx, f),
           NEW in \in Seq(Wire), NEW to \in Seq(Wire), NEW size \in Nat,
           Len(to) <= size, in # << >>,
           Segment(in, FrameAt(f) + ctx.bytes_in),
           FrameAt(f) + ctx.bytes_in + Len(in) <= FrameAt(Len(sizes) + 1)
    PROVE  LET res == Decompress(ctx, in, to, size)
           IN  Waits(res, ctx, in, to) \/ Proceeds(res, ctx, in, to, size, f)
  <1> DEFINE r == Decompress(ctx, in, to, size)
  <1>1. /\ HdrSize \in Nat /\ HdrSize >= 2 /\ Len(in) \in Nat /\ Len(in) > 0 /\ Len(sizes) \in Nat
        /\ FrameAt(f) \in Nat /\ SizeMax \in Nat /\ SizeMax > 6 + HdrSize
    BY StreamConstants, FrameSize, FramesFollow, LenProperties, EmptySeq
  <1>2. CASE ctx.bytes_in # 0
    <2>1. InFrame(ctx, f) /\ Decodes(ctx, f) /\ f \in 1 .. Len(sizes)
      <3>1. ctx # NewCtx
        BY <1>2 DEF NewCtx
      <3> QED
        BY <3>1 DEF InFrame, Decodes
    <2>2. r = GetData(ctx, in, to, size)
      BY <1>2 DEF Decompress
    <2>3. Gets(GetData(ctx, in, to, size), ctx, in, to, size, f)
      BY <2>1, GetDataGets
    <2> HIDE DEF r
    <2>4. Gets(r, ctx, in, to, size, f)
      BY <2>2, <2>3
    <2>5. PICK n \in 0 .. Len(in) :
             /\ r.in = Drop(n, in)
             /\ r.out = to \o Data(f, ctx.bytes_out, ctx.bytes_out + n)
             /\ Len(to) + n <= size
             /\ ctx.bytes_out + n <= sizes[f]
             /\ \/ r.ctx = NewCtx /\ ctx.bytes_out + n = sizes[f]
                \/ InFrame(r.ctx, f) /\ r.ctx.bytes_out = ctx.bytes_out + n
      BY <2>4 DEF Gets
    <2>6. n \in Nat /\ ctx.bytes_in + n = HdrSize + (ctx.bytes_out + n)
      BY <1>1, <2>1 DEF Decodes, Context
    <2>7. Proceeds(r, ctx, in, to, size, f)
      BY <2>1, <2>4, <2>5, <2>6 DEF Proceeds, Gets
    <2> QED
      BY <2>7 DEF r
  <1>3. CASE ctx.bytes_in = 0 /\ HdrSize > Len(in)
    <2>1. r = Outcome(ctx, in, to, COMPRESS_ERR_BUF)
      BY <1>3 DEF Decompress
    <2> HIDE DEF r
    <2>2. Waits(r, ctx, in, to)
      BY <2>1 DEF Waits, Outcome
    <2> QED
      BY <2>2 DEF r
  <1>4. CASE ctx.bytes_in = 0 /\ ~(HdrSize > Len(in))
    <2> DEFINE s == GetSize(in)
               begun == [srcsize |-> s, bytes_in |-> HdrSize, bytes_out |-> 0]
               rest == Drop(HdrSize, in)
    <2>1. ctx = NewCtx /\ ctx.bytes_out = 0
      <3>1. ~InFrame(ctx, f)
        BY <1>1, <1>4 DEF InFrame, Decodes, Context
      <3> QED
        BY <3>1 DEF NewCtx
    <2>2. FrameAt(f) + ctx.bytes_in = FrameAt(f)
      BY <1>1, <1>4
    <2>3. f \in 1 .. Len(sizes)
      <3>1. f # Len(sizes) + 1
        BY <1>1, <2>2
      <3> QED
        BY <1>1, <3>1
    <2>4. s \in Declared(f) /\ s # UNCOMPRESS_SIZE_ERROR /\ s \in Nat /\ s <= SizeMax
      <3>1. Len(in) >= HdrSize /\ Segment(in, FrameAt(f))
        BY <1>1, <1>4, <2>2
      <3>2. s \in Declared(f) /\ s # UNCOMPRESS_SIZE_ERROR
        BY <2>3, <3>1, GetSizeDeclared
      <3> HIDE DEF s
      <3> QED
        BY <2>3, <3>2, DeclaredSize
    <2>5. r = GetData(begun, rest, to, size)
      <3>1. [ctx EXCEPT !.srcsize = GetSize(in), !.bytes_in = HdrSize] = begun
        <4> HIDE DEF s
        <4> DEFINE sized == [srcsize |-> s, bytes_in |-> ctx.bytes_in, bytes_out |-> ctx.bytes_out]
        <4>1. [ctx EXCEPT !.srcsize = s] = sized
          BY DEF Context
        <4>2. [sized EXCEPT !.bytes_in = HdrSize]
                = [srcsize |-> s, bytes_in |-> HdrSize, bytes_out |-> ctx.bytes_out]
          OBVIOUS
        <4>3. [ctx EXCEPT !.srcsize = s, !.bytes_in = HdrSize]
                = [srcsize |-> s, bytes_in |-> HdrSize, bytes_out |-> ctx.bytes_out]
          BY <4>1, <4>2
        <4>4. [ctx EXCEPT !.srcsize = s, !.bytes_in = HdrSize] = begun
          BY <2>1, <4>3
        <4> QED
          BY <4>4 DEF s
      <3> QED
        BY <1>4, <2>4, <3>1 DEF Decompress
    <2> HIDE DEF s, r
    <2>6. begun \in Context /\ Decodes(begun, f) /\ begun.bytes_in = HdrSize /\ begun.bytes_out = 0
      <3>1. s \in 0 .. SizeMax /\ HdrSize \in 0 .. SizeMax /\ 0 \in 0 .. SizeMax
        BY <1>1, <2>4
      <3>2. begun \in Context
        BY <3>1 DEF Context
      <3>3. HdrSize = HdrSize + 0 /\ 0 <= sizes[f]
        BY <1>1, <2>3, FrameSize
      <3> QED
        BY <2>3, <2>4, <3>2, <3>3 DEF Decodes
    <2>7. HdrSize \in 0 .. Len(in) /\ rest \in Seq(Wire) /\ Len(rest) = Len(in) - HdrSize
      <3>1. HdrSize \in 0 .. Len(in)
        BY <1>1, <1>4
      <3> QED
        BY <3>1, TakeAndDrop
    <2>8. Segment(rest, FrameAt(f) + HdrSize)
      BY <1>1, <2>2, <2>7, SegmentDrop
    <2>9. FrameAt(f) + HdrSize + Len(rest) <= FrameAt(Len(sizes) + 1)
      <3> HIDE DEF rest
      <3>1. FrameAt(f) + HdrSize + Len(rest) = FrameAt(f) + ctx.bytes_in + Len(in)
        BY <1>1, <1>4, <2>7
      <3> QED
        BY <3>1
    <2>10. Gets(GetData(begun, rest, to, size), begun, rest, to, size, f)
      <3> HIDE DEF begun, rest
      <3> QED
        BY <2>6, <2>7, <2>8, <2>9, GetDataGets
    <2> HIDE DEF begun, rest
    <2>11. Gets(r, begun, rest, to, size, f)
      BY <2>5, <2>10
    <2>12. PICK n \in 0 .. Len(rest) :
             /\ r.in = Drop(n, rest)
             /\ r.out = to \o Data(f, ctx.bytes_out, ctx.bytes_out + n)
             /\ Len(to) + n <= size
             /\ ctx.bytes_out + n <= sizes[f]
             /\ \/ r.ctx = NewCtx /\ ctx.bytes_out + n = sizes[f]
                \/ InFrame(r.ctx, f) /\ r.ctx.bytes_out = ctx.bytes_out + n
      BY <2>1, <2>6, <2>11 DEF Gets
    <2>13. /\ n \in Nat /\ HdrSize + n \in 0 .. Len(in)
           /\ ctx.bytes_in + (HdrSize + n) = HdrSize + (ctx.bytes_out + n)
      BY <1>1, <1>4, <2>1, <2>7
    <2>14. r.in = Drop(HdrSize + n, in)
      <3>1. n \in 0 .. Len(in) - HdrSize
        BY <2>7
      <3>2. Drop(n, Drop(HdrSize, in)) = Drop(HdrSize + n, in)
        BY <2>7, <3>1, DropTwice
      <3> QED
        BY <2>12, <3>2 DEF rest
    <2>15. \E k \in 0 .. Len(in), m \in Nat :
             /\ r.in = Drop(k, in)
             /\ r.out = to \o Data(f, ctx.bytes_out, ctx.bytes_out + m)
             /\ Len(to) + m <= size
             /\ ctx.bytes_out + m <= sizes[f]
             /\ ctx.bytes_in + k = HdrSize + (ctx.bytes_out + m)
             /\ \/ r.ctx = NewCtx /\ ctx.bytes_out + m = sizes[f]
                \/ InFrame(r.ctx, f) /\ r.ctx.bytes_out = ctx.bytes_out + m
      BY <2>12, <2>13, <2>14
    <2>16. Proceeds(r, ctx, in, to, size, f)
      BY <2>3, <2>11, <2>15 DEF Proceeds, Gets
    <2> QED
      BY <2>16 DEF r
  <1> QED
    BY <1>2, <1>3, <1>4

----------------------------------------------------------------------------
(* The invariant, one action at a time.                                    *)
LEMMA StreamsInitInv == StreamsInit => StreamsInv
  <1> SUFFICES ASSUME StreamsInit PROVE StreamsInv
    OBVIOUS
  <1>1. /\ HdrSize \in Nat /\ SizeMax \in Nat /\ SizeMax > 6 + HdrSize /\ RecInSize \in Nat
        /\ RecInSize < SizeMax - 5 /\ Frames \in Nat
        /\ CinSize \in Nat /\ CoutSize \in Nat /\ DinSize \in Nat /\ DoutSize \in Nat
    BY StreamConstants
  <1>2. PICK n \in 1 .. Frames : sizes \in [1 .. n -> FrameSizes]
    BY DEF StreamsInit
  <1>3. sizes \in Seq(FrameSizes) /\ Len(sizes) = n /\ n \in Nat /\ n >= 1
    <2>1. n \in Nat /\ n >= 1
      BY <1>1
    <2> QED
      BY <1>2, <2>1
  <1>4. << >> \in Seq(Wire) /\ Len(<< >>) = 0 /\ << >> \o << >> = << >>
    BY EmptySeq, ConcatEmptySeq
  <1>5. NewCtx \in Context /\ NewCtx.bytes_in = 0 /\ NewCtx.bytes_out = 0
    BY <1>1 DEF NewCtx, Context, UNCOMPRESS_SIZE_UNKNOWN
  <1>6. StreamTypes
    <2>1. RecInSize \in 0 .. SizeMax /\ frame \in 0 .. Len(sizes)
      BY <1>1, <1>3 DEF StreamsInit
    <2>2. StreamsTypeOK
      <3>1. open \in BOOLEAN /\ cctx \in Context /\ dctx \in Context /\ dret \in 0 .. SizeMax
        BY <1>5, <2>1 DEF StreamsInit
      <3>2. /\ Len(cin) <= CinSize /\ Len(cout) <= CoutSize
            /\ Len(din) <= DinSize /\ Len(dout) <= DoutSize
        BY <1>1, <1>4 DEF StreamsInit
      <3> QED
        BY <2>1, <3>1, <3>2 DEF StreamsTypeOK
    <2> QED
      BY <1>3, <1>4, <2>2 DEF StreamsInit, StreamTypes
  <1>7. Encoding
    BY DEF StreamsInit, Encoding
  <1>8. HasFrames /\ 1 \in 1 .. Len(sizes) + 1
    BY <1>3 DEF HasFrames
  <1>9. Reaches(1)
    <2>1. DataBefore[1] = << >> /\ Data(1, 0, 0) = << >>
      <3>1. Data(1, 0, 0) \in Seq(Wire) /\ Len(Data(1, 0, 0)) = 0
        BY FirstData
      <3> QED
        BY <1>8, <3>1, DataRecurs, EmptySeq
    <2>2. decompressed = << >> /\ dctx = NewCtx
      BY <1>4 DEF StreamsInit, decompressed
    <2> QED
      BY <1>4, <1>5, <2>1, <2>2 DEF Reaches
  <1>10. transit = << >> /\ written = 0 /\ FrameAt(1) + dctx.bytes_in = 0
    BY <1>4, <1>5, <1>8, FramesFollow DEF StreamsInit, transit, written
  <1>11. Segment(transit, 0) /\ 0 + Len(transit) = 0
    BY <1>4, <1>10 DEF Segment
  <1>12. Decoding
    BY <1>4, <1>8, <1>9, <1>10, <1>11 DEF Decoding
  <1>13. NeverHeaderError
    BY <1>1 DEF StreamsInit, NeverHeaderError, COMPRESS_ERR_HDR
  <1> QED
    BY <1>6, <1>7, <1>12, <1>13 DEF StreamsInv

(* All buffers have bytes of the wire. *)
LEMMA TransitType ==
    ASSUME StreamTypes
    PROVE  /\ cin \in Seq(Wire) /\ cout \in Seq(Wire) /\ file \in Seq(Wire)
           /\ din \in Seq(Wire) /\ dout \in Seq(Wire) /\ received \in Seq(Wire)
           /\ Len(cin) \in Nat /\ Len(cout) \in Nat /\ Len(file) \in Nat
           /\ Len(din) \in Nat /\ Len(dout) \in Nat
           /\ file \o cout \in Seq(Wire) /\ transit \in Seq(Wire)
           /\ Len(transit) \in Nat /\ Len(din) <= Len(transit)
  <1>1. /\ cin \in Seq(Wire) /\ cout \in Seq(Wire) /\ file \in Seq(Wire)
        /\ din \in Seq(Wire) /\ dout \in Seq(Wire) /\ received \in Seq(Wire)
    BY DEF StreamTypes
  <1>2. /\ Len(cin) \in Nat /\ Len(cout) \in Nat /\ Len(file) \in Nat
        /\ Len(din) \in Nat /\ Len(dout) \in Nat
    BY <1>1, LenProperties
  <1>3. file \o cout \in Seq(Wire) /\ Len(file \o cout) \in Nat
    BY <1>1, ConcatProperties, LenProperties
  <1>4. transit \in Seq(Wire) /\ Len(transit) = Len(din) + Len(file \o cout)
    BY <1>1, <1>3, ConcatProperties DEF transit
  <1>5. Len(transit) \in Nat /\ Len(din) <= Len(transit)
    BY <1>2, <1>3, <1>4
  <1> QED
    BY <1>1, <1>2, <1>3, <1>4, <1>5

(* What is put into the output buffer comes last of what is on the way. *)
LEMMA MoreToTransit ==
    ASSUME StreamTypes, NEW t \in Seq(Wire)
    PROVE  din \o (file \o (cout \o t)) = transit \o t
  <1>1. /\ din \in Seq(Wire) /\ file \in Seq(Wire) /\ cout \in Seq(Wire) /\ t \in Seq(Wire)
    BY TransitType
  <1>2. Cat(file, Cat(cout, t)) = Cat(Cat(file, cout), t) /\ Cat(file, cout) \in Seq(Wire)
    BY <1>1, CatFacts
  <1>3. Cat(din, Cat(Cat(file, cout), t)) = Cat(Cat(din, Cat(file, cout)), t)
    BY <1>1, <1>2, CatFacts
  <1>4. Cat(din, Cat(file, Cat(cout, t))) = Cat(Cat(din, Cat(file, cout)), t)
    BY <1>2, <1>3
  <1> QED
    BY <1>4 DEF transit, Cat

(* The sender goes on: nothing changes for the receiver. *)
LEMMA SenderGoesOn ==
    ASSUME StreamsInv, sizes' = sizes, UNCHANGED receiver, NEW t \in Seq(Wire),
           transit' = transit \o t, Segment(t, written), written' = written + Len(t)
    PROVE  Decoding' /\ NeverHeaderError'
  <1>1. PICK f \in 1 .. Len(sizes) + 1 :
           /\ Reaches(f)
           /\ Segment(transit, FrameAt(f) + dctx.bytes_in)
           /\ FrameAt(f) + dctx.bytes_in + Len(transit) = written
    BY DEF StreamsInv, Decoding
  <1>2. HasFrames /\ StreamTypes
    BY DEF StreamsInv, StreamTypes, HasFrames
  <1>3. transit \in Seq(Wire) /\ Len(transit) \in Nat /\ Len(t) \in Nat
    BY <1>2, TransitType, LenProperties
  <1>4. FrameAt(f) + dctx.bytes_in \in Nat
    <2>1. FrameAt(f) \in Nat /\ dctx.bytes_in \in Nat
      BY <1>2, FramesFollow DEF StreamTypes, StreamsTypeOK, Context
    <2> QED
      BY <2>1
  <1>5. Segment(transit \o t, FrameAt(f) + dctx.bytes_in)
    BY <1>1, <1>3, <1>4, SegmentConcat
  <1>6. Len(transit \o t) = Len(transit) + Len(t)
    BY <1>3, ConcatProperties
  <1>7. FrameAt(f) + dctx.bytes_in + Len(transit \o t) = written + Len(t)
    BY <1>1, <1>3, <1>4, <1>6
  <1>8. dctx' = dctx /\ decompressed' = decompressed /\ dret' = dret
    BY DEF receiver, decompressed
  <1>9. Decoding'
    BY <1>1, <1>5, <1>7, <1>8, DecodingNext DEF Reaches
  <1>10. NeverHeaderError'
    BY <1>8 DEF StreamsInv, NeverHeaderError
  <1> QED
    BY <1>9, <1>10

(* Nothing is written meanwhile. *)
LEMMA NothingWritten ==
    ASSUME StreamsInv, sizes' = sizes, UNCHANGED receiver,
           transit' = transit, written' = written
    PROVE  Decoding' /\ NeverHeaderError'
  <1>1. << >> \in Seq(Wire) /\ Len(<< >>) = 0
    BY EmptySeq
  <1>2. transit \in Seq(Wire) /\ written \in Nat
    BY TransitType, WrittenType DEF StreamsInv
  <1>3. transit' = transit \o << >> /\ written' = written + Len(<< >>)
    BY <1>1, <1>2, ConcatEmptySeq
  <1>4. Segment(<< >>, written)
    BY <1>1 DEF Segment
  <1> QED
    BY <1>1, <1>3, <1>4, SenderGoesOn

(* Between two frames, all of those before is written. *)
LEMMA BetweenFrames ==
    ASSUME StreamsInv, ~open
    PROVE  /\ cin = << >> /\ frame + 1 \in 1 .. Len(sizes) + 1
           /\ written = FrameAt(frame + 1)
           /\ frame # 0 => place = sizes[frame]
  <1>1. HasFrames /\ StreamTypes /\ Encoding
    BY DEF StreamsInv, StreamTypes, HasFrames
  <1>2. /\ HdrSize \in Nat /\ Len(sizes) \in Nat /\ frame \in 0 .. Len(sizes) /\ Len(<< >>) = 0
        /\ frame + 1 \in 1 .. Len(sizes) + 1
    <2>1. HdrSize \in Nat /\ Len(sizes) \in Nat /\ frame \in 0 .. Len(sizes) /\ Len(<< >>) = 0
      BY <1>1, StreamConstants, FrameSize, EmptySeq DEF StreamTypes, StreamsTypeOK
    <2> QED
      BY <2>1
  <1>3. CASE frame = 0
    <2>1. cin = << >> /\ written = 0
      BY <1>1, <1>3, WrittenType DEF Encoding
    <2>2. FrameAt(frame + 1) = 0
      BY <1>1, <1>3, FramesFollow
    <2> QED
      BY <1>2, <1>3, <2>1, <2>2
  <1>4. CASE frame # 0
    <2>1. frame \in 1 .. Len(sizes)
      BY <1>2, <1>4
    <2>2. /\ cin = << >> /\ place = sizes[frame] /\ cctx.bytes_out # 0
          /\ cctx.bytes_out = HdrSize + place - Len(cin)
      BY <1>1, <1>4 DEF Encoding, Encodes, Accepted
    <2>3. FrameAt(frame) \in Nat /\ sizes[frame] \in Nat
      <3>1. frame \in 1 .. Len(sizes) + 1
        BY <1>2, <2>1
      <3> QED
        BY <1>1, <2>1, <3>1, FrameSize, FramesFollow
    <2>4. cctx.bytes_out = HdrSize + sizes[frame]
      BY <1>2, <2>2, <2>3
    <2>5. written = FrameAt(frame) + HdrSize + sizes[frame]
      BY <1>2, <1>4, <2>3, <2>4 DEF written
    <2>6. FrameAt(frame + 1) = FrameAt(frame) + HdrSize + sizes[frame]
      BY <1>1, <2>1, FramesFollow
    <2> QED
      BY <1>2, <2>2, <2>5, <2>6
  <1> QED
    BY <1>3, <1>4

(* The context of a frame that begins *)
LEMMA FreshContext ==
    ASSUME HasFrames, NEW f \in 1 .. Len(sizes)
    PROVE  /\ SetSize(NewCtx, sizes[f]) = [srcsize |-> sizes[f], bytes_in |-> 0, bytes_out |-> 0]
           /\ SetSize(NewCtx, sizes[f]) \in Context /\ NewCtx \in Context
           /\ NewCtx.bytes_in = 0 /\ NewCtx.bytes_out = 0
           /\ NewCtx.srcsize = UNCOMPRESS_SIZE_UNKNOWN
           /\ sizes[f] \in Declared(f)
           /\ f = Len(sizes) => UNCOMPRESS_SIZE_UNKNOWN \in Declared(f)
  <1>1. /\ sizes[f] \in Nat /\ sizes[f] < SizeMax - 2 /\ SizeMax \in Nat
        /\ SizeMax > 6 + HdrSize /\ HdrSize \in Nat
    BY FrameSize, StreamConstants
  <1>2. NewCtx.bytes_out = 0 /\ NewCtx.bytes_in = 0 /\ NewCtx.srcsize = UNCOMPRESS_SIZE_UNKNOWN
    BY DEF NewCtx
  <1>3. ~(sizes[f] >= UNCOMPRESS_SIZE_MAX)
    BY <1>1 DEF UNCOMPRESS_SIZE_MAX
  <1>4. SetSize(NewCtx, sizes[f]) = [NewCtx EXCEPT !.srcsize = sizes[f]]
    BY <1>2, <1>3 DEF SetSize
  <1>5. [NewCtx EXCEPT !.srcsize = sizes[f]]
          = [srcsize |-> sizes[f], bytes_in |-> 0, bytes_out |-> 0]
    BY DEF NewCtx
  <1>6. 0 \in 0 .. SizeMax /\ sizes[f] \in 0 .. SizeMax /\ SizeMax \in 0 .. SizeMax
    BY <1>1
  <1>7. SetSize(NewCtx, sizes[f]) \in Context
    BY <1>4, <1>5, <1>6 DEF Context
  <1>8. NewCtx \in Context
    BY <1>6 DEF NewCtx, Context, UNCOMPRESS_SIZE_UNKNOWN
  <1>9. sizes[f] \in Declared(f) /\ (f = Len(sizes) => UNCOMPRESS_SIZE_UNKNOWN \in Declared(f))
    BY DEF Declared
  <1> QED
    BY <1>2, <1>4, <1>5, <1>7, <1>8, <1>9

(* The parts of the invariant *)
LEMMA InvParts ==
    ASSUME StreamsInv
    PROVE  /\ HasFrames /\ StreamTypes /\ StreamsTypeOK /\ Encoding
           /\ Len(sizes) \in Nat /\ frame \in 0 .. Len(sizes) /\ place \in Nat
           /\ cctx \in Context /\ dctx \in Context
           /\ Len(cin) <= CinSize /\ Len(cout) <= CoutSize
           /\ Len(din) <= DinSize /\ Len(dout) <= DoutSize
           /\ dret \in 0 .. SizeMax
           /\ open => frame \in 1 .. Len(sizes) /\ Encodes(cctx, cin, frame, place)
  <1>1. HasFrames /\ StreamTypes /\ Encoding /\ StreamsTypeOK
    BY DEF StreamsInv, StreamTypes, HasFrames
  <1>2. Len(sizes) \in Nat
    BY <1>1, FrameSize
  <1>3. /\ frame \in 0 .. Len(sizes) /\ place \in Nat
        /\ cctx \in Context /\ dctx \in Context
        /\ Len(cin) <= CinSize /\ Len(cout) <= CoutSize
        /\ Len(din) <= DinSize /\ Len(dout) <= DoutSize
        /\ dret \in 0 .. SizeMax
    BY <1>1 DEF StreamTypes, StreamsTypeOK
  <1>4. open => frame \in 1 .. Len(sizes) /\ Encodes(cctx, cin, frame, place)
    <2> SUFFICES ASSUME open PROVE frame \in 1 .. Len(sizes) /\ Encodes(cctx, cin, frame, place)
      OBVIOUS
    <2>1. frame # 0 /\ Encodes(cctx, cin, frame, place)
      BY <1>1 DEF Encoding
    <2> QED
      BY <1>2, <1>3, <2>1
  <1> QED
    BY <1>1, <1>2, <1>3, <1>4

(* A frame that begins has nothing written. *)
LEMMA StartFrameInv == ASSUME ~Reuse, StreamsInv, StartFrame PROVE StreamsInv'
  <1> DEFINE g == frame + 1
  <1>1. HasFrames /\ StreamTypes /\ StreamsTypeOK /\ Len(sizes) \in Nat /\ frame \in 0 .. Len(sizes)
    BY InvParts
  <1>2. /\ ~open /\ frame < Len(sizes) /\ frame' = g /\ place' = 0 /\ open' = TRUE
        /\ \/ cctx' = SetSize(NewCtx, sizes[g])
           \/ g = Len(sizes) /\ cctx' = NewCtx
        /\ sizes' = sizes /\ cin' = cin /\ cout' = cout /\ file' = file /\ receiver' = receiver
    BY DEF StartFrame, NextFrame, Stream
  <1>3. g \in 1 .. Len(sizes) /\ frame' # 0 /\ cin = << >> /\ written = FrameAt(g)
    BY <1>1, <1>2, BetweenFrames
  <1> HIDE DEF g
  <1>4. /\ cctx' \in Context /\ cctx'.bytes_in = 0 /\ cctx'.bytes_out = 0
        /\ cctx'.srcsize \in Declared(g)
    <2>1. /\ SetSize(NewCtx, sizes[g]) = [srcsize |-> sizes[g], bytes_in |-> 0, bytes_out |-> 0]
          /\ SetSize(NewCtx, sizes[g]) \in Context /\ NewCtx \in Context
          /\ NewCtx.bytes_in = 0 /\ NewCtx.bytes_out = 0
          /\ NewCtx.srcsize = UNCOMPRESS_SIZE_UNKNOWN
          /\ sizes[g] \in Declared(g)
          /\ g = Len(sizes) => UNCOMPRESS_SIZE_UNKNOWN \in Declared(g)
      BY <1>1, <1>3, FreshContext
    <2>2. CASE cctx' = SetSize(NewCtx, sizes[g])
      BY <2>1, <2>2
    <2>3. CASE g = Len(sizes) /\ cctx' = NewCtx
      BY <2>1, <2>3
    <2> QED
      BY <1>2, <2>2, <2>3
  <1>5. StreamTypes'
    <2>1. frame' \in 0 .. Len(sizes') /\ open' \in BOOLEAN
      BY <1>1, <1>2, <1>3
    <2> QED
      BY <1>1, <1>2, <1>4, <2>1 DEF StreamTypes, StreamsTypeOK, receiver
  <1>6. Encoding'
    <2>1. Len(<< >>) = 0 /\ 0 <= sizes[g] /\ 0 - 0 = 0
      BY <1>1, <1>3, FrameSize, EmptySeq
    <2>2. Encodes(cctx', << >>, g, 0)
      <3> DEFINE e == << >>
      <3>1. Len(e) = 0 /\ \A k \in 1 .. Len(e) : e[k] = DataByte(g, 0 - Len(e) + k)
        BY <2>1
      <3> HIDE DEF e
      <3>2. 0 <= sizes[g] /\ Len(e) <= 0 /\ cctx'.bytes_in = 0 - Len(e) /\ Len(e) = 0
        BY <1>4, <2>1, <3>1
      <3>3. Encodes(cctx', e, g, 0)
        BY <1>4, <3>1, <3>2 DEF Encodes
      <3> QED
        BY <3>3 DEF e
    <2>3. cin' = << >> /\ frame' = g /\ place' = 0
      BY <1>2, <1>3
    <2>4. Encodes(cctx', cin', frame', place')
      BY <2>2, <2>3
    <2> QED
      BY <1>2, <1>3, <2>4, EncodingNext
  <1>7. transit' = transit /\ written' = written
    <2>1. transit' = transit
      BY <1>2 DEF transit, receiver
    <2>2. FrameAt(frame)' = FrameAt(g)
      BY <1>2, SameFrames DEF FrameAt
    <2>3. FrameAt(g) \in Nat
      <3>1. g \in 1 .. Len(sizes) + 1
        BY <1>1, <1>3
      <3> QED
        BY <1>1, <3>1, FramesFollow
    <2>4. written' = FrameAt(g) + 0
      BY <1>3, <1>4, <2>2 DEF written
    <2> QED
      BY <1>3, <2>1, <2>3, <2>4
  <1> QED
    BY <1>2, <1>5, <1>6, <1>7, NothingWritten DEF StreamsInv

(* What the sender fills in is the next of its frame. *)
LEMMA FillInv == ASSUME StreamsInv, Fill PROVE StreamsInv'
  <1>1. /\ HasFrames /\ StreamTypes /\ StreamsTypeOK
        /\ Len(sizes) \in Nat /\ place \in Nat /\ Len(cin) <= CinSize
    BY InvParts
  <1>2. PICK n \in 1 .. MIN(CinSize - Len(cin), sizes[frame] - place) :
           cin' = cin \o Data(frame, place, place + n) /\ place' = place + n
    BY DEF Fill
  <1>3. /\ open /\ open' = open /\ sizes' = sizes /\ frame' = frame /\ cctx' = cctx
        /\ cout' = cout /\ file' = file /\ receiver' = receiver
    BY DEF Fill
  <1>4. /\ frame \in 1 .. Len(sizes) /\ frame # 0
        /\ place <= sizes[frame] /\ Len(cin) <= place
        /\ \A k \in 1 .. Len(cin) : cin[k] = DataByte(frame, place - Len(cin) + k)
        /\ cctx.srcsize \in Declared(frame)
        /\ cctx.bytes_in = place - Len(cin)
        /\ \/ cctx.bytes_out = 0 /\ Len(cin) = place
           \/ cctx.bytes_out = HdrSize + place - Len(cin)
    <2>1. frame \in 1 .. Len(sizes) /\ Encodes(cctx, cin, frame, place)
      BY <1>3, InvParts
    <2> QED
      BY <1>1, <2>1 DEF Encodes
  <1>5. sizes[frame] \in Nat /\ HdrSize \in Nat /\ CinSize \in Nat /\ Len(cin) \in Nat
        /\ cin \in Seq(Wire) /\ frame \in Nat
    BY <1>1, <1>4, FrameSize, StreamConstants, TransitType
  <1>6. n \in Nat /\ n <= CinSize - Len(cin) /\ n <= sizes[frame] - place /\ place + n \in Nat
    BY <1>1, <1>5 DEF MIN
  <1> DEFINE e == place + n
             s == Data(frame, place, e)
  <1>7. e \in Nat /\ place <= e /\ e - place = n
    BY <1>1, <1>6
  <1> HIDE DEF e
  <1>8. s \in Seq(Wire) /\ Len(s) = n /\ \A k \in 1 .. n : s[k] = DataByte(frame, place + k)
    <2>1. s \in Seq(Wire) /\ Len(s) = e - place
          /\ \A k \in 1 .. e - place : s[k] = DataByte(frame, place + k)
      BY <1>1, <1>5, <1>7, DataType
    <2> HIDE DEF s
    <2> QED
      BY <1>7, <2>1
  <1>9. cin' = cin \o s /\ place' = e
    BY <1>2 DEF e
  <1> HIDE DEF s
  <1>10. /\ cin' \in Seq(Wire) /\ Len(cin') = Len(cin) + n
         /\ \A k \in 1 .. Len(cin) + n :
               cin'[k] = IF k <= Len(cin) THEN cin[k] ELSE s[k - Len(cin)]
    BY <1>5, <1>8, <1>9, ConcatProperties
  <1>11. StreamTypes'
    <2>1. Len(cin') <= CinSize
      BY <1>5, <1>6, <1>10
    <2> QED
      BY <1>1, <1>3, <1>7, <1>9, <1>10, <2>1 DEF StreamTypes, StreamsTypeOK, receiver
  <1>12. Encoding'
    <2>1. /\ e <= sizes[frame] /\ Len(cin') <= e /\ e - Len(cin') = place - Len(cin)
          /\ HdrSize + e - Len(cin') = HdrSize + place - Len(cin)
          /\ Len(cin) = place => Len(cin') = e
      <3> DEFINE a == Len(cin)
                 b == Len(cin')
      <3>1. /\ a \in Nat /\ b = a + n /\ a <= place /\ n \in Nat /\ place \in Nat /\ e \in Nat
            /\ n <= sizes[frame] - place /\ sizes[frame] \in Nat /\ HdrSize \in Nat
            /\ e = place + n
        BY <1>1, <1>4, <1>5, <1>6, <1>7, <1>10 DEF e
      <3> HIDE DEF a, b
      <3>2. /\ e <= sizes[frame] /\ b <= e /\ e - b = place - a
            /\ HdrSize + e - b = HdrSize + place - a
            /\ a = place => b = e
        BY <3>1
      <3> QED
        BY <3>2 DEF a, b
    <2>2. ASSUME NEW k \in 1 .. Len(cin') PROVE cin'[k] = DataByte(frame, e - Len(cin') + k)
      <3>1. CASE k <= Len(cin)
        BY <1>4, <1>5, <1>6, <1>10, <2>1, <3>1
      <3>2. CASE ~(k <= Len(cin))
        <4>1. k - Len(cin) \in 1 .. n /\ place + (k - Len(cin)) = e - Len(cin') + k
          <5> DEFINE a == Len(cin)
                     b == Len(cin')
          <5>1. /\ a \in Nat /\ n \in Nat /\ place \in Nat /\ b = a + n /\ k \in 1 .. b
                /\ ~(k <= a) /\ e = place + n
            BY <1>1, <1>5, <1>6, <1>10, <3>2 DEF e
          <5> HIDE DEF a, b
          <5>2. k - a \in 1 .. n /\ place + (k - a) = e - b + k
            BY <5>1
          <5> QED
            BY <5>2 DEF a, b
        <4>2. cin'[k] = s[k - Len(cin)]
          BY <1>10, <3>2
        <4> QED
          BY <1>8, <4>1, <4>2
      <3> QED
        BY <3>1, <3>2
    <2>3. Encodes(cctx', cin', frame', place')
      BY <1>3, <1>4, <1>9, <2>1, <2>2 DEF Encodes
    <2> QED
      BY <1>3, <1>4, <2>3, EncodingNext
  <1>13. transit' = transit /\ written' = written
    <2>1. transit' = transit
      BY <1>3 DEF transit, receiver
    <2>2. FrameAt(frame)' = FrameAt(frame)
      BY <1>3, SameFrames DEF FrameAt
    <2> QED
      BY <1>3, <2>1, <2>2 DEF written
  <1> QED
    BY <1>3, <1>11, <1>12, <1>13, NothingWritten DEF StreamsInv

(* What cstream_compress() writes goes on with what was written. *)
LEMMA CompressMoreInv == ASSUME StreamsInv, CompressMore PROVE StreamsInv'
  <1> DEFINE c == Compress(cctx, cin, cout, CoutSize)
  <1>1. /\ HasFrames /\ StreamTypes /\ StreamsTypeOK /\ cctx \in Context
        /\ Len(sizes) \in Nat /\ place \in Nat /\ Len(cin) <= CinSize /\ Len(cout) <= CoutSize
        /\ CoutSize \in Nat /\ CinSize \in Nat
    BY InvParts, StreamConstants
  <1>2. /\ open /\ open' = open /\ cctx' = c.ctx /\ cin' = c.in /\ cout' = c.out
        /\ sizes' = sizes /\ frame' = frame /\ place' = place /\ file' = file
        /\ receiver' = receiver
    BY DEF CompressMore
  <1>3. frame \in 1 .. Len(sizes) /\ frame # 0 /\ Encodes(cctx, cin, frame, place)
    <2>1. frame \in 1 .. Len(sizes) /\ Encodes(cctx, cin, frame, place)
      BY <1>2, InvParts
    <2> QED
      BY <1>1, <2>1
  <1>4. cin \in Seq(Wire) /\ cout \in Seq(Wire) /\ file \in Seq(Wire) /\ din \in Seq(Wire)
        /\ Len(cin) \in Nat
    BY <1>1, TransitType
  <1>5. GoesOn(c, cctx, cin, cout, CoutSize, frame, place)
    BY <1>1, <1>3, <1>4, CompressGoesOn
  <1> HIDE DEF c
  <1>6. /\ cctx' \in Context /\ cin' \in Seq(Wire) /\ Len(cin') <= Len(cin)
        /\ Encodes(cctx', cin', frame', place')
    BY <1>2, <1>5 DEF GoesOn
  <1>7. PICK t \in Seq(Wire) :
           /\ cout' = cout \o t /\ Len(cout) + Len(t) <= CoutSize
           /\ cctx'.bytes_out = cctx.bytes_out + Len(t)
           /\ Segment(t, FrameAt(frame) + cctx.bytes_out)
    BY <1>2, <1>5 DEF GoesOn
  <1>8. cout' \in Seq(Wire) /\ Len(cout') <= CoutSize
    BY <1>4, <1>7, ConcatProperties
  <1>9. StreamTypes'
    <2>1. Len(cin') <= CinSize
      <3>1. Len(cin') \in Nat
        BY <1>6, LenProperties
      <3> QED
        BY <1>1, <1>4, <1>6, <3>1
    <2> QED
      BY <1>1, <1>2, <1>6, <1>8, <2>1 DEF StreamTypes, StreamsTypeOK, receiver
  <1>10. Encoding'
    BY <1>2, <1>3, <1>6, EncodingNext
  <1>11. transit' = transit \o t
    <2>1. din \o (file \o (cout \o t)) = (din \o (file \o cout)) \o t
      BY <1>1, MoreToTransit DEF transit
    <2>2. din' = din /\ file' = file
      BY <1>2 DEF receiver
    <2> QED
      BY <1>7, <2>1, <2>2 DEF transit
  <1>12. Segment(t, written) /\ written' = written + Len(t)
    <2>1. FrameAt(frame)' = FrameAt(frame)
      BY <1>2, SameFrames DEF FrameAt
    <2>2. written = FrameAt(frame) + cctx.bytes_out
      BY <1>3 DEF written
    <2>3. written' = FrameAt(frame) + (cctx.bytes_out + Len(t))
      BY <1>2, <1>3, <1>7, <2>1 DEF written
    <2>4. FrameAt(frame) \in Nat /\ cctx.bytes_out \in Nat /\ Len(t) \in Nat
      <3>1. frame \in 1 .. Len(sizes) + 1
        BY <1>1, <1>3
      <3> QED
        BY <1>1, <3>1, FramesFollow, LenProperties DEF Context
    <2> QED
      BY <1>7, <2>2, <2>3, <2>4
  <1> QED
    BY <1>2, <1>9, <1>10, <1>11, <1>12, SenderGoesOn DEF StreamsInv

(* cstream_compress1() declares the size of the frame: nothing is skipped. *)
LEMMA CompressAtOnceInv ==
    ASSUME ~Reuse, Skips \subseteq {0}, StreamsInv, CompressAtOnce
    PROVE  StreamsInv'
  <1> DEFINE g == frame + 1
             size == sizes[g]
             s == Data(g, 0, size)
             ctx == SetSize(NewCtx, size)
             c == Compress(ctx, s, cout, CoutSize)
  <1>1. /\ HasFrames /\ StreamTypes /\ StreamsTypeOK
        /\ Len(sizes) \in Nat /\ frame \in 0 .. Len(sizes) /\ Len(cout) <= CoutSize
        /\ CoutSize \in Nat /\ CinSize \in Nat /\ HdrSize \in Nat
    BY InvParts, StreamConstants
  <1>2. ~open /\ frame < Len(sizes) /\ frame' = g
    BY DEF CompressAtOnce, NextFrame
  <1>3. /\ g \in 1 .. Len(sizes) /\ g \in 1 .. Len(sizes) + 1 /\ g \in Nat /\ frame' # 0
        /\ written = FrameAt(g) /\ FrameAt(g) \in Nat
    <2>1. g \in 1 .. Len(sizes) /\ g \in 1 .. Len(sizes) + 1 /\ g \in Nat /\ frame' # 0
      BY <1>1, <1>2
    <2> QED
      BY <1>1, <1>2, <2>1, BetweenFrames, FramesFollow
  <1>4. size \in Nat /\ size <= CinSize /\ place' = size
    BY <1>1, <1>2, <1>3, FrameSize DEF CompressAtOnce
  <1>5. s \in Seq(Wire) /\ Len(s) = size /\ \A k \in 1 .. size - 0 : s[k] = DataByte(g, 0 + k)
    <2>1. g \in Nat /\ 0 \in Nat /\ 0 <= size
      BY <1>3, <1>4
    <2>2. s \in Seq(Wire) /\ Len(s) = size - 0 /\ \A k \in 1 .. size - 0 : s[k] = DataByte(g, 0 + k)
      <3> HIDE DEF g, size
      <3> QED
        BY <1>4, <2>1, DataType
    <2> QED
      BY <1>4, <2>2
  <1>6. /\ cctx' = c.ctx /\ cin' = c.in /\ cout' = c.out /\ open' = ~Accepted(c.ctx, c.in)
        /\ sizes' = sizes /\ file' = file /\ receiver' = receiver
    <2>1. PICK skipped \in Skips :
             LET res == Compress1(NewCtx, skipped, Data(g, 0, size), cout, CoutSize)
             IN  /\ cctx' = res.ctx /\ cin' = res.in /\ cout' = res.out
                 /\ open' = ~Accepted(res.ctx, res.in)
      <3> HIDE DEF g
      <3> QED
        BY <1>2, <1>4 DEF CompressAtOnce, Stream, size
    <2>2. skipped + Len(s) = size
      BY <1>4, <1>5
    <2>3. Compress1(NewCtx, skipped, s, cout, CoutSize)
             = Outcome(c.ctx, c.in, c.out, Len(c.out))
      <3> HIDE DEF s, size
      <3> QED
        BY <2>2 DEF Compress1, End
    <2> HIDE DEF c
    <2> QED
      BY <2>1, <2>3 DEF Outcome, CompressAtOnce, s
  <1>7. /\ ctx \in Context /\ ctx.bytes_in = 0 /\ ctx.bytes_out = 0
        /\ ctx.srcsize = size /\ ctx.srcsize \in Declared(g)
    <2> HIDE DEF g
    <2>1. /\ SetSize(NewCtx, sizes[g]) = [srcsize |-> sizes[g], bytes_in |-> 0, bytes_out |-> 0]
          /\ SetSize(NewCtx, sizes[g]) \in Context /\ sizes[g] \in Declared(g)
      BY <1>1, <1>3, FreshContext
    <2> QED
      BY <2>1
  <1> HIDE DEF g, size, s, ctx, c
  <1>8. Encodes(ctx, s, g, size)
    <2>1. size <= sizes[g] /\ Len(s) <= size /\ size - Len(s) = 0
      BY <1>4, <1>5 DEF size
    <2>2. ASSUME NEW k \in 1 .. Len(s) PROVE s[k] = DataByte(g, size - Len(s) + k)
      <3>1. k \in 1 .. size - 0 /\ 0 + k = size - Len(s) + k
        BY <1>4, <1>5
      <3> QED
        BY <1>5, <3>1
    <2> QED
      BY <1>5, <1>7, <2>1, <2>2 DEF Encodes
  <1>9. cout \in Seq(Wire)
    BY <1>1, TransitType
  <1>10. GoesOn(c, ctx, s, cout, CoutSize, g, size)
    BY <1>1, <1>3, <1>4, <1>5, <1>7, <1>8, <1>9, CompressGoesOn DEF c
  <1>11. /\ cctx' \in Context /\ cin' \in Seq(Wire) /\ Len(cin') <= size
         /\ Encodes(cctx', cin', frame', place')
    BY <1>2, <1>4, <1>5, <1>6, <1>10 DEF GoesOn
  <1>12. PICK t \in Seq(Wire) :
           /\ cout' = cout \o t /\ Len(cout) + Len(t) <= CoutSize
           /\ cctx'.bytes_out = ctx.bytes_out + Len(t)
           /\ Segment(t, FrameAt(g) + ctx.bytes_out)
    BY <1>6, <1>10 DEF GoesOn
  <1>13. StreamTypes'
    <2>1. Len(cin') <= CinSize
      <3>1. Len(cin') \in Nat
        BY <1>11, LenProperties
      <3> QED
        BY <1>1, <1>4, <1>11, <3>1
    <2>2. cout' \in Seq(Wire) /\ Len(cout') <= CoutSize
      BY <1>9, <1>12, ConcatProperties
    <2>3. frame' \in 0 .. Len(sizes') /\ open' \in BOOLEAN
      <3>1. frame' \in 0 .. Len(sizes')
        BY <1>1, <1>2, <1>3, <1>6
      <3>2. open' \in BOOLEAN
        BY <1>6
      <3> QED
        BY <3>1, <3>2
    <2> QED
      BY <1>1, <1>4, <1>6, <1>11, <2>1, <2>2, <2>3 DEF StreamTypes, StreamsTypeOK, receiver
  <1>14. Encoding'
    <2>1. ~open' => place' = sizes[frame'] /\ Accepted(cctx', cin')
      BY <1>2, <1>4, <1>6 DEF size
    <2> QED
      BY <1>3, <1>6, <1>11, <2>1, EncodingNext
  <1>15. transit' = transit \o t
    BY <1>1, <1>6, <1>12, MoreToTransit DEF transit, receiver
  <1>16. Segment(t, written) /\ written' = written + Len(t)
    <2>1. FrameAt(frame)' = FrameAt(g)
      BY <1>2, <1>6, SameFrames DEF FrameAt
    <2>2. Len(t) \in Nat /\ FrameAt(g) + ctx.bytes_out = FrameAt(g)
      BY <1>3, <1>7, LenProperties
    <2>3. cctx'.bytes_out = Len(t)
      BY <1>7, <1>12, <2>2
    <2>4. written' = FrameAt(g) + Len(t)
      BY <1>3, <2>1, <2>3 DEF written
    <2> QED
      BY <1>3, <1>12, <2>2, <2>4
  <1> QED
    BY <1>6, <1>13, <1>14, <1>15, <1>16, SenderGoesOn DEF StreamsInv

(* A frame ends when all of it is in the output. *)
LEMMA EndFrameInv == ASSUME StreamsInv, EndFrame PROVE StreamsInv'
  <1>1. HasFrames /\ StreamTypes /\ StreamsTypeOK /\ Len(sizes) \in Nat /\ frame \in 0 .. Len(sizes)
    BY InvParts
  <1>2. /\ open /\ place = sizes[frame] /\ Accepted(cctx, cin) /\ open' = FALSE
        /\ cctx' = cctx /\ sizes' = sizes /\ frame' = frame /\ place' = place
        /\ cin' = cin /\ cout' = cout /\ file' = file /\ receiver' = receiver
    BY DEF EndFrame, End
  <1>3. frame # 0 /\ Encodes(cctx, cin, frame, place)
    <2>1. frame \in 1 .. Len(sizes) /\ Encodes(cctx, cin, frame, place)
      BY <1>2, InvParts
    <2> QED
      BY <1>1, <2>1
  <1>4. StreamTypes'
    BY <1>1, <1>2 DEF StreamTypes, StreamsTypeOK, receiver
  <1>5. Encoding'
    BY <1>2, <1>3, EncodingNext
  <1>6. transit' = transit /\ written' = written
    <2>1. FrameAt(frame)' = FrameAt(frame)
      BY <1>2, SameFrames DEF FrameAt
    <2> QED
      BY <1>2, <2>1 DEF transit, receiver, written
  <1> QED
    BY <1>2, <1>4, <1>5, <1>6, NothingWritten DEF StreamsInv

(* Writing the output buffer changes nothing of what is on the way. *)
LEMMA WriteOutInv == ASSUME StreamsInv, WriteOut PROVE StreamsInv'
  <1>1. HasFrames /\ StreamTypes /\ StreamsTypeOK /\ Encoding
    BY InvParts
  <1>2. /\ file' = file \o cout /\ cout' = << >> /\ sender' = sender /\ receiver' = receiver
        /\ sizes' = sizes /\ frame' = frame /\ place' = place /\ open' = open
        /\ cctx' = cctx /\ cin' = cin
    BY DEF WriteOut, sender
  <1>3. file \in Seq(Wire) /\ cout \in Seq(Wire) /\ file \o cout \in Seq(Wire)
    BY <1>1, TransitType
  <1>4. << >> \in Seq(Wire) /\ Len(<< >>) = 0 /\ Len(<< >>) <= CoutSize
    BY EmptySeq, StreamConstants
  <1>5. StreamTypes'
    BY <1>1, <1>2, <1>3, <1>4 DEF StreamTypes, StreamsTypeOK, receiver
  <1>6. Encoding'
    BY <1>1, <1>2, EncodingSame
  <1>7. transit' = transit /\ written' = written
    <2>1. (file \o cout) \o << >> = file \o cout
      BY <1>3, ConcatEmptySeq
    <2>2. transit' = transit
      BY <1>2, <2>1 DEF transit, receiver
    <2>3. FrameAt(frame)' = FrameAt(frame)
      BY <1>2, SameFrames DEF FrameAt
    <2> QED
      BY <1>2, <2>2, <2>3 DEF written
  <1> QED
    BY <1>2, <1>5, <1>6, <1>7, NothingWritten DEF StreamsInv

(* The receiver's steps. *)
LEMMA StaysInStep ==
    ASSUME StreamsInv, sizes' = sizes, dctx' = dctx, decompressed' = decompressed,
           transit' = transit, written' = written
    PROVE  Decoding'
  <1>1. PICK f \in 1 .. Len(sizes) + 1 :
           /\ Reaches(f)
           /\ Segment(transit, FrameAt(f) + dctx.bytes_in)
           /\ FrameAt(f) + dctx.bytes_in + Len(transit) = written
    BY DEF StreamsInv, Decoding
  <1> QED
    BY <1>1, DecodingNext DEF Reaches

(* The receiver does not write. *)
LEMMA WrittenSame == ASSUME UNCHANGED sender PROVE written' = written
  <1>1. sizes' = sizes /\ frame' = frame /\ cctx' = cctx
    BY DEF sender
  <1>2. FrameAt(frame)' = FrameAt(frame)
    BY <1>1, SameFrames DEF FrameAt
  <1> QED
    BY <1>1, <1>2 DEF written

(* What is read moves from the file to the input buffer. *)
LEMMA FileToDin ==
    ASSUME StreamTypes, NEW s \in Seq(Wire), NEW t \in Seq(Wire)
    PROVE  (din \o s) \o (t \o cout) = din \o ((s \o t) \o cout)
  <1>1. din \in Seq(Wire) /\ cout \in Seq(Wire)
    BY TransitType
  <1>2. Cat(Cat(s, t), cout) = Cat(s, Cat(t, cout)) /\ Cat(t, cout) \in Seq(Wire)
    BY <1>1, CatFacts
  <1>3. Cat(Cat(din, s), Cat(t, cout)) = Cat(din, Cat(s, Cat(t, cout)))
    BY <1>1, <1>2, CatFacts
  <1>4. Cat(Cat(din, s), Cat(t, cout)) = Cat(din, Cat(Cat(s, t), cout))
    BY <1>2, <1>3
  <1> QED
    BY <1>4 DEF Cat

(* What is put into the output buffer comes last of what is decompressed, *)
LEMMA MoreDecompressed ==
    ASSUME StreamTypes, NEW s \in Seq(Wire)
    PROVE  received \o (dout \o s) = decompressed \o s
  <1>1. received \in Seq(Wire) /\ dout \in Seq(Wire)
    BY TransitType
  <1>2. Cat(received, Cat(dout, s)) = Cat(Cat(received, dout), s)
    BY <1>1, CatFacts
  <1> QED
    BY <1>2 DEF decompressed, Cat

(* and the next data of a frame goes on with those before. *)
LEMMA MoreOfFrame ==
    ASSUME NEW f \in Nat, NEW b \in Nat, NEW e \in Nat, b <= e, NEW s \in Seq(Wire)
    PROVE  (s \o Data(f, 0, b)) \o Data(f, b, e) = s \o Data(f, 0, e)
  <1>1. 0 \in Nat /\ 0 <= b
    OBVIOUS
  <1>2. Data(f, 0, b) \in Seq(Wire) /\ Data(f, b, e) \in Seq(Wire)
    BY FirstData, DataType
  <1>3. Data(f, 0, b) \o Data(f, b, e) = Data(f, 0, e)
    BY <1>1, DataConcat
  <1>4. Cat(Cat(s, Data(f, 0, b)), Data(f, b, e)) = Cat(s, Cat(Data(f, 0, b), Data(f, b, e)))
    BY <1>2, CatFacts
  <1> QED
    BY <1>3, <1>4 DEF Cat

(* Reading changes nothing of what is on the way. *)
LEMMA ReadInInv == ASSUME StreamsInv, ReadIn PROVE StreamsInv'
  <1>1. /\ HasFrames /\ StreamTypes /\ StreamsTypeOK /\ Encoding
        /\ Len(din) <= DinSize /\ DinSize \in Nat
    BY InvParts, StreamConstants
  <1>2. PICK n \in 1 .. MIN(DinSize - Len(din), Len(file)) :
           din' = din \o Take(n, file) /\ file' = Drop(n, file)
    BY DEF ReadIn
  <1>3. /\ sender' = sender /\ sizes' = sizes /\ frame' = frame /\ place' = place
        /\ open' = open /\ cctx' = cctx /\ cin' = cin /\ cout' = cout
        /\ dctx' = dctx /\ dout' = dout /\ dret' = dret /\ received' = received
    BY DEF ReadIn, sender
  <1>4. file \in Seq(Wire) /\ cout \in Seq(Wire) /\ din \in Seq(Wire)
        /\ Len(file) \in Nat /\ Len(din) \in Nat
    BY <1>1, TransitType
  <1>5. n \in 0 .. Len(file) /\ n <= DinSize - Len(din)
    BY <1>1, <1>4 DEF MIN
  <1> DEFINE s == Take(n, file)
             t == Drop(n, file)
  <1>6. s \in Seq(Wire) /\ Len(s) = n /\ t \in Seq(Wire) /\ s \o t = file
    BY <1>4, <1>5, TakeAndDrop
  <1>7. din' = din \o s /\ file' = t
    BY <1>2
  <1> HIDE DEF s, t
  <1>8. StreamTypes'
    <2>1. din' \in Seq(Wire) /\ Len(din') = Len(din) + Len(s)
      BY <1>4, <1>6, <1>7, ConcatProperties
    <2>2. Len(din') <= DinSize
      BY <1>1, <1>4, <1>5, <1>6, <2>1
    <2> QED
      BY <1>1, <1>3, <1>6, <1>7, <2>1, <2>2 DEF StreamTypes, StreamsTypeOK
  <1>9. transit' = transit
    <2>1. (din \o s) \o (t \o cout) = din \o ((s \o t) \o cout)
      BY <1>1, <1>6, FileToDin
    <2> QED
      BY <1>3, <1>6, <1>7, <2>1 DEF transit
  <1>10. Encoding' /\ written' = written
    BY <1>1, <1>3, EncodingSame, WrittenSame
  <1>11. Decoding'
    BY <1>3, <1>9, <1>10, StaysInStep DEF decompressed
  <1> QED
    BY <1>3, <1>8, <1>10, <1>11 DEF StreamsInv, NeverHeaderError

(* Taking from the output buffer changes nothing of what is decompressed. *)
LEMMA TakeOutInv == ASSUME StreamsInv, TakeOut PROVE StreamsInv'
  <1>1. HasFrames /\ StreamTypes /\ StreamsTypeOK /\ Encoding
    BY InvParts
  <1>2. /\ sender' = sender /\ sizes' = sizes /\ frame' = frame /\ place' = place
        /\ open' = open /\ cctx' = cctx /\ cin' = cin /\ cout' = cout /\ file' = file
        /\ dctx' = dctx /\ din' = din /\ dret' = dret
        /\ received' = received \o dout /\ dout' = << >>
    BY DEF TakeOut, sender
  <1>3. received \in Seq(Wire) /\ dout \in Seq(Wire) /\ received \o dout \in Seq(Wire)
    BY <1>1, TransitType, ConcatProperties
  <1>4. << >> \in Seq(Wire) /\ Len(<< >>) = 0 /\ Len(<< >>) <= DoutSize
    BY EmptySeq, StreamConstants
  <1>5. StreamTypes'
    BY <1>1, <1>2, <1>3, <1>4 DEF StreamTypes, StreamsTypeOK
  <1>6. decompressed' = decompressed
    BY <1>2, <1>3, ConcatEmptySeq DEF decompressed
  <1>7. transit' = transit
    BY <1>2 DEF transit
  <1>8. Encoding' /\ written' = written
    BY <1>1, <1>2, EncodingSame, WrittenSame
  <1>9. Decoding'
    BY <1>2, <1>6, <1>7, <1>8, StaysInStep
  <1> QED
    BY <1>2, <1>5, <1>8, <1>9 DEF StreamsInv, NeverHeaderError

(* The first part of a segment is a segment. *)
LEMMA SegmentOfFirst ==
    ASSUME NEW s \in Seq(Wire), NEW t \in Seq(Wire), NEW p, Segment(s \o t, p)
    PROVE  Segment(s, p)
  <1>1. Len(s) \in Nat /\ Len(t) \in Nat
    BY LenProperties
  <1>2. /\ Len(s \o t) = Len(s) + Len(t)
        /\ \A k \in 1 .. Len(s) + Len(t) :
              (s \o t)[k] = IF k <= Len(s) THEN s[k] ELSE t[k - Len(s)]
    BY ConcatProperties
  <1>3. ASSUME NEW k \in 1 .. Len(s) PROVE Belongs(s[k], p + k)
    <2>1. k \in 1 .. Len(s \o t) /\ k \in 1 .. Len(s) + Len(t) /\ k <= Len(s)
      BY <1>1, <1>2
    <2>2. Belongs((s \o t)[k], p + k)
      BY <2>1 DEF Segment
    <2> QED
      BY <1>2, <2>1, <2>2
  <1> QED
    BY <1>3 DEF Segment

(* dstream_decompress() takes from what is on the way what it appends to   *)
(* what is decompressed.                                                   *)
LEMMA DecompressMoreInv ==
    ASSUME StreamsInv, DecompressMore
    PROVE  StreamsInv' /\ (\E s \in Seq(Wire) : decompressed' = decompressed \o s)
  <1> DEFINE r == Decompress(dctx, din, dout, DoutSize)
  <1>1. /\ HasFrames /\ StreamTypes /\ StreamsTypeOK /\ Encoding /\ dctx \in Context
        /\ Len(dout) <= DoutSize /\ Len(din) <= DinSize /\ DinSize \in Nat /\ DoutSize \in Nat
        /\ Len(sizes) \in Nat /\ HdrSize \in Nat
    BY InvParts, StreamConstants
  <1>2. /\ din # << >> /\ dctx' = r.ctx /\ din' = r.in /\ dout' = r.out /\ dret' = r.ret
        /\ sender' = sender /\ sizes' = sizes /\ frame' = frame /\ place' = place
        /\ open' = open /\ cctx' = cctx /\ cin' = cin /\ cout' = cout /\ file' = file
        /\ received' = received
    BY DEF DecompressMore, sender
  <1>3. /\ din \in Seq(Wire) /\ dout \in Seq(Wire) /\ received \in Seq(Wire)
        /\ file \o cout \in Seq(Wire) /\ transit \in Seq(Wire)
        /\ Len(din) \in Nat /\ Len(dout) \in Nat /\ Len(transit) \in Nat
        /\ Len(din) <= Len(transit)
    BY <1>1, TransitType
  <1>4. PICK f \in 1 .. Len(sizes) + 1 :
           /\ Reaches(f)
           /\ Segment(transit, FrameAt(f) + dctx.bytes_in)
           /\ FrameAt(f) + dctx.bytes_in + Len(transit) = written
    BY DEF StreamsInv, Decoding
  <1> DEFINE b == dctx.bytes_out
             i == dctx.bytes_in
             a == FrameAt(f)
  <1>5. a \in Nat /\ b \in Nat /\ i \in Nat /\ f \in Nat
    BY <1>1, FramesFollow DEF Context
  <1>6. dctx = NewCtx \/ InFrame(dctx, f)
    BY <1>1, <1>4 DEF Reaches, InFrame
  <1>7. Segment(din, a + i)
    BY <1>3, <1>4, SegmentOfFirst DEF transit
  <1>8. a + i + Len(din) <= FrameAt(Len(sizes) + 1)
    <2>1. written <= FrameAt(Len(sizes) + 1) /\ FrameAt(Len(sizes) + 1) \in Nat
      <3>1. Len(sizes) + 1 \in 1 .. Len(sizes) + 1
        BY <1>1
      <3> QED
        BY <1>1, <3>1, WrittenType, FramesFollow
    <2> DEFINE d == Len(din)
               t == Len(transit)
               z == FrameAt(Len(sizes) + 1)
    <2>2. /\ a \in Nat /\ i \in Nat /\ d \in Nat /\ t \in Nat /\ z \in Nat
          /\ d <= t /\ a + i + t <= z
      BY <1>3, <1>4, <1>5, <2>1
    <2> HIDE DEF a, i, d, t, z
    <2>3. a + i + d <= z
      BY <2>2
    <2> QED
      BY <2>3 DEF d, z
  <1>9. Waits(r, dctx, din, dout) \/ Proceeds(r, dctx, din, dout, DoutSize, f)
    BY <1>1, <1>2, <1>3, <1>6, <1>7, <1>8, DecompressProceeds
  <1> HIDE DEF r
  <1>10. Encoding' /\ written' = written
    BY <1>1, <1>2, EncodingSame, WrittenSame
  <1>11. CASE Waits(r, dctx, din, dout)
    <2>1. dctx' = dctx /\ din' = din /\ dout' = dout /\ dret' = COMPRESS_ERR_BUF
      BY <1>2, <1>11 DEF Waits
    <2>2. COMPRESS_ERR_BUF \in 0 .. SizeMax /\ COMPRESS_ERR_BUF # COMPRESS_ERR_HDR
      BY StreamConstants DEF COMPRESS_ERR_BUF, COMPRESS_ERR_HDR
    <2>3. StreamTypes'
      BY <1>1, <1>2, <2>1, <2>2 DEF StreamTypes, StreamsTypeOK
    <2>4. transit' = transit /\ decompressed' = decompressed
      BY <1>2, <2>1 DEF transit, decompressed
    <2>5. Decoding'
      BY <1>2, <1>10, <2>1, <2>4, StaysInStep
    <2>6. StreamsInv'
      BY <1>10, <2>1, <2>2, <2>3, <2>5 DEF StreamsInv, NeverHeaderError
    <2>7. << >> \in Seq(Wire) /\ decompressed' = decompressed \o << >>
      <3>1. received \o dout \in Seq(Wire)
        BY <1>3, ConcatProperties
      <3>2. decompressed \o << >> = decompressed
        BY <3>1, ConcatEmptySeq DEF decompressed
      <3> QED
        BY <2>4, <3>2, EmptySeq
    <2>8. \E s \in Seq(Wire) : decompressed' = decompressed \o s
      BY <2>7
    <2> QED
      BY <2>6, <2>8
  <1>12. CASE Proceeds(r, dctx, din, dout, DoutSize, f)
    <2>1. f \in 1 .. Len(sizes) /\ r.ret \in 0 .. RecInSize
      BY <1>12 DEF Proceeds
    <2>2. PICK k \in 0 .. Len(din), n \in Nat :
             /\ r.in = Drop(k, din)
             /\ r.out = dout \o Data(f, b, b + n)
             /\ Len(dout) + n <= DoutSize
             /\ b + n <= sizes[f]
             /\ i + k = HdrSize + (b + n)
             /\ \/ r.ctx = NewCtx /\ b + n = sizes[f]
                \/ InFrame(r.ctx, f) /\ r.ctx.bytes_out = b + n
      BY <1>12 DEF Proceeds
    <2> DEFINE e == b + n
               s == Data(f, b, e)
    <2>3. e \in Nat /\ b <= e /\ e - b = n
      BY <1>5
    <2>4. s \in Seq(Wire) /\ Len(s) = n
      <3>1. s \in Seq(Wire) /\ Len(s) = e - b
        <4> HIDE DEF b, e
        <4> QED
          BY <1>5, <2>3, DataType
      <3> QED
        BY <2>3, <3>1
    <2>5. dout' = dout \o s /\ din' = Drop(k, din)
      BY <1>2, <2>2
    <2> HIDE DEF s
    <2>6. dout' \in Seq(Wire) /\ Len(dout') = Len(dout) + n
      BY <1>3, <2>4, <2>5, ConcatProperties
    <2>7. din' \in Seq(Wire) /\ Len(din') = Len(din) - k
      BY <1>3, <2>5, TakeAndDrop
    <2>8. r.ctx \in Context
      <3>1. CASE r.ctx = NewCtx
        BY <1>1, <2>1, <3>1, FreshContext
      <3>2. CASE InFrame(r.ctx, f)
        BY <3>2 DEF InFrame
      <3> QED
        BY <2>2, <3>1, <3>2
    <2>9. dret' \in 0 .. SizeMax /\ dret' # COMPRESS_ERR_HDR
      BY <1>2, <2>1, StreamConstants DEF COMPRESS_ERR_HDR
    <2>10. StreamTypes'
      <3>1. Len(dout') <= DoutSize /\ Len(din') <= DinSize
        <4>1. Len(dout') <= DoutSize
          BY <2>2, <2>6
        <4>2. Len(din') <= DinSize
          BY <1>1, <1>3, <2>7
        <4> QED
          BY <4>1, <4>2
      <3> QED
        BY <1>1, <1>2, <2>6, <2>7, <2>8, <2>9, <3>1 DEF StreamTypes, StreamsTypeOK
    <2>11. decompressed' = decompressed \o s
      BY <1>1, <1>2, <2>4, <2>5, MoreDecompressed DEF decompressed
    <2>12. decompressed' = DataBefore[f] \o Data(f, 0, e)
      <3>1. DataBefore[f] \in Seq(Wire)
        <4>1. f \in 0 .. Len(sizes) + 1
          BY <1>1
        <4> QED
          BY <1>1, <4>1, DataRecurs
      <3>2. decompressed = DataBefore[f] \o Data(f, 0, b)
        BY <1>4 DEF Reaches
      <3>3. (DataBefore[f] \o Data(f, 0, b)) \o s = DataBefore[f] \o Data(f, 0, e)
        <4>1. b \in Nat /\ e \in Nat /\ b <= e /\ f \in Nat
          BY <1>5, <2>3
        <4> HIDE DEF b, e
        <4> QED
          BY <3>1, <4>1, MoreOfFrame DEF s
      <3> QED
        BY <2>11, <3>2, <3>3
    <2>13. transit' = Drop(k, transit) /\ Len(transit') = Len(transit) - k
           /\ Segment(transit', a + i + k)
      <3>1. k \in 0 .. Len(transit) /\ k \in 0 .. Len(din) /\ a + i \in Nat
        BY <1>3, <1>5
      <3>2. transit' = Drop(k, din) \o (file \o cout)
        BY <1>2, <2>5 DEF transit
      <3>3. Drop(k, din \o (file \o cout)) = Drop(k, din) \o (file \o cout)
        BY <1>3, <3>1, DropConcat
      <3>4. transit' = Drop(k, transit)
        BY <3>2, <3>3 DEF transit
      <3>5. Segment(Drop(k, transit), (a + i) + k) /\ Len(Drop(k, transit)) = Len(transit) - k
        <4> HIDE DEF a, i
        <4>1. Segment(transit, a + i)
          BY <1>4 DEF a, i
        <4> QED
          BY <1>3, <3>1, <4>1, SegmentDrop, TakeAndDrop
      <3> QED
        BY <3>4, <3>5
    <2>14. a + i + k + Len(transit') = written'
      <3> DEFINE t == Len(transit)
                 v == Len(transit')
      <3>1. a \in Nat /\ i \in Nat /\ k \in Nat /\ t \in Nat /\ v = t - k
            /\ a + i + t = written'
        BY <1>3, <1>4, <1>5, <1>10, <2>13
      <3> HIDE DEF a, i, t, v
      <3>2. a + i + k + v = written'
        BY <3>1
      <3> QED
        BY <3>2 DEF v
    <2>15. ASSUME InFrame(r.ctx, f) /\ r.ctx.bytes_out = e PROVE StreamsInv'
      <3>1. /\ dctx'.bytes_out = e
            /\ Decodes(dctx', f)
            /\ dctx'.bytes_out < sizes[f] \/ dctx'.srcsize = UNCOMPRESS_SIZE_UNKNOWN
        BY <1>2, <2>15 DEF InFrame
      <3>2. dctx'.bytes_in = i + k
        BY <2>2, <3>1 DEF Decodes
      <3>3. a + dctx'.bytes_in = a + i + k
        BY <1>5, <3>2
      <3>4. decompressed' = DataBefore[f] \o Data(f, 0, dctx'.bytes_out)
        BY <2>12, <3>1
      <3>5. Segment(transit', FrameAt(f) + dctx'.bytes_in)
            /\ FrameAt(f) + dctx'.bytes_in + Len(transit') = written'
        BY <2>13, <2>14, <3>3
      <3>6. Decoding'
        BY <1>2, <3>1, <3>4, <3>5, DecodingNext
      <3> QED
        BY <1>10, <2>9, <2>10, <3>6 DEF StreamsInv, NeverHeaderError
    <2>16. ASSUME r.ctx = NewCtx /\ e = sizes[f] PROVE StreamsInv'
      <3> DEFINE g == f + 1
      <3>1. dctx' = NewCtx /\ dctx'.bytes_out = 0 /\ dctx'.bytes_in = 0
        BY <1>2, <2>16 DEF NewCtx
      <3>2. g \in 1 .. Len(sizes) + 1 /\ g \in 0 .. Len(sizes) + 1 /\ g \in Nat
        BY <1>1, <2>1
      <3>3. FrameAt(g) = a + i + k
        <4>1. FrameAt(g) = a + HdrSize + sizes[f]
          BY <1>1, <2>1, FramesFollow
        <4>2. HdrSize + sizes[f] = i + k
          BY <2>2, <2>16
        <4>3. sizes[f] \in Nat
          BY <2>3, <2>16
        <4> QED
          <5> HIDE DEF a, g, i
          <5>1. a \in Nat /\ i \in Nat /\ k \in Nat /\ HdrSize \in Nat
            BY <1>1, <1>5
          <5>2. a + HdrSize + sizes[f] = a + (HdrSize + sizes[f])
            BY <4>3, <5>1
          <5> QED
            BY <4>1, <4>2, <5>1, <5>2
      <3>4. decompressed' = DataBefore[g] \o Data(g, 0, dctx'.bytes_out)
        <4>1. DataBefore[g] = DataBefore[f] \o Data(f, 0, sizes[f]) /\ DataBefore[g] \in Seq(Wire)
          BY <1>1, <2>1, <3>2, DataRecurs
        <4>2. Data(g, 0, 0) = << >>
          <5>1. Data(g, 0, 0) \in Seq(Wire) /\ Len(Data(g, 0, 0)) = 0
            BY <3>2, FirstData
          <5> QED
            BY <5>1, EmptySeq
        <4>3. DataBefore[g] \o << >> = DataBefore[g]
          BY <4>1, ConcatEmptySeq
        <4> QED
          BY <2>12, <2>16, <3>1, <4>1, <4>2, <4>3
      <3>5. FrameAt(g) + dctx'.bytes_in = a + i + k
        BY <1>5, <3>1, <3>3
      <3>6. Segment(transit', FrameAt(g) + dctx'.bytes_in)
            /\ FrameAt(g) + dctx'.bytes_in + Len(transit') = written'
        BY <2>13, <2>14, <3>5
      <3>7. Decoding'
        <4> HIDE DEF g
        <4> QED
          BY <1>2, <3>1, <3>2, <3>4, <3>6, DecodingNext
      <3> QED
        BY <1>10, <2>9, <2>10, <3>7 DEF StreamsInv, NeverHeaderError
    <2>17. StreamsInv'
      BY <2>2, <2>15, <2>16
    <2>18. \E t \in Seq(Wire) : decompressed' = decompressed \o t
      BY <2>4, <2>11
    <2> QED
      BY <2>17, <2>18
  <1> QED
    BY <1>9, <1>11, <1>12

(* A step that changes nothing keeps the invariant. *)
LEMMA SameInv == ASSUME StreamsInv, UNCHANGED streamsvars PROVE StreamsInv'
  <1>1. /\ sender' = sender /\ sizes' = sizes /\ frame' = frame /\ place' = place
        /\ open' = open /\ cctx' = cctx /\ cin' = cin /\ cout' = cout /\ file' = file
        /\ dctx' = dctx /\ din' = din /\ dout' = dout /\ dret' = dret /\ received' = received
    BY DEF streamsvars, sender, receiver
  <1>2. Encoding' /\ written' = written
    BY <1>1, InvParts, EncodingSame, WrittenSame
  <1>3. StreamTypes' /\ transit' = transit /\ decompressed' = decompressed
    BY <1>1, InvParts DEF StreamTypes, StreamsTypeOK, transit, decompressed
  <1>4. Decoding'
    BY <1>1, <1>2, <1>3, StaysInStep
  <1> QED
    BY <1>1, <1>2, <1>3, <1>4 DEF StreamsInv, NeverHeaderError

(* All steps keep the invariant. *)
LEMMA StreamsInvNext ==
    ASSUME ~Reuse, Skips \subseteq {0}, StreamsInv, [StreamsNext]_streamsvars
    PROVE  StreamsInv'
  <1>1. CASE Sender
    <2>1. CASE StartFrame
      BY <2>1, StartFrameInv
    <2>2. CASE Fill
      BY <2>2, FillInv
    <2>3. CASE CompressMore
      BY <2>3, CompressMoreInv
    <2>4. CASE EndFrame
      BY <2>4, EndFrameInv
    <2>5. CASE CompressAtOnce
      BY <2>5, CompressAtOnceInv
    <2>6. CASE WriteOut
      BY <2>6, WriteOutInv
    <2> QED
      BY <1>1, <2>1, <2>2, <2>3, <2>4, <2>5, <2>6 DEF Sender
  <1>2. CASE Receiver
    <2>1. CASE ReadIn
      BY <2>1, ReadInInv
    <2>2. CASE DecompressMore
      BY <2>2, DecompressMoreInv
    <2>3. CASE TakeOut
      BY <2>3, TakeOutInv
    <2> QED
      BY <1>2, <2>1, <2>2, <2>3 DEF Receiver
  <1>3. CASE Done \/ UNCHANGED streamsvars
    BY <1>3, SameInv DEF Done
  <1> QED
    BY <1>1, <1>2, <1>3 DEF StreamsNext

----------------------------------------------------------------------------
(* What follows from the invariant.                                        *)
LEMMA HasWritten ==
    ASSUME StreamsInv, NEW f \in 1 .. Len(sizes) + 1, FrameAt(f) < written
    PROVE  f \in 1 .. frame
  <1>1. HasFrames /\ StreamTypes /\ Encoding /\ Len(sizes) \in Nat /\ frame \in 0 .. Len(sizes)
    BY InvParts
  <1>2. FrameAt(f) \in Nat
    BY <1>1, FramesFollow
  <1>3. frame # 0
    BY <1>1, <1>2, WrittenType
  <1>4. /\ frame \in 1 .. Len(sizes) /\ written \in Nat
        /\ written <= FrameAt(frame) + HdrSize + sizes[frame]
    BY <1>1, <1>3, WrittenType
  <1>5. FrameAt(f) < FrameAt(frame) + HdrSize + sizes[frame]
    <2>1. FrameAt(frame) \in Nat /\ sizes[frame] \in Nat /\ HdrSize \in Nat
      <3>1. frame \in 1 .. Len(sizes) + 1
        BY <1>1, <1>4
      <3> QED
        BY <1>1, <1>4, <3>1, FrameSize, FramesFollow, StreamConstants
    <2> QED
      BY <1>2, <1>4, <2>1
  <1>6. f <= frame
    BY <1>1, <1>4, <1>5, FrameOfPosition
  <1> QED
    BY <1>1, <1>6

(* A decoder that is where the invariant says is in step with the frames. *)
LEMMA InvInStep == ASSUME StreamsInv PROVE FramesInStep
  <1>1. HasFrames /\ StreamTypes /\ StreamsTypeOK /\ dctx \in Context /\ Len(sizes) \in Nat
        /\ HdrSize \in Nat /\ HdrSize >= 2
    BY InvParts, StreamConstants
  <1>2. PICK f \in 1 .. Len(sizes) + 1 :
           /\ Reaches(f)
           /\ Segment(transit, FrameAt(f) + dctx.bytes_in)
           /\ FrameAt(f) + dctx.bytes_in + Len(transit) = written
    BY DEF StreamsInv, Decoding
  <1>3. /\ FrameAt(f) \in Nat /\ dctx.bytes_in \in Nat /\ dctx.bytes_out \in Nat /\ f \in Nat
        /\ f \in 0 .. Len(sizes) + 1 /\ DataBefore[f] \in Seq(Wire)
    <2>1. FrameAt(f) \in Nat /\ dctx.bytes_in \in Nat /\ dctx.bytes_out \in Nat /\ f \in Nat
      BY <1>1, FramesFollow DEF Context
    <2>2. f \in 0 .. Len(sizes) + 1
      BY <1>1
    <2> QED
      BY <1>1, <2>1, <2>2, DataRecurs
  <1>4. Len(decompressed) = Len(DataBefore[f]) + dctx.bytes_out
    <2> DEFINE s == Data(f, 0, dctx.bytes_out)
    <2>1. s \in Seq(Wire) /\ Len(s) = dctx.bytes_out
      BY <1>3, FirstData
    <2>2. decompressed = DataBefore[f] \o s
      BY <1>2 DEF Reaches
    <2> HIDE DEF s
    <2>3. DataBefore[f] \in Seq(Wire)
      BY <1>3
    <2>4. Len(DataBefore[f] \o s) = Len(DataBefore[f]) + Len(s)
      BY <2>1, <2>3, ConcatProperties
    <2> QED
      BY <2>1, <2>2, <2>4
  <1>5. Len(DataBefore[f]) \in Nat
    BY <1>3, LenProperties
  <1>6. /\ din \in Seq(Wire) /\ file \o cout \in Seq(Wire)
        /\ Len(din) \in Nat /\ Len(transit) \in Nat /\ Len(din) <= Len(transit)
    BY <1>1, TransitType
  <1>7. dctx.bytes_in = 0 => Len(decompressed) = Len(DataBefore[f])
    <2>1. dctx.bytes_in = 0 => dctx.bytes_out = 0
      BY <1>1, <1>2, <1>3 DEF Reaches, Decodes, NewCtx
    <2> QED
      BY <1>4, <1>5, <2>1
  <1>8. ASSUME dctx.bytes_in = 0, Len(din) >= HdrSize
        PROVE  \E g \in 1 .. frame :
                 /\ Len(decompressed) = Len(DataBefore[g])
                 /\ \/ GetSize(din) = sizes[g]
                    \/ g = Len(sizes) /\ GetSize(din) = UNCOMPRESS_SIZE_UNKNOWN
    <2>1. FrameAt(f) < written
      BY <1>1, <1>2, <1>3, <1>6, <1>8
    <2>2. f \in 1 .. frame /\ f \in 1 .. Len(sizes)
      <3>1. f \in 1 .. frame /\ frame \in 0 .. Len(sizes)
        BY <2>1, HasWritten, InvParts
      <3> QED
        BY <1>1, <3>1
    <2>3. Segment(din, FrameAt(f))
      <3>1. FrameAt(f) + dctx.bytes_in = FrameAt(f)
        BY <1>3, <1>8
      <3>2. Segment(transit, FrameAt(f))
        BY <1>2, <3>1
      <3> QED
        BY <1>6, <3>2, SegmentOfFirst DEF transit
    <2>4. GetSize(din) \in Declared(f)
      BY <1>1, <1>6, <1>8, <2>2, <2>3, GetSizeDeclared
    <2>5. \/ GetSize(din) = sizes[f]
          \/ f = Len(sizes) /\ GetSize(din) = UNCOMPRESS_SIZE_UNKNOWN
      BY <1>1, <2>2, <2>4, DeclaredSize
    <2> QED
      BY <1>7, <1>8, <2>2, <2>5
  <1>9. SizeOfNextFrame
    BY <1>8 DEF SizeOfNextFrame
  <1>10. InStep
    <2>1. CASE dctx = NewCtx
      <3>1. dctx.bytes_in = 0
        BY <2>1 DEF NewCtx
      <3> QED
        BY <1>7, <3>1 DEF InStep
    <2>2. CASE /\ Decodes(dctx, f)
               /\ dctx.bytes_out < sizes[f] \/ dctx.srcsize = UNCOMPRESS_SIZE_UNKNOWN
      <3>1. f \in 1 .. Len(sizes) /\ dctx.bytes_in = HdrSize + dctx.bytes_out
            /\ dctx.srcsize \in Declared(f)
        BY <2>2 DEF Decodes
      <3>2. FrameAt(f) < written
        BY <1>1, <1>2, <1>3, <1>6, <3>1
      <3>3. f \in 1 .. frame
        BY <3>2, HasWritten
      <3>4. \/ dctx.srcsize = sizes[f] /\ dctx.bytes_out < sizes[f]
            \/ dctx.srcsize = UNCOMPRESS_SIZE_UNKNOWN /\ f = Len(sizes)
        BY <1>1, <2>2, <3>1, DeclaredSize
      <3> QED
        BY <1>4, <3>1, <3>3, <3>4 DEF InStep
    <2> QED
      BY <1>2, <2>1, <2>2 DEF Reaches
  <1> QED
    BY <1>1, <1>9, <1>10 DEF FramesInStep

----------------------------------------------------------------------------
(* The data up to a place of a frame *)
UpTo(f, n) == DataBefore[f] \o Data(f, 0, n)

(* and the sequences that go on after another. *)
Extends(s, t) == \E u \in Seq(Wire) : t = s \o u

(* A sequence is a prefix of one that goes on after it, *)
LEMMA ExtendsIsPrefix ==
    ASSUME NEW s \in Seq(Wire), NEW t, Extends(s, t)
    PROVE  Chan!IsPrefix(s, t)
  <1>1. PICK u \in Seq(Wire) : t = s \o u
    BY DEF Extends
  <1> DEFINE n == Len(s)
  <1>2. n \in Nat /\ Len(u) \in Nat
    BY LenProperties
  <1>3. /\ t \in Seq(Wire) /\ Len(t) = n + Len(u)
        /\ \A k \in 1 .. n + Len(u) : t[k] = IF k <= n THEN s[k] ELSE u[k - n]
    BY <1>1, ConcatProperties
  <1>4. n \in 0 .. Len(s) /\ n \in 0 .. Len(t)
    BY <1>2, <1>3
  <1>5. /\ Take(n, s) \in Seq(Wire) /\ Len(Take(n, s)) = n
        /\ \A k \in 1 .. n : Take(n, s)[k] = s[k]
    <2> HIDE DEF n
    <2> QED
      BY <1>4, TakeAndDrop
  <1>6. /\ Take(n, t) \in Seq(Wire) /\ Len(Take(n, t)) = n
        /\ \A k \in 1 .. n : Take(n, t)[k] = t[k]
    <2> HIDE DEF n
    <2> QED
      BY <1>3, <1>4, TakeAndDrop
  <1>7. Take(n, s) = Take(n, t)
    <2> DEFINE v == Take(n, s)
               w == Take(n, t)
    <2>1. \A k \in 1 .. n : v[k] = w[k]
      BY <1>2, <1>3, <1>5, <1>6
    <2>2. v \in Seq(Wire) /\ w \in Seq(Wire) /\ Len(v) = n /\ Len(w) = n
      BY <1>5, <1>6
    <2> HIDE DEF v, w, n
    <2>3. v = w
      BY <2>1, <2>2, SeqEqual
    <2> QED
      BY <2>3 DEF v, w
  <1>8. SubSeq(s, 1, Len(s)) = SubSeq(t, 1, Len(s)) /\ Len(s) <= Len(t)
    BY <1>2, <1>3, <1>7 DEF Take
  <1> QED
    BY <1>8 DEF Chan!IsPrefix

(* of itself, *)
LEMMA ExtendsSelf == ASSUME NEW s \in Seq(Wire) PROVE Extends(s, s)
  <1>1. << >> \in Seq(Wire) /\ s \o << >> = s
    BY EmptySeq, ConcatEmptySeq
  <1> QED
    BY <1>1 DEF Extends

(* and of one that goes on after that. *)
LEMMA ExtendsTwice ==
    ASSUME NEW s \in Seq(Wire), NEW t, NEW v, Extends(s, t), Extends(t, v)
    PROVE  Extends(s, v)
  <1>1. PICK a \in Seq(Wire) : t = s \o a
    BY DEF Extends
  <1>2. PICK b \in Seq(Wire) : v = t \o b
    BY DEF Extends
  <1>3. a \o b \in Seq(Wire)
    BY ConcatProperties
  <1>4. Cat(Cat(s, a), b) = Cat(s, Cat(a, b))
    BY CatFacts
  <1>5. v = s \o (a \o b)
    BY <1>1, <1>2, <1>4 DEF Cat
  <1> QED
    BY <1>3, <1>5 DEF Extends

(* The data up to a place is a sequence of bytes. *)
LEMMA UpToType ==
    ASSUME HasFrames, NEW f \in 0 .. Len(sizes) + 1, NEW n \in Nat
    PROVE  UpTo(f, n) \in Seq(Wire) /\ DataBefore[f] \in Seq(Wire) /\ UpTo(f, 0) = DataBefore[f]
  <1>1. f \in Nat /\ 0 \in Nat
    BY FrameSize
  <1>2. DataBefore[f] \in Seq(Wire)
    BY DataRecurs
  <1>3. UpTo(f, n) \in Seq(Wire)
    <2>1. Data(f, 0, n) \in Seq(Wire)
      BY <1>1, FirstData
    <2> QED
      BY <1>2, <2>1, ConcatProperties DEF UpTo
  <1>4. UpTo(f, 0) = DataBefore[f]
    <2>1. Data(f, 0, 0) \in Seq(Wire) /\ Len(Data(f, 0, 0)) = 0
      BY <1>1, FirstData
    <2>2. Data(f, 0, 0) = << >>
      BY <2>1, EmptySeq
    <2> QED
      BY <1>2, <2>2, ConcatEmptySeq DEF UpTo
  <1> QED
    BY <1>2, <1>3, <1>4

(* More of the same frame goes on after less of it. *)
LEMMA UpToExtends ==
    ASSUME HasFrames, NEW f \in 0 .. Len(sizes) + 1, NEW m \in Nat, NEW n \in Nat, m <= n
    PROVE  Extends(UpTo(f, m), UpTo(f, n))
  <1>1. f \in Nat /\ DataBefore[f] \in Seq(Wire)
    <2>1. Len(sizes) \in Nat
      BY FrameSize
    <2>2. f \in Nat
      BY <2>1
    <2>3. DataBefore[f] \in Seq(Wire)
      BY DataRecurs
    <2> QED
      BY <2>2, <2>3
  <1>2. UpTo(f, m) \o Data(f, m, n) = UpTo(f, n)
    BY <1>1, MoreOfFrame DEF UpTo
  <1>3. Data(f, m, n) \in Seq(Wire)
    BY <1>1, DataType
  <1> QED
    BY <1>2, <1>3 DEF Extends

(* The data before a later frame goes on after that before an earlier one. *)
LEMMA LaterExtends ==
    ASSUME HasFrames, NEW f \in 1 .. Len(sizes) + 1, NEW g \in 1 .. Len(sizes) + 1, f <= g
    PROVE  Extends(DataBefore[f], DataBefore[g])
  <1> DEFINE P == {k \in Nat : f + k <= Len(sizes) + 1 =>
                                 Extends(DataBefore[f], DataBefore[f + k])}
  <1>1. Len(sizes) \in Nat /\ f \in 0 .. Len(sizes) + 1
    BY FrameSize
  <1>2. DataBefore[f] \in Seq(Wire)
    BY <1>1, DataRecurs
  <1>3. 0 \in P
    <2>1. f + 0 = f
      BY <1>1
    <2> QED
      BY <1>2, <2>1, ExtendsSelf
  <1>4. ASSUME NEW k \in P PROVE k + 1 \in P
    <2>1. CASE f + (k + 1) <= Len(sizes) + 1
      <3> DEFINE j == f + k
      <3>1. j \in 1 .. Len(sizes) /\ f + (k + 1) = j + 1 /\ k \in Nat
        BY <1>1, <2>1
      <3>2. Extends(DataBefore[f], DataBefore[j])
        BY <1>1, <3>1
      <3> HIDE DEF j
      <3>3. DataBefore[j + 1] = DataBefore[j] \o Data(j, 0, sizes[j])
        BY <3>1, DataRecurs
      <3>4. Data(j, 0, sizes[j]) \in Seq(Wire)
        <4>1. j \in Nat /\ sizes[j] \in Nat
          BY <3>1, FrameSize
        <4> QED
          BY <4>1, FirstData
      <3>5. Extends(DataBefore[j], DataBefore[j + 1])
        BY <3>3, <3>4 DEF Extends
      <3>6. Extends(DataBefore[f], DataBefore[j + 1])
        BY <1>2, <3>2, <3>5, ExtendsTwice
      <3> QED
        BY <3>1, <3>6
    <2> QED
      BY <2>1
  <1>5. P = Nat
    <2>1. P \in SUBSET Nat
      OBVIOUS
    <2> HIDE DEF P
    <2> QED
      BY <1>3, <1>4, <2>1, Induction
  <1>6. g - f \in Nat /\ f + (g - f) = g /\ g <= Len(sizes) + 1
    BY <1>1
  <1>7. g - f \in P
    BY <1>5, <1>6
  <1> QED
    BY <1>6, <1>7

(* The data up to a later place goes on after that up to an earlier one. *)
LEMMA BeforeExtends ==
    ASSUME HasFrames, NEW f \in 1 .. Len(sizes), NEW g \in 1 .. Len(sizes),
           NEW m \in Nat, NEW n \in Nat, m <= sizes[f], f < g \/ (f = g /\ m <= n)
    PROVE  Extends(UpTo(f, m), UpTo(g, n))
  <1>1. /\ Len(sizes) \in Nat /\ f \in 0 .. Len(sizes) + 1 /\ g \in 0 .. Len(sizes) + 1
        /\ sizes[f] \in Nat /\ 0 \in Nat /\ 0 <= n
    BY FrameSize
  <1>2. CASE f = g /\ m <= n
    BY <1>1, <1>2, UpToExtends
  <1>3. CASE f < g
    <2>1. f + 1 \in 1 .. Len(sizes) + 1 /\ g \in 1 .. Len(sizes) + 1 /\ f + 1 <= g
      BY <1>1, <1>3
    <2>2. Extends(UpTo(f, m), UpTo(f, sizes[f]))
      BY <1>1, UpToExtends
    <2>3. UpTo(f, sizes[f]) = DataBefore[f + 1]
      BY DataRecurs DEF UpTo
    <2>4. Extends(DataBefore[f + 1], DataBefore[g])
      BY <2>1, LaterExtends
    <2>5. Extends(DataBefore[g], UpTo(g, n))
      BY <1>1, UpToExtends, UpToType
    <2>6. UpTo(f, m) \in Seq(Wire)
      BY <1>1, UpToType
    <2>7. Extends(UpTo(f, m), DataBefore[g])
      BY <2>2, <2>3, <2>4, <2>6, ExtendsTwice
    <2> QED
      BY <2>5, <2>6, <2>7, ExtendsTwice
  <1> QED
    BY <1>2, <1>3

(* What is decompressed is the first part of what was read. *)
ReceivesFirst == Chan!IsPrefix(decompressed, sent)

(* It is: the decoder is never past the encoder. *)
LEMMA InvReceivesFirst == ASSUME StreamsInv PROVE ReceivesFirst
  <1>1. HasFrames /\ StreamTypes /\ Encoding /\ dctx \in Context /\ Len(sizes) \in Nat
        /\ frame \in 0 .. Len(sizes) /\ place \in Nat /\ HdrSize \in Nat /\ HdrSize >= 2
    BY InvParts, StreamConstants
  <1>2. PICK f \in 1 .. Len(sizes) + 1 :
           /\ Reaches(f)
           /\ Segment(transit, FrameAt(f) + dctx.bytes_in)
           /\ FrameAt(f) + dctx.bytes_in + Len(transit) = written
    BY DEF StreamsInv, Decoding
  <1> DEFINE b == dctx.bytes_out
             i == dctx.bytes_in
  <1>3. b \in Nat /\ i \in Nat /\ FrameAt(f) \in Nat /\ Len(transit) \in Nat
        /\ f \in 0 .. Len(sizes) + 1 /\ frame \in 0 .. Len(sizes) + 1
    <2>1. b \in Nat /\ i \in Nat
      BY <1>1 DEF Context
    <2>2. FrameAt(f) \in Nat /\ Len(transit) \in Nat
      BY <1>1, FramesFollow, TransitType
    <2> QED
      BY <1>1, <2>1, <2>2
  <1>4. decompressed = UpTo(f, b) /\ sent = UpTo(frame, place)
    BY <1>2 DEF Reaches, UpTo, sent
  <1>5. \/ b = 0 /\ i = 0
        \/ f \in 1 .. Len(sizes) /\ i = HdrSize + b /\ b <= sizes[f]
    BY <1>2 DEF Reaches, Decodes, NewCtx
  <1>6. decompressed \in Seq(Wire)
    <2> HIDE DEF b
    <2> QED
      BY <1>1, <1>3, <1>4, UpToType
  <1>7. Extends(decompressed, sent)
    <2>1. CASE frame = 0
      <3>1. written = 0 /\ place = 0
        BY <1>1, <2>1, WrittenType DEF Encoding
      <3>2. b = 0 /\ FrameAt(f) = 0
        BY <1>1, <1>2, <1>3, <1>5, <3>1
      <3>3. f = 1
        <4>1. CASE f # 1
          <5>1. 1 \in 1 .. Len(sizes) /\ 1 < f
            BY <1>1, <4>1
          <5>2. FrameAt(1) + HdrSize + sizes[1] <= FrameAt(f) /\ FrameAt(1) = 0 /\ sizes[1] \in Nat
            BY <1>1, <5>1, FramesApart, FramesFollow, FrameSize
          <5> QED
            BY <1>1, <3>2, <5>2
        <4> QED
          BY <4>1
      <3>4. decompressed = << >> /\ sent = << >>
        <4>1. UpTo(1, 0) = << >> /\ UpTo(0, 0) = << >>
          <5>1. 0 \in 0 .. Len(sizes) + 1 /\ 1 \in 0 .. Len(sizes) + 1 /\ 0 \in Nat
            BY <1>1
          <5>2. UpTo(1, 0) = DataBefore[1] /\ UpTo(0, 0) = DataBefore[0]
            BY <1>1, <5>1, UpToType
          <5> QED
            BY <1>1, <5>2, DataRecurs
        <4> QED
          BY <1>4, <2>1, <3>1, <3>2, <3>3, <4>1
      <3> QED
        BY <3>4, EmptySeq, ExtendsSelf
    <2>2. CASE frame # 0
      <3>1. /\ frame \in 1 .. Len(sizes) /\ written \in Nat
            /\ written <= FrameAt(frame) + HdrSize + sizes[frame]
            /\ \/ written = FrameAt(frame)
               \/ written = FrameAt(frame) + HdrSize + (place - Len(cin))
        BY <1>1, <2>2, WrittenType
      <3>2. FrameAt(frame) \in Nat /\ sizes[frame] \in Nat /\ Len(cin) \in Nat
            /\ place <= sizes[frame] /\ Len(cin) <= place
        <4>1. frame \in 1 .. Len(sizes) + 1
          BY <1>1, <3>1
        <4>2. place <= sizes[frame] /\ Len(cin) <= place
          BY <1>1, <2>2 DEF Encoding, Encodes
        <4> QED
          BY <1>1, <3>1, <4>1, <4>2, FrameSize, FramesFollow, TransitType
      <3>3. CASE f <= frame
        <4>1. f \in 1 .. Len(sizes) /\ sizes[f] \in Nat
          <5>1. f \in 1 .. Len(sizes)
            BY <1>1, <3>1, <3>3
          <5> QED
            BY <1>1, <5>1, FrameSize
        <4>2. b <= sizes[f]
          BY <1>3, <1>5, <4>1
        <4>3. f = frame => b <= place
          <5> DEFINE a == FrameAt(f)
                     t == Len(transit)
                     e == Len(cin)
          <5>1. CASE b = 0
            BY <1>1, <5>1
          <5>2. CASE f = frame /\ i = HdrSize + b
            <6>1. /\ a \in Nat /\ t \in Nat /\ e \in Nat /\ b \in Nat /\ HdrSize \in Nat
                  /\ HdrSize >= 2 /\ place \in Nat
                  /\ a + (HdrSize + b) + t = written
                  /\ written = a \/ written = a + HdrSize + (place - e)
              BY <1>1, <1>2, <1>3, <3>1, <3>2, <5>2
            <6> HIDE DEF a, t, e, b
            <6> QED
              BY <6>1
          <5> QED
            BY <1>5, <5>1, <5>2
        <4>4. f < frame \/ (f = frame /\ b <= place)
          BY <1>1, <3>1, <3>3, <4>3
        <4> HIDE DEF b
        <4>5. b \in Nat /\ place \in Nat /\ HasFrames /\ frame \in 1 .. Len(sizes)
          BY <1>1, <1>3, <3>1
        <4>6. Extends(UpTo(f, b), UpTo(frame, place))
          BY <4>1, <4>2, <4>4, <4>5, BeforeExtends
        <4> QED
          BY <1>4, <4>6
      <3>4. CASE ~(f <= frame)
        <4> DEFINE g == frame + 1
        <4>1. /\ g \in 1 .. Len(sizes) + 1 /\ g \in 0 .. Len(sizes) + 1
              /\ FrameAt(g) = FrameAt(frame) + HdrSize + sizes[frame]
          BY <1>1, <3>1, FramesFollow
        <4>2. CASE f # g
          <5>1. g \in 1 .. Len(sizes) /\ g < f
            BY <1>1, <3>1, <3>4, <4>2
          <5>2. FrameAt(g) + HdrSize + sizes[g] <= FrameAt(f) /\ sizes[g] \in Nat
            <6> HIDE DEF g
            <6> QED
              BY <1>1, <5>1, FramesApart, FrameSize
          <5> DEFINE c == FrameAt(f)
                     t == Len(transit)
                     y == FrameAt(g)
                     z == sizes[g]
          <5>3. /\ c \in Nat /\ t \in Nat /\ i \in Nat /\ y \in Nat /\ z \in Nat
                /\ HdrSize \in Nat /\ HdrSize >= 2
                /\ c + i + t <= y /\ y + HdrSize + z <= c
            <6>1. FrameAt(g) \in Nat
              <7> HIDE DEF g
              <7> QED
                BY <1>1, <4>1, FramesFollow
            <6> QED
              BY <1>1, <1>2, <1>3, <3>1, <4>1, <5>2, <6>1
          <5> HIDE DEF c, t, y, z, i
          <5> QED
            BY <5>3
        <4>3. CASE f = g
          <5> DEFINE a == FrameAt(frame)
                     c == FrameAt(f)
                     t == Len(transit)
                     e == Len(cin)
          <5>1. /\ a \in Nat /\ t \in Nat /\ e \in Nat /\ i \in Nat /\ b \in Nat /\ HdrSize \in Nat
                /\ HdrSize >= 2 /\ place \in Nat /\ sizes[frame] \in Nat
                /\ c = a + HdrSize + sizes[frame] /\ c + i + t = written
                /\ written = a \/ written = a + HdrSize + (place - e)
                /\ place <= sizes[frame] /\ e <= place
                /\ (b = 0 /\ i = 0) \/ i = HdrSize + b
            BY <1>1, <1>2, <1>3, <1>5, <3>1, <3>2, <4>1, <4>3
          <5> HIDE DEF a, c, t, e, b, i
          <5>2. b = 0 /\ place = sizes[frame]
            <6> DEFINE z == sizes[frame]
            <6>1. /\ a \in Nat /\ t \in Nat /\ e \in Nat /\ i \in Nat /\ z \in Nat
                  /\ place \in Nat /\ HdrSize \in Nat /\ HdrSize >= 2 /\ place <= z
                  /\ a + HdrSize + z + i + t = written
                  /\ written = a \/ written = a + HdrSize + (place - e)
              BY <5>1
            <6> HIDE DEF z
            <6>2. written # a
              BY <6>1
            <6>3. z + i + t = place - e
              BY <6>1, <6>2
            <6>4. i = 0 /\ place = z
              BY <6>1, <6>3
            <6> QED
              BY <5>1, <6>4 DEF z
          <5>3. decompressed = DataBefore[g]
            <6>1. UpTo(g, 0) = DataBefore[g]
              BY <1>1, <4>1, UpToType
            <6> QED
              BY <1>4, <4>3, <5>2, <6>1
          <5>4. sent = DataBefore[g]
            BY <1>1, <1>4, <3>1, <5>2, DataRecurs DEF UpTo
          <5> QED
            BY <1>6, <5>3, <5>4, ExtendsSelf
        <4> QED
          BY <4>2, <4>3
      <3> QED
        BY <3>3, <3>4
    <2> QED
      BY <2>1, <2>2
  <1> QED
    BY <1>6, <1>7, ExtendsIsPrefix DEF ReceivesFirst

(* When no frame is open, all of the frames so far was read. *)
LEMMA SentBetweenFrames ==
    ASSUME StreamsInv, ~open
    PROVE  sent = DataBefore[frame + 1]
  <1>1. HasFrames /\ Encoding /\ Len(sizes) \in Nat /\ frame \in 0 .. Len(sizes)
    BY InvParts
  <1>2. CASE frame = 0
    <2>1. place = 0 /\ 0 \in 0 .. Len(sizes) + 1 /\ 0 \in Nat
      BY <1>1, <1>2 DEF Encoding
    <2>2. UpTo(0, 0) = DataBefore[0]
      BY <1>1, <2>1, UpToType
    <2> QED
      BY <1>1, <1>2, <2>1, <2>2, DataRecurs DEF sent, UpTo
  <1>3. CASE frame # 0
    <2>1. frame \in 1 .. Len(sizes) /\ place = sizes[frame]
      BY <1>1, <1>3, BetweenFrames
    <2> QED
      BY <1>1, <2>1, DataRecurs DEF sent
  <1> QED
    BY <1>2, <1>3

(* Both ends of the channel have bytes of the wire. *)
LEMMA SentType == ASSUME StreamsInv PROVE sent \in Seq(Wire) /\ decompressed \in Seq(Wire)
  <1>1. HasFrames /\ StreamTypes /\ place \in Nat /\ frame \in 0 .. Len(sizes) /\ Len(sizes) \in Nat
    BY InvParts
  <1>2. frame \in 0 .. Len(sizes) + 1
    BY <1>1
  <1>3. UpTo(frame, place) \in Seq(Wire)
    BY <1>1, <1>2, UpToType
  <1>4. received \o dout \in Seq(Wire)
    BY <1>1, TransitType, ConcatProperties
  <1> QED
    BY <1>3, <1>4 DEF sent, UpTo, decompressed

(* The next frame begins where all that was read ends. *)
LEMMA NextFrameGoesOn ==
    ASSUME StreamsInv, NextFrame, sizes' = sizes, place' \in Nat
    PROVE  Chan!IsPrefix(sent, sent')
  <1> DEFINE g == frame + 1
  <1>1. HasFrames /\ Len(sizes) \in Nat /\ frame \in 0 .. Len(sizes) /\ frame < Len(sizes)
        /\ ~open /\ frame' = g
    BY InvParts DEF NextFrame
  <1>2. g \in 0 .. Len(sizes) + 1 /\ g \in Nat
    BY <1>1
  <1>3. sent = DataBefore[g]
    BY <1>1, SentBetweenFrames
  <1>4. sent' = DataBefore[g] \o Data(g, 0, place')
    BY <1>1, SameFrames DEF sent
  <1> HIDE DEF g
  <1>5. Data(g, 0, place') \in Seq(Wire)
    BY <1>2, FirstData
  <1>6. Extends(sent, sent')
    BY <1>3, <1>4, <1>5 DEF Extends
  <1>7. sent \in Seq(Wire)
    BY SentType
  <1> QED
    BY <1>6, <1>7, ExtendsIsPrefix

(* Nothing is sent or received at first. *)
LEMMA ChanInit == ASSUME StreamsInit PROVE Chan!Init
  <1>1. StreamsInv /\ ~open /\ frame + 1 = 1
    BY StreamsInitInv DEF StreamsInit
  <1>2. sent = DataBefore[1]
    BY <1>1, SentBetweenFrames
  <1>3. sent = << >>
    BY <1>1, <1>2, InvParts, DataRecurs
  <1>4. decompressed = << >>
    BY EmptySeq, ConcatEmptySeq DEF StreamsInit, decompressed
  <1> QED
    BY <1>3, <1>4 DEF Chan!Init

(* A step of the sender sends, one of the receiver receives, or neither. *)
LEMMA ChanNext ==
    ASSUME StreamsInv, StreamsInv', ReceivesFirst', [StreamsNext]_streamsvars
    PROVE  [Chan!Next]_<<sent, decompressed>>
  <1>1. HasFrames /\ place \in Nat /\ Len(sizes) \in Nat /\ frame \in 0 .. Len(sizes)
    BY InvParts
  <1>2. CASE Sender
    <2>1. decompressed' = decompressed
      BY <1>2 DEF Sender, StartFrame, Fill, CompressMore, EndFrame, CompressAtOnce, WriteOut,
                  receiver, decompressed
    <2>2. sizes' = sizes
      BY <1>2 DEF Sender, StartFrame, Fill, CompressMore, EndFrame, CompressAtOnce, WriteOut,
                  sender
    <2>3. place' \in Nat
      BY DEF StreamsInv, StreamTypes
    <2>4. CASE StartFrame \/ CompressAtOnce
      <3>1. NextFrame
        BY <2>4 DEF StartFrame, CompressAtOnce
      <3>2. Chan!IsPrefix(sent, sent')
        BY <2>2, <2>3, <3>1, NextFrameGoesOn
      <3> QED
        BY <2>1, <3>2 DEF Chan!Next, Chan!Send
    <2>5. CASE Fill
      <3>1. frame' = frame /\ \E n \in 1 .. MIN(CinSize - Len(cin), sizes[frame] - place) :
                                 place' = place + n
        BY <2>5 DEF Fill
      <3>2. place <= place'
        BY <1>1, <2>3, <3>1
      <3>3. sent = UpTo(frame, place) /\ sent' = UpTo(frame, place')
        BY <2>2, <3>1, SameFrames DEF sent, UpTo
      <3>4. frame \in 0 .. Len(sizes) + 1
        BY <1>1
      <3>5. Extends(sent, sent')
        BY <1>1, <2>3, <3>2, <3>3, <3>4, UpToExtends
      <3>6. Chan!IsPrefix(sent, sent')
        BY <3>5, SentType, ExtendsIsPrefix
      <3> QED
        BY <2>1, <3>6 DEF Chan!Next, Chan!Send
    <2>6. CASE CompressMore \/ EndFrame \/ WriteOut
      <3>1. frame' = frame /\ place' = place
        BY <2>6 DEF CompressMore, EndFrame, WriteOut, sender
      <3>2. sent' = sent
        BY <2>2, <3>1, SameFrames DEF sent
      <3> QED
        BY <2>1, <3>2
    <2> QED
      BY <1>2, <2>4, <2>5, <2>6 DEF Sender
  <1>3. CASE Receiver
    <2>1. frame' = frame /\ place' = place /\ sizes' = sizes
      BY <1>3 DEF Receiver, ReadIn, DecompressMore, TakeOut, sender
    <2>2. sent' = sent
      BY <2>1, SameFrames DEF sent
    <2>3. Extends(decompressed, decompressed')
      <3>1. CASE ReadIn
        <4>1. decompressed' = decompressed
          BY <3>1 DEF ReadIn, decompressed
        <4> QED
          BY <4>1, SentType, ExtendsSelf
      <3>2. CASE DecompressMore
        BY <3>2, DecompressMoreInv DEF Extends
      <3>3. CASE TakeOut
        <4>1. received \o dout \in Seq(Wire)
          BY SentType DEF decompressed
        <4>2. decompressed' = decompressed
          BY <3>3, <4>1, ConcatEmptySeq DEF TakeOut, decompressed
        <4> QED
          BY <4>2, SentType, ExtendsSelf
      <3> QED
        BY <1>3, <3>1, <3>2, <3>3 DEF Receiver
    <2>4. Chan!IsPrefix(decompressed, decompressed')
      BY <2>3, SentType, ExtendsIsPrefix
    <2>5. Chan!IsPrefix(decompressed', sent')
      BY DEF ReceivesFirst
    <2> QED
      BY <2>2, <2>4, <2>5 DEF Chan!Next, Chan!Receive
  <1>4. CASE Done \/ UNCHANGED streamsvars
    <2>1. /\ frame' = frame /\ place' = place /\ sizes' = sizes
          /\ received' = received /\ dout' = dout
      BY <1>4 DEF Done, streamsvars, sender, receiver
    <2>2. sent' = sent /\ decompressed' = decompressed
      BY <2>1, SameFrames DEF sent, decompressed
    <2> QED
      BY <2>2
  <1> QED
    BY <1>2, <1>3, <1>4 DEF StreamsNext

----------------------------------------------------------------------------
(* The invariant holds in every state. *)
LEMMA StreamsInvariant ==
    ASSUME ~Reuse, Skips \subseteq {0}
    PROVE  StreamsSpec => []StreamsInv
  <1>1. StreamsInv /\ [StreamsNext]_streamsvars => StreamsInv'
    BY StreamsInvNext
  <1>2. StreamsInit => StreamsInv
    BY StreamsInitInv
  <1> QED
    BY <1>1, <1>2, PTL DEF StreamsSpec

(* For frames of any number and sizes, buffers of any sizes that hold a    *)
(* header, and whatever pieces are written and read, the decoder finds a   *)
(* header wherever it looks for one (funcs.c:97-104).  The hypotheses: a   *)
(* stream compresses one frame, since its end() resets nothing             *)
(* (funcs.c:182), and cstream_compress1() gets a buffer that begins at     *)
(* pos = 0, since it declares the size of the whole buffer                 *)
(* (compression.c:75).                                                     *)
THEOREM NeverHeaderErrorAlways ==
    ASSUME ~Reuse, Skips \subseteq {0}
    PROVE  StreamsSpec => []NeverHeaderError
  <1>1. StreamsInv => NeverHeaderError
    BY DEF StreamsInv
  <1>2. StreamsSpec => []StreamsInv
    BY StreamsInvariant
  <1> QED
    BY <1>1, <1>2, PTL

(* Under the same conditions the size that the decoder tells of the next   *)
(* frame is that of the next frame (funcs.c:81-90), and its counts are     *)
(* those of the frame that it is in: the frames never shift against each   *)
(* other.                                                                  *)
THEOREM FramesInStepAlways ==
    ASSUME ~Reuse, Skips \subseteq {0}
    PROVE  StreamsSpec => []FramesInStep
  <1>1. StreamsInv => FramesInStep
    BY InvInStep
  <1>2. StreamsSpec => []StreamsInv
    BY StreamsInvariant
  <1> QED
    BY <1>1, <1>2, PTL

(* So that a compressor and a decompressor implement a channel: every step *)
(* of the streams is one of Channel, or changes nothing of what was sent   *)
(* and what was received.                                                  *)
THEOREM StreamsAreChannel ==
    ASSUME ~Reuse, Skips \subseteq {0}
    PROVE  StreamsSpec => IsChannel
  <1>1. StreamsInit => Chan!Init
    BY ChanInit
  <1>2. StreamsInv => ReceivesFirst
    BY InvReceivesFirst
  <1>3. StreamsInv /\ StreamsInv' /\ ReceivesFirst' /\ [StreamsNext]_streamsvars
           => [Chan!Next]_<<sent, decompressed>>
    BY ChanNext
  <1>4. StreamsSpec => []StreamsInv
    BY StreamsInvariant
  <1> QED
    BY <1>1, <1>2, <1>3, <1>4, PTL DEF StreamsSpec, IsChannel, Chan!Spec
============================================================================
