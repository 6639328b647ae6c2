---------------------------- MODULE MemcpyCodec ----------------------------
(***************************************************************************)
(* The pass-through codec of lib/compression/funcs.c (DINO_COMPRESS_NONE)  *)
(* and the functions of compression.c that call it, as operators on a      *)
(* codec context and the two buffers of a call.                            *)
(*                                                                         *)
(* A frame is a header, which says how many bytes follow, and the data.    *)
(* The buffers are sequences: of an inBuf the bytes from pos to size, of   *)
(* an outBuf those up to pos.  A byte says what it is: the i-th byte of a  *)
(* frame, or the i-th of a header with that size.  The first of a header   *)
(* is the magic number, which does not occur in the data; the last is the  *)
(* size.                                                                   *)
(***************************************************************************)
EXTENDS Integers, Sequences

CONSTANTS HdrSize,    \* MEMCPY_HDRSIZE
          RecInSize,  \* rec_inbuf_size of a decoder
          SizeMax     \* the largest size_t

ASSUME CodecAssumption ==
    /\ HdrSize \in Nat /\ HdrSize >= 2
    /\ RecInSize \in Nat \ {0}
    /\ SizeMax \in Nat /\ SizeMax > 6 + HdrSize
    /\ RecInSize < SizeMax - 5  \* no error code

UNCOMPRESS_SIZE_UNKNOWN == SizeMax
UNCOMPRESS_SIZE_ERROR == SizeMax - 1
UNCOMPRESS_SIZE_MAX == SizeMax - 2
COMPRESS_ERR_BUF == SizeMax - 4
COMPRESS_ERR_HDR == SizeMax - 5

MIN(x, y) == IF x < y THEN x ELSE y

(* The difference of two numbers of type size_t. *)
Minus(x, y) == (x - y) % (SizeMax + 1)

DataByte(frame, i) == <<"data", frame, i>>
HdrByte(size, i) == <<"header", size, i>>

Header(size) == [i \in 1 .. HdrSize |-> HdrByte(size, i)]

(* The first n bytes of a buffer, and those after them. *)
Take(n, buf) == SubSeq(buf, 1, n)
Drop(n, buf) == SubSeq(buf, n + 1, Len(buf))

(* What a call leaves, and what it returns. *)
Outcome(ctx, in, out, ret) == [ctx |-> ctx, in |-> in, out |-> out, ret |-> ret]

(* memcpy_create_cctx(), memcpy_create_dctx(), with the memory they need. *)
NewCtx == [srcsize |-> UNCOMPRESS_SIZE_UNKNOWN, bytes_in |-> 0, bytes_out |-> 0]

(* How much fits in an output buffer. *)
Room(out, outsize) == outsize - Len(out)

(* The end of both (de)compress(): n bytes go from the one buffer to the   *)
(* other and are counted.                                                  *)
Copy(ctx, n, in, out) ==
    Outcome([ctx EXCEPT !.bytes_in = @ + n, !.bytes_out = @ + n],
            Drop(n, in), out \o Take(n, in), 0)

----------------------------------------------------------------------------
(* memcpy_setsize(): no caller looks at what it returns. *)
SetSize(ctx, srcsize) ==
    IF ctx.bytes_out # 0 \/ srcsize >= UNCOMPRESS_SIZE_MAX THEN ctx
    ELSE [ctx EXCEPT !.srcsize = srcsize]

(* memcpy_compress(): the header, before the first byte; then as much data *)
(* as fits.  The slip does not count the header as written.                *)
CountHeaderNot(ctx) == ctx

CountHeader(ctx) == [ctx EXCEPT !.bytes_out = HdrSize]

PutData(ctx, in, out, outsize) ==
    Copy(ctx, MIN(Len(in), Room(out, outsize)), in, out)

Compress(ctx, in, out, outsize) ==
    IF ctx.bytes_out # 0 THEN PutData(ctx, in, out, outsize)
    ELSE IF HdrSize > Room(out, outsize) THEN Outcome(ctx, in, out, COMPRESS_ERR_BUF)
    ELSE PutData(CountHeader(ctx), in, out \o Header(ctx.srcsize), outsize)

(* The end() of this codec is memcpy_flush(): nothing to do. *)
End(ctx) == ctx

(* cstream_compress1(), with an input buffer whose first skipped bytes are *)
(* before pos: it takes its size, not the bytes in it.  What compress()    *)
(* returned is lost; the return value is the position in the output.       *)
Compress1(ctx, skipped, in, out, outsize) ==
    LET call == Compress(SetSize(ctx, skipped + Len(in)), in, out, outsize)
    IN  Outcome(End(call.ctx), call.in, call.out, Len(call.out))

----------------------------------------------------------------------------
(* memcpy_getsize() *)
GetSize(in) ==
    IF Len(in) >= HdrSize /\ in[1][1] = "header" /\ in[1][3] = 1
    THEN in[HdrSize][2]
    ELSE UNCOMPRESS_SIZE_ERROR

(* How much of the input belongs to the frame.  The slips forget to ask,   *)
(* and count the header as part of the data.                               *)
MaxInUnlimited(ctx, in) == Len(in)

MaxInWithHeader(ctx, in) == MIN(Len(in), Minus(ctx.srcsize, ctx.bytes_in))

MaxIn(ctx, in) ==
    IF ctx.srcsize = UNCOMPRESS_SIZE_UNKNOWN THEN Len(in)
    ELSE MIN(Len(in), Minus(ctx.srcsize, ctx.bytes_out))

(* At the end of a frame the context is as new; the slip forgets bytes_in. *)
AfterFrameReading(ctx) == [NewCtx EXCEPT !.bytes_in = ctx.bytes_in]

AfterFrame(ctx) == NewCtx

GetData(ctx, in, out, outsize) ==
    LET call == Copy(ctx, MIN(MaxIn(ctx, in), Room(out, outsize)), in, out)
        now == call.ctx
    IN  CASE now.srcsize = UNCOMPRESS_SIZE_UNKNOWN -> call
          [] now.bytes_out = now.srcsize -> [call EXCEPT !.ctx = AfterFrame(now)]
          [] OTHER -> [call EXCEPT !.ret = MIN(RecInSize, Minus(now.srcsize, now.bytes_in))]

(* memcpy_decompress() *)
Decompress(ctx, in, out, outsize) ==
    IF ctx.bytes_in # 0 THEN GetData(ctx, in, out, outsize)
    ELSE IF HdrSize > Len(in) THEN Outcome(ctx, in, out, COMPRESS_ERR_BUF)
    ELSE IF GetSize(in) = UNCOMPRESS_SIZE_ERROR THEN Outcome(ctx, in, out, COMPRESS_ERR_HDR)
    ELSE GetData([ctx EXCEPT !.srcsize = GetSize(in), !.bytes_in = HdrSize],
                 Drop(HdrSize, in), out, outsize)
============================================================================
