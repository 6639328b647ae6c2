------------------------------ MODULE Streams ------------------------------
(***************************************************************************)
(* A compression stream and a decompression stream with a file between     *)
(* them, and the loops of their callers.  The sender compresses frames in  *)
(* pieces, as mkdino.c does (start, compress ..., end), or each at once,   *)
(* with cstream_compress1().  It writes the output buffer to the file when *)
(* it likes.  The receiver reads the file in pieces of any size, whatever  *)
(* size the decoder suggests, and decompresses while there is input.  Each *)
(* buffer is limited, so that a header or a frame may not fit.             *)
(***************************************************************************)
EXTENDS MemcpyCodec

CONSTANTS FrameSizes,  \* the sizes of frames
          Frames,      \* the most frames
          CinSize, CoutSize,  \* the sizes of the sender's buffers
          DinSize, DoutSize,  \*   and of the receiver's
          Skips,       \* bytes before pos in cstream_compress1()'s input
          Reuse        \* whether one stream compresses all frames

ASSUME StreamsAssumption ==
    /\ FrameSizes \subseteq 0 .. UNCOMPRESS_SIZE_MAX - 1
    /\ \A size \in FrameSizes : HdrSize + size <= SizeMax  \* what is counted
    /\ Frames \in Nat
    /\ CinSize \in Nat \ {0} /\ DoutSize \in Nat \ {0}
    /\ CoutSize \in Nat /\ CoutSize >= HdrSize
    /\ DinSize \in Nat /\ DinSize >= HdrSize
    /\ Skips \subseteq Nat
    /\ Reuse \in BOOLEAN

VARIABLES sizes,     \* the size of each frame that the sender has
          frame,     \* the frame it compresses, or did last
          place,     \* how many bytes of that frame it has read
          open,      \* whether that frame was not ended yet
          cctx,      \* the compressor's context,
          cin,       \*   its input
          cout,      \*   and its output buffer
          file,      \* what was written and not yet read
          dctx,      \* the decompressor's context,
          din,       \*   its input
          dout,      \*   and its output buffer
          dret,      \* what dstream_decompress() returned last
          received   \* what the receiver took out of dout

sender == <<sizes, frame, place, open, cctx, cin>>
receiver == <<dctx, din, dout, dret, received>>
streamsvars == <<sender, cout, file, receiver>>

Data(f, from, to) == [i \in 1 .. to - from |-> DataByte(f, from + i)]

StreamsInit ==
    /\ sizes \in UNION {[1 .. n -> FrameSizes] : n \in 1 .. Frames}
    /\ frame = 0 /\ place = 0 /\ open = FALSE
    /\ cctx = NewCtx /\ dctx = NewCtx
    /\ cin = << >> /\ cout = << >> /\ file = << >>
    /\ din = << >> /\ dout = << >> /\ received = << >>
    /\ dret = RecInSize

----------------------------------------------------------------------------
Stream == IF Reuse THEN cctx ELSE NewCtx  \* cstream_create()

NextFrame ==
    /\ ~open
    /\ frame < Len(sizes)
    /\ frame' = frame + 1

(* cstream_compress_start().  Only the last frame may go without, for the  *)
(* decoder takes what follows a frame of unknown size as part of it.       *)
StartFrame ==
    /\ NextFrame
    /\ place' = 0
    /\ open' = TRUE
    /\ \/ cctx' = SetSize(Stream, sizes[frame + 1])
       \/ frame' = Len(sizes) /\ cctx' = Stream
    /\ UNCHANGED <<sizes, cin, cout, file, receiver>>

(* The sender gets more of the frame. *)
Fill ==
    /\ open
    /\ \E n \in 1 .. MIN(CinSize - Len(cin), sizes[frame] - place) :
         /\ cin' = cin \o Data(frame, place, place + n)
         /\ place' = place + n
    /\ UNCHANGED <<sizes, frame, open, cctx, cout, file, receiver>>

(* cstream_compress() *)
CompressMore ==
    /\ open
    /\ LET call == Compress(cctx, cin, cout, CoutSize)
       IN  cctx' = call.ctx /\ cin' = call.in /\ cout' = call.out
    /\ UNCHANGED <<sizes, frame, place, open, file, receiver>>

(* All of the frame was accepted, and its header. *)
Accepted(ctx, in) == in = << >> /\ ctx.bytes_out # 0

(* cstream_compress_end() *)
EndFrame ==
    /\ open
    /\ place = sizes[frame]
    /\ Accepted(cctx, cin)
    /\ open' = FALSE
    /\ cctx' = End(cctx)
    /\ UNCHANGED <<sizes, frame, place, cin, cout, file, receiver>>

(* cstream_compress1(); if something is left, the sender calls             *)
(* cstream_compress() for it.                                              *)
CompressAtOnce ==
    /\ NextFrame
    /\ sizes[frame'] <= CinSize
    /\ place' = sizes[frame']
    /\ \E skipped \in Skips :
         LET call == Compress1(Stream, skipped, Data(frame', 0, place'), cout, CoutSize)
         IN  /\ cctx' = call.ctx /\ cin' = call.in /\ cout' = call.out
             /\ open' = ~Accepted(call.ctx, call.in)
    /\ UNCHANGED <<sizes, file, receiver>>

WriteOut ==
    /\ cout # << >>
    /\ file' = file \o cout
    /\ cout' = << >>
    /\ UNCHANGED <<sender, receiver>>

----------------------------------------------------------------------------
ReadIn ==
    /\ \E n \in 1 .. MIN(DinSize - Len(din), Len(file)) :
         /\ din' = din \o Take(n, file)
         /\ file' = Drop(n, file)
    /\ UNCHANGED <<sender, cout, dctx, dout, dret, received>>

(* dstream_decompress() *)
DecompressMore ==
    /\ din # << >>
    /\ LET call == Decompress(dctx, din, dout, DoutSize)
       IN  /\ dctx' = call.ctx /\ din' = call.in /\ dout' = call.out
           /\ dret' = call.ret
    /\ UNCHANGED <<sender, cout, file, received>>

TakeOut ==
    /\ dout # << >>
    /\ received' = received \o dout
    /\ dout' = << >>
    /\ UNCHANGED <<sender, cout, file, dctx, din, dret>>

AllSent == frame = Len(sizes) /\ ~open
Empty == cout = << >> /\ file = << >> /\ din = << >> /\ dout = << >>

Done == AllSent /\ Empty /\ UNCHANGED streamsvars

Sender ==
    \/ StartFrame \/ Fill \/ CompressMore \/ EndFrame
    \/ CompressAtOnce \/ WriteOut

Receiver == ReadIn \/ DecompressMore \/ TakeOut

StreamsNext == Sender \/ Receiver \/ Done

(* The callers' loops go on while there is something to do. *)
StreamsFairness == WF_streamsvars(Sender) /\ WF_streamsvars(Receiver)

StreamsSpec == StreamsInit /\ [][StreamsNext]_streamsvars /\ StreamsFairness

----------------------------------------------------------------------------
(* The data of the frames before f, and all that the sender has read. *)
DataBefore[f \in 0 .. Len(sizes) + 1] ==
    IF f <= 1 THEN << >> ELSE DataBefore[f - 1] \o Data(f - 1, 0, sizes[f - 1])

sent == DataBefore[frame] \o Data(frame, 0, place)

decompressed == received \o dout

Context ==
    [srcsize : 0 .. SizeMax, bytes_in : 0 .. SizeMax, bytes_out : 0 .. SizeMax]

(* Every buffer keeps to its size: compress(), decompress() never write    *)
(* past outBuf->size, however full it was (funcs.c:62-66, 107-113).        *)
StreamsTypeOK ==
    /\ frame \in 0 .. Len(sizes)
    /\ open \in BOOLEAN
    /\ cctx \in Context /\ dctx \in Context
    /\ Len(cin) <= CinSize /\ Len(cout) <= CoutSize
    /\ Len(din) <= DinSize /\ Len(dout) <= DoutSize
    /\ dret \in 0 .. SizeMax

(* The decoder finds a header wherever it looks for one (funcs.c:97-104),  *)
(* although frames follow each other without a gap and the pieces that the *)
(* receiver reads end anywhere, inside a header too.                       *)
NeverHeaderError == dret # COMPRESS_ERR_HDR

(* Between two frames dstream_get_uncompressed_size() gives the size of    *)
(* the next (funcs.c:81-90), unless the sender did not declare it, which   *)
(* it may only omit for the last.                                          *)
SizeOfNextFrame ==
    dctx.bytes_in = 0 /\ Len(din) >= HdrSize
    => \E f \in 1 .. frame :
         /\ Len(decompressed) = Len(DataBefore[f])
         /\ \/ GetSize(din) = sizes[f]
            \/ f = Len(sizes) /\ GetSize(din) = UNCOMPRESS_SIZE_UNKNOWN

(* The decoder's counts are true: inside a frame of known size bytes_out   *)
(* is the place of the frame that it has reached, and it is outside of one *)
(* only after a whole number of frames.  (Otherwise the frames would shift *)
(* against each other, without any error.)                                 *)
InStep ==
    \E f \in 1 .. Len(sizes) + 1 :
      \/ dctx.bytes_in = 0 /\ Len(decompressed) = Len(DataBefore[f])
      \/ /\ f \in 1 .. frame
         /\ dctx.bytes_in = HdrSize + dctx.bytes_out
         /\ Len(decompressed) = Len(DataBefore[f]) + dctx.bytes_out
         /\ \/ dctx.srcsize = sizes[f] /\ dctx.bytes_out < sizes[f]
            \/ dctx.srcsize = UNCOMPRESS_SIZE_UNKNOWN /\ f = Len(sizes)

(* Both: the decoder and the frames never get out of step.                 *)
FramesInStep == StreamsTypeOK /\ SizeOfNextFrame /\ InStep

(* The streams implement a channel: what is decompressed is what the       *)
(* sender read so far, or the first part of it.                            *)
Chan == INSTANCE Channel WITH received <- decompressed

IsChannel == Chan!Spec

(* All the data arrives, whatever the sizes of the pieces: no buffer, once *)
(* full, keeps the two from going on.                                      *)
Delivered == <>[](AllSent /\ received = sent)
============================================================================
