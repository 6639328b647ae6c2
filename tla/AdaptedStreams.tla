--------------------------- MODULE AdaptedStreams ---------------------------
(***************************************************************************)
(* The streams of liblzma and libzstd behind the adapters of xz.c and      *)
(* zstd.c, with a sender, a file and a receiver as in Streams.  These two, *)
(* unlike those of Streams, go by what the functions return: the sender    *)
(* calls cstream_compress_end() until it is 0, and the receiver takes 0    *)
(* from dstream_decompress() for the end of a frame, after which a stream  *)
(* of xz is used up and a new one is made.  A careful sender goes by what  *)
(* the others return as well: it flushes and ends when compress() has used *)
(* up all input, calls flush() until that is 0 before it compresses or     *)
(* ends, and compress() only with room in its output.  Another one calls   *)
(* them as it likes, and just does not forget any of its data.             *)
(*                                                                         *)
(* The codecs are external.  What they compress to is the data itself, a   *)
(* byte <<f, i>> for the byte i of the frame f, and a byte for the end of  *)
(* the frame; but they may hold any of it back until they have to give it. *)
(***************************************************************************)
EXTENDS Integers, Sequences, Reads

CONSTANTS Algos,       \* of "xz" and "zstd", those that are used
          FrameSizes,  \* the sizes of frames
          Frames,      \* the most frames
          Hold,        \* how much a codec may hold back
          CinSize, CoutSize, DinSize, DoutSize,  \* as in Streams
          RecInSize    \* rec_inbuf_size of the decompression stream

ASSUME AdaptedStreamsAssumption ==
    /\ Algos \subseteq {"xz", "zstd"}
    /\ FrameSizes \subseteq Nat /\ Frames \in Nat /\ Hold \in Nat
    /\ {CinSize, CoutSize, DinSize, DoutSize, RecInSize} \subseteq Nat \ {0}

VARIABLES algo, sizes, careful, frame, place, open,
          enc,       \* the encoder: what it holds, whether it is flushing, or
                     \*   finishing and has finished; lzma_stream.avail_in
          unflushed, \* the sender: flush() has told that there is more
          cin, cout, file,
          dec,       \* the decoder: what it holds, whether it has read the
                     \*   end of the frame and has told so
          din, dout,
          piece,     \* inBuf.size of the receiver: what it read last
          dret, received,
          erred,     \* whether compress(), flush() or end() has failed
          aborted    \* whether an assertion has

sender == <<careful, frame, place, open, enc, unflushed, cin, erred, aborted>>
receiver == <<dec, din, dout, piece, dret, received>>
adaptedvars == <<algo, sizes, sender, cout, file, receiver>>

ERR_UNK == -1  \* COMPRESS_ERR_UNK
FrameEnd == <<0, 0>>
Data(f, from, to) == [i \in 1 .. to - from |-> <<f, from + i>>]
First(n, s) == SubSeq(s, 1, n)
After(n, s) == SubSeq(s, n + 1, Len(s))

NewEnc ==
    [held |-> << >>, flushing |-> FALSE, ending |-> FALSE, over |-> FALSE, avail_in |-> 0]

NewDec == [held |-> << >>, ended |-> FALSE, over |-> FALSE]

AdaptedInit ==
    /\ algo \in Algos /\ careful \in BOOLEAN
    /\ sizes \in UNION {[1 .. n -> FrameSizes] : n \in 1 .. Frames}
    /\ frame = 0 /\ place = 0 /\ open = FALSE /\ unflushed = FALSE
    /\ enc = NewEnc /\ dec = NewDec
    /\ cin = << >> /\ cout = << >> /\ file = << >>
    /\ din = << >> /\ dout = << >> /\ received = << >>
    /\ piece = 0 /\ dret = RecInSize /\ erred = FALSE /\ aborted = FALSE

----------------------------------------------------------------------------
(* The codecs: what they have become, read and written, and what liblzma   *)
(* returns.  They go on until the input is used up or the output is full,  *)
(* or must, when they flush or finish, give out what they hold.            *)
Results(ctx, used, out, rets) == {[ctx |-> ctx, used |-> used, out |-> out, ret |-> r] : r \in rets}

OKOr(moved) == IF moved THEN {"OK"} ELSE {"OK", "BUF_ERROR"}

Refused(ctx) == Results(ctx, 0, << >>, {"PROG_ERROR"})

Ended(ctx) == Results(ctx, 0, << >>, {"STREAM_END"})

(* liblzma takes nothing but the same again, until a flush is complete;    *)
(* neither takes anything but the same until the end is.                   *)
Busy(e) == e.ending \/ (algo = "xz" /\ e.flushing)

(* lzma_code(strm, LZMA_RUN), ZSTD_compressStream() *)
Run(e, in, room) ==
    IF e.over THEN Ended(e)
    ELSE IF Busy(e) THEN Refused(e)
    ELSE UNION {LET held == e.held \o First(n, in) IN
                UNION {Results([e EXCEPT !.held = After(m, held)], n, First(m, held), OKOr(n + m > 0)) :
                         m \in {m \in 0 .. Least(room, Len(held)) :
                                  /\ n = Len(in) \/ m = room
                                  /\ Len(held) - m <= Hold}} :
                n \in 0 .. Len(in)}

(* When all is given out libzstd says so.  liblzma may need to be called   *)
(* once more to find that it has nothing left, if the output is just full, *)
(* and finds nothing where there is no room.                               *)
GivesOut(e, room, over) ==
    LET m == Least(room, Len(e.held))
        rest == After(m, e.held)
        mayTell == IF rest # << >> THEN {FALSE}
                   ELSE IF algo = "zstd" \/ m < room THEN {TRUE}
                   ELSE {FALSE, room > 0}
        Gives(told) ==
            Results([e EXCEPT !.held = rest, !.over = (over /\ told),
                              !.flushing = (algo = "xz" /\ ~over /\ ~told)],
                    0, First(m, e.held), IF told THEN {"STREAM_END"} ELSE OKOr(m > 0))
    IN  UNION {Gives(told) : told \in mayTell}

(* LZMA_FULL_FLUSH, ZSTD_flushStream() *)
Flushed(e, room) ==
    IF e.over THEN Ended(e)
    ELSE IF e.ending THEN Refused(e) ELSE GivesOut(e, room, FALSE)

(* LZMA_FINISH, ZSTD_endStream() *)
Ending(e) ==
    [e EXCEPT !.ending = TRUE, !.held = IF e.ending THEN e.held ELSE Append(e.held, FrameEnd)]

Finish(e, room) ==
    IF e.over THEN Ended(e)
    ELSE IF algo = "xz" /\ e.flushing THEN Refused(e)
    ELSE GivesOut(Ending(e), room, TRUE)

(* lzma_code() of a decoder, ZSTD_decompressStream(): not past the frame.  *)
Decode(d, in, room) ==
    LET ends == {j \in 1 .. Len(in) : in[j] = FrameEnd}
        cut == IF d.ended THEN 0
               ELSE IF ends = {} THEN Len(in) ELSE CHOOSE j \in ends : \A k \in ends : j <= k
        Read(n) ==
            LET ended == d.ended \/ n \in ends
                held == d.held \o First(IF n \in ends THEN n - 1 ELSE n, in)
                Write(m) ==
                    LET told == ended /\ m = Len(held)
                    IN  Results([held |-> After(m, held), ended |-> ended, over |-> told], n, First(m, held),
                                IF told THEN {"STREAM_END"} ELSE OKOr(n + m > 0))
            IN  UNION {Write(m) : m \in {m \in 0 .. Least(room, Len(held)) :
                           /\ n = cut \/ m = room
                           /\ ended => m = Least(room, Len(held))
                           /\ Len(held) - m <= Hold}}
    IN  IF d.over THEN Ended(d) ELSE UNION {Read(n) : n \in 0 .. cut}

----------------------------------------------------------------------------
(* What the adapters make of it. *)

(* strm->avail_in, which stays there until the next call of xz.c. *)
AvailIn(r) == IF algo = "xz" THEN Len(cin) - r.used ELSE 0

(* What is left to flush: xz_end() does not know it, only whether there is *)
(* anything.  The slip is to return avail_in, without MAX(1, ...).         *)
XzLeftUnlessErr(r) == IF r.ret \in {"STREAM_END", "OK", "BUF_ERROR"} THEN 0 ELSE ERR_UNK

XzLeft(r) ==
    CASE r.ret = "STREAM_END"              -> 0
      [] r.ret \in {"OK", "BUF_ERROR"}     -> 1
      [] OTHER                             -> ERR_UNK

ZstdLeft(r) == Len(r.ctx.held)

LeftToFlush(r) == IF algo = "xz" THEN XzLeft(r) ELSE ZstdLeft(r)

(* xz_compress() takes nothing but LZMA_OK, not even that the output is    *)
(* full, for a success.                                                    *)
CompressFails(r) == IF algo = "xz" THEN r.ret # "OK" ELSE r.ret = "PROG_ERROR"

(* The hint of xz is the size of the input buffer, whatever was read of it *)
(* before.  The slip is to have the rest of it.                            *)
HintOfRest(r) ==
    CASE r.ret = "STREAM_END" -> 0
      [] r.ret = "OK"         -> Least(RecInSize, Len(din) - r.used)
      [] OTHER                -> ERR_UNK

XzHint(r) ==
    CASE r.ret = "STREAM_END" -> 0
      [] r.ret = "OK"         -> Least(RecInSize, piece)
      [] OTHER                -> ERR_UNK

(* libzstd has a hint of its own: here, always the same. *)
ZstdHint(r) == IF r.ret = "STREAM_END" THEN 0 ELSE RecInSize

Hint(r) == IF algo = "xz" THEN XzHint(r) ELSE ZstdHint(r)

(* libzstd is ready for the next frame, when one is over. *)
Renewed(ctx, new) == IF algo = "zstd" /\ ctx.over THEN new ELSE ctx

----------------------------------------------------------------------------
(* A new cstream for xz; the slip goes on with the old one.                *)
OldStream == enc

Stream == IF algo = "xz" THEN NewEnc ELSE enc

(* cstream_create(), cstream_compress_start() *)
StartFrame ==
    /\ ~open /\ ~aborted
    /\ frame < Len(sizes)
    /\ frame' = frame + 1 /\ place' = 0 /\ open' = TRUE
    /\ enc' = Stream /\ unflushed' = FALSE
    /\ UNCHANGED <<algo, sizes, careful, cin, erred, aborted, cout, file, receiver>>

Fill ==
    /\ open /\ ~aborted
    /\ \E n \in 1 .. Least(CinSize - Len(cin), sizes[frame] - place) :
         /\ cin' = cin \o Data(frame, place, place + n)
         /\ place' = place + n
    /\ UNCHANGED <<algo, sizes, careful, frame, open, enc, unflushed, erred, aborted,
                   cout, file, receiver>>

(* xz_compress(), zstd_compress() *)
CompressMore ==
    /\ open /\ ~aborted
    /\ cin # << >>
    /\ careful => ~unflushed /\ Len(cout) < CoutSize
    /\ \E r \in Run(enc, cin, CoutSize - Len(cout)) :
         /\ enc' = [r.ctx EXCEPT !.avail_in = AvailIn(r)]
         /\ cin' = After(r.used, cin)
         /\ cout' = cout \o r.out
         /\ erred' = (erred \/ CompressFails(r))
    /\ UNCHANGED <<algo, sizes, careful, frame, place, open, unflushed, aborted, file, receiver>>

(* xz_flush(), zstd_flush() and xz_end(), zstd_end(): assert() is of xz.   *)
Empties(results, close) ==
    /\ open /\ ~aborted
    /\ careful => cin = << >> \/ unflushed
    /\ IF enc.avail_in # 0
       THEN aborted' = TRUE /\ UNCHANGED <<open, enc, unflushed, erred, cout>>
       ELSE \E r \in results :
              /\ enc' = Renewed(r.ctx, NewEnc)
              /\ cout' = cout \o r.out
              /\ open' = ~(close /\ LeftToFlush(r) = 0)
              /\ unflushed' = IF close THEN unflushed ELSE LeftToFlush(r) # 0
              /\ erred' = (erred \/ LeftToFlush(r) = ERR_UNK)
              /\ UNCHANGED aborted
    /\ UNCHANGED <<algo, sizes, careful, frame, place, cin, file, receiver>>

Flush == ~enc.ending /\ Empties(Flushed(enc, CoutSize - Len(cout)), FALSE)

(* No sender gives up data that it has not tried to compress.              *)
EndFrame ==
    /\ open /\ place = sizes[frame]
    /\ cin = << >> \/ enc.avail_in # 0
    /\ careful => ~unflushed
    /\ Empties(Finish(enc, CoutSize - Len(cout)), TRUE)

WriteOut ==
    /\ cout # << >> /\ ~aborted
    /\ file' = file \o cout
    /\ cout' = << >>
    /\ UNCHANGED <<algo, sizes, sender, receiver>>

----------------------------------------------------------------------------
ReadIn ==
    /\ din = << >>
    /\ \E n \in 1 .. Least(DinSize, Len(file)) :
         /\ din' = First(n, file) /\ piece' = n
         /\ file' = After(n, file)
    /\ UNCHANGED <<algo, sizes, sender, cout, dec, dout, dret, received>>

(* xz_decompress(), zstd_decompress(); before, a new dstream of xz, if the *)
(* last one has told that the frame is complete.                           *)
DecompressMore ==
    /\ piece > 0
    /\ LET stream == IF algo = "xz" /\ dret = 0 THEN NewDec ELSE dec
       IN  \E r \in Decode(stream, din, DoutSize - Len(dout)) :
              /\ dec' = Renewed(r.ctx, NewDec)
              /\ din' = After(r.used, din)
              /\ dout' = dout \o r.out
              /\ dret' = Hint(r)
    /\ UNCHANGED <<algo, sizes, sender, cout, file, piece, received>>

TakeOut ==
    /\ dout # << >>
    /\ received' = received \o dout
    /\ dout' = << >>
    /\ UNCHANGED <<algo, sizes, sender, cout, file, dec, din, piece, dret>>

Sender == StartFrame \/ Fill \/ CompressMore \/ Flush \/ EndFrame \/ WriteOut
Receiver == ReadIn \/ DecompressMore \/ TakeOut

AdaptedNext == Sender \/ Receiver

(* The callers' loops do what there is to do, the receiver each in turn.   *)
Fairness ==
    /\ WF_adaptedvars(Sender)
    /\ WF_adaptedvars(ReadIn) /\ WF_adaptedvars(DecompressMore) /\ WF_adaptedvars(TakeOut)

AdaptedSpec == AdaptedInit /\ [][AdaptedNext]_adaptedvars /\ Fairness

----------------------------------------------------------------------------
DataBefore[f \in 0 .. Len(sizes) + 1] ==
    IF f <= 1 THEN << >> ELSE DataBefore[f - 1] \o Data(f - 1, 0, sizes[f - 1])

sent == DataBefore[frame] \o Data(frame, 0, place)
decompressed == received \o dout
AllSent == frame = Len(sizes) /\ ~open

(* No buffer is filled beyond its size, and no decoder's hint is more than *)
(* was recommended.                                                        *)
AdaptedTypeOK ==
    /\ frame \in 0 .. Len(sizes) /\ open \in BOOLEAN
    /\ Len(cin) <= CinSize /\ Len(cout) <= CoutSize
    /\ Len(din) <= DinSize /\ Len(dout) <= DoutSize
    /\ Len(enc.held) <= Hold + 1 /\ Len(dec.held) <= Hold
    /\ dret \in {ERR_UNK} \cup 0 .. RecInSize

(* xz.c:85, 114: the assertions, and compression.h:77-96: what the calls   *)
(* return.  No call of a careful sender fails an assertion or returns an   *)
(* error.  libzstd takes those of the other as well, but liblzma, after a  *)
(* flush() that has returned 1, refuses compress() and end() alike, and    *)
(* what compress() leaves in avail_in then aborts even another flush().    *)
Acceptable == careful \/ algo = "zstd"

NeverRefused == Acceptable => ~aborted /\ ~erred

(* compression.h:94-96: when end() returns 0 the frame is complete, and    *)
(* compression.h:107-108: when decompress() does, it has given out the     *)
(* whole frame.  Neither is said while something is held back.             *)
ZeroMeansComplete ==
    /\ ~open => enc.held = << >>
    /\ dret = 0 =>
         /\ dec.held = << >>
         /\ \E f \in 1 .. frame : decompressed = DataBefore[f] \o Data(f, 0, sizes[f])

EndsAreTrue == AdaptedTypeOK /\ NeverRefused /\ ZeroMeansComplete

(* What is decompressed is what went in, in order and once, with the ends  *)
(* of frames found by the returned 0 alone.                                *)
Chan == INSTANCE Channel WITH received <- decompressed

IsChannel == Chan!Spec

(* All the data arrives: callers that go by what is returned neither wait  *)
(* for each other nor end too early, whenever they flush.                  *)
Delivered == Acceptable => <>[](AllSent /\ received = sent)
=============================================================================
