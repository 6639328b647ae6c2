------------------------------- MODULE Mkdino -------------------------------
(***************************************************************************)
(* The loop of src/mkdino.c over the RPMs it is given: the two headers of  *)
(* each are read, the second is hashed and both are compressed, with one   *)
(* hasher, one compression stream and one output buffer for all of them.   *)
(* No result of a hasher or a stream is looked at.  Nothing is written to  *)
(* a file yet.                                                             *)
(*                                                                         *)
(* Sizes are counted in words, of which a header's intro has Intro: two    *)
(* of magic, one each of il and dl.  A word is known by the RPM it is from *)
(* and its place there.  librpm, OpenSSL and libzstd are external.         *)
(***************************************************************************)
EXTENDS Integers, Reads, Hasher

CONSTANTS Rpms,    \* the RPMs there can be
          MaxRpms, \* how many are given at most
          Lead,    \* the size of the lead, 0x60 bytes
          Align,   \* to how much a signature header is padded, 8 bytes
          Page,    \* 0x1000 bytes
          RecOuts, \* what rec_outbuf_size may be
          Garbage  \* sizes that il and dl may add up to if they were not read

Intro == 4

(* Words that are from no RPM: of the magic, what the stack held, and what *)
(* libzstd puts before and after the data of a frame.                      *)
Magic == <<<<0, 1>>, <<0, 2>>>>
NoWord == <<0, 0>>
Begin == <<0, 3>>
End == <<0, 4>>

ASSUME MkdinoAssumption ==
    /\ {MaxRpms, Align, Page} \cup RecOuts \subseteq Nat \ {0}
    /\ Lead \in Nat
    /\ Garbage \subseteq Nat

VARIABLES rpms,   \* what was given: sizes of both headers and of the file
          stage,  \* the next step, or "done", "error", "died"
          nth,    \* the RPM
          pos,    \* where fd is
          sigbuf, hdrbuf, \* the header buffers
          hasher, digest, \* the hasher, and what its last digest is of
          hashed, \* ghost: whether each call of it succeeded
          held,   \* what the stream has taken and not yet given out
          in,     \* what it has not taken of the inbuf
          out, outsize, \* outbuf, up to its pos, and its size
          lost    \* ghost: whether an end() has returned something else than 0

mkvars == <<rpms, stage, nth, pos, sigbuf, hdrbuf, hasher, digest, hashed,
          held, in, out, outsize, lost>>

----------------------------------------------------------------------------
(* An RPM, if its file is not cut off: lead, signature header, padding,    *)
(* header.  (What follows does not matter here.)                           *)
Pad(secsize) == (Align - (secsize % Align)) % Align

SigAt == Lead
HdrAt(rpm) == Lead + Intro + rpm.sig + Pad(rpm.sig)
HdrEnd(rpm) == HdrAt(rpm) + Intro + rpm.hdr

ASSUME RpmAssumption ==
    \A rpm \in Rpms : rpm.sig \in Nat /\ rpm.hdr \in Nat /\ rpm.fsize \in 0 .. HdrEnd(rpm)

(* len words of RPM r from p on, of which there are n. *)
Words(r, p, len, n) == [w \in 1 .. len |-> IF w <= n THEN <<r, p + w - 1>> ELSE NoWord]

NoHeader == [null |-> TRUE, buf |-> << >>]

MkInit ==
    /\ rpms \in UNION {[1 .. n -> Rpms] : n \in 1 .. MaxRpms}
    /\ stage \in {"next", "error", "died"}  \* whether there was memory for all
    /\ nth = 1 /\ pos = 0
    /\ sigbuf = NoHeader /\ hdrbuf = NoHeader
    /\ hasher = NewHasher /\ digest = << >> /\ hashed = FALSE
    /\ held = << >> /\ in = << >> /\ out = << >> /\ outsize \in RecOuts /\ lost = FALSE

----------------------------------------------------------------------------
(* headerReadRaw() at p.  Less than the intro may be there: the rest of it *)
(* is what the stack holds, and that may be what the call before has left  *)
(* there.  (If it fails, mkdino dies, wherever fd then is.)                *)
SizeAt(rpm, p) == CASE p = SigAt -> {rpm.sig} [] p = HdrAt(rpm) -> {rpm.hdr} [] OTHER -> {}

Sizes(rpm, p, n) == IF n < Intro THEN Garbage ELSE SizeAt(rpm, p)

Fread(rpm, p, len) == ReadRetry(len, rpm.fsize, p)

HeaderBuf(buf, p) == [h |-> [null |-> FALSE, buf |-> buf], pos |-> p]

HeaderReadRaw(p, is_sig) ==
    LET rpm == rpms[nth]
        padsize(s) == IF is_sig THEN Pad(s) ELSE 0
        complete(n, s) == s \in Fread(rpm, p + n, s) /\ padsize(s) \in Fread(rpm, p + n + s, padsize(s))
    IN  {[h |-> NoHeader, pos |-> p]}
        \cup UNION {{HeaderBuf(Words(nth, p + 2, 2 + s, n - 2 + s), p + n + s + padsize(s)) :
                       s \in {size \in Sizes(rpm, p, n) : complete(n, size)}} :
                      n \in Fread(rpm, p, Intro) \cap 1 .. Intro}

(* Fopen() and Fseek() past the lead; if one fails so does what follows.   *)
ReadSig ==
    /\ stage = "next" /\ nth \in DOMAIN rpms
    /\ \E r \in HeaderReadRaw(SigAt, TRUE) :
         /\ sigbuf' = r.h /\ pos' = r.pos
         /\ \/ stage' = "hdr"
            \/ r.h.null /\ stage' = "died"  \* if it is verbose
    /\ UNCHANGED <<rpms, nth, hdrbuf, hasher, digest, hashed, held, in, out, outsize, lost>>

ReadHdr ==
    /\ stage = "hdr"
    /\ \E r \in HeaderReadRaw(pos, FALSE) :
         /\ hdrbuf' = r.h /\ pos' = r.pos
         /\ stage' = IF r.h.null THEN "died" ELSE "digest"
    /\ UNCHANGED <<rpms, nth, sigbuf, hasher, digest, hashed, held, in, out, outsize, lost>>

(* The digest of the header with its magic; hexdigest is made of it.       *)
Digest ==
    /\ stage = "digest"
    /\ \E s \in HasherStart(hasher) : \E m \in HasherUpdate(s.hasher, Magic) :
          \E u \in HasherUpdate(m.hasher, hdrbuf.buf) : \E f \in HasherFinish(u.hasher, digest) :
             /\ hasher' = f.hasher
             /\ digest' = f.out
             /\ hashed' = ({s.ret, m.ret, u.ret, f.ret} = {1})
    /\ stage' = IF sigbuf.null THEN "died" ELSE "start"
    /\ UNCHANGED <<rpms, nth, pos, sigbuf, hdrbuf, held, in, out, outsize, lost>>

----------------------------------------------------------------------------
(* libzstd: data is as large as it was, at worst, and has a word before    *)
(* and a word after it in a frame.  Not all of the input is taken only if  *)
(* the output is full, and the end of a frame does not hold back anything  *)
(* that there is room for.                                                 *)
Room == outsize - Len(out)

GiveOut(n, from) ==
    /\ out' = out \o SubSeq(from, 1, n)
    /\ held' = SubSeq(from, n + 1, Len(from))

Take ==
    \E t \in 0 .. Len(in), n \in 0 .. Room :
       /\ t < Len(in) => n = Room
       /\ n <= Len(held) + t
       /\ GiveOut(n, held \o SubSeq(in, 1, t))

(* PAD_PAGE(input_size); there may be no memory for that. *)
PadPage(s) == ((s + Page - 1) \div Page) * Page

CompressStart ==
    LET size == PadPage(Len(sigbuf.buf) + Len(hdrbuf.buf))
    IN  /\ stage = "start" /\ stage' = "compress"
        /\ outsize' \in IF size > outsize THEN {size, outsize} ELSE {outsize}
        /\ held' = held \o <<Begin>>
        /\ in' = sigbuf.buf
        /\ UNCHANGED <<rpms, nth, pos, sigbuf, hdrbuf, hasher, digest, hashed, out, lost>>

CompressSig ==
    /\ stage = "compress" /\ stage' = "compress_hdr"
    /\ Take
    /\ in' = hdrbuf.buf
    /\ UNCHANGED <<rpms, nth, pos, sigbuf, hdrbuf, hasher, digest, hashed, outsize, lost>>

CompressHdr ==
    /\ stage = "compress_hdr" /\ stage' = "end"
    /\ Take
    /\ in' = << >>
    /\ UNCHANGED <<rpms, nth, pos, sigbuf, hdrbuf, hasher, digest, hashed, outsize, lost>>

CompressEnd ==
    LET frame == held \o <<End>>
    IN  /\ stage = "end" /\ stage' = "import"
        /\ GiveOut(Least(Room, Len(frame)), frame)
        /\ lost' = (lost \/ held' # << >>)
        /\ UNCHANGED <<rpms, nth, pos, sigbuf, hdrbuf, hasher, digest, hashed, in, outsize>>

----------------------------------------------------------------------------
(* buf_clear(outbuf), and the clean-up that forgets it *)
ClearNot(buf) == buf

Cleared(buf) == << >>

(* headerImport() and the clean-up before the next RPM.  A header that     *)
(* cannot be imported is NULL, which librpm may dereference.               *)
Import ==
    /\ stage = "import"
    /\ \/ stage' = "next" /\ nth' = nth + 1
       \/ stage' = "died" /\ nth' = nth
    /\ sigbuf' = NoHeader /\ hdrbuf' = NoHeader
    /\ out' = Cleared(out)
    /\ UNCHANGED <<rpms, pos, hasher, digest, hashed, held, in, outsize, lost>>

Finished ==
    /\ stage = "next" /\ nth \notin DOMAIN rpms
    /\ stage' = "done"
    /\ UNCHANGED <<rpms, nth, pos, sigbuf, hdrbuf, hasher, digest, hashed,
                   held, in, out, outsize, lost>>

MkNext ==
    \/ ReadSig \/ ReadHdr \/ Digest
    \/ CompressStart \/ CompressSig \/ CompressHdr \/ CompressEnd
    \/ Import \/ Finished

MkSpec == MkInit /\ [][MkNext]_mkvars

----------------------------------------------------------------------------
MkTypeOK ==
    /\ stage \in {"next", "hdr", "digest", "start", "compress", "compress_hdr", "end",
               "import", "done", "error", "died"}
    /\ nth \in 1 .. Len(rpms) + 1
    /\ pos \in Nat
    /\ hashed \in BOOLEAN /\ lost \in BOOLEAN
    /\ Len(out) <= outsize

(* What the two buffers should have: all of each header but its magic.     *)
SigOf(r) == Words(r, SigAt + 2, 2 + rpms[r].sig, 2 + rpms[r].sig)
HdrOf(r) == Words(r, HdrAt(rpms[r]) + 2, 2 + rpms[r].hdr, 2 + rpms[r].hdr)

(* A file that ends within the intro of its header passes for one with a   *)
(* header of no size, if that is what the stack says (mkdino.c:196).       *)
EndsInIntro(rpm) == rpm.fsize \in HdrAt(rpm) + 1 .. HdrAt(rpm) + Intro - 1

Compressing == stage \in {"start", "compress", "compress_hdr", "end", "import"}

(* No RPM is processed of which a header is cut off, or with another part  *)
(* of the file for its header; and its key is the digest of its own        *)
(* header, and not of the RPM before, if no call of the hasher failed      *)
(* (mkdino.c:190-223, 291-302).                                            *)
KeyIsOfHeader ==
    Compressing /\ ~EndsInIntro(rpms[nth]) =>
       /\ rpms[nth].fsize = HdrEnd(rpms[nth])
       /\ sigbuf.buf = SigOf(nth) /\ hdrbuf.buf = HdrOf(nth)
       /\ hashed => digest = Magic \o HdrOf(nth)

(* The output buffer has one frame with both headers of this RPM in full,  *)
(* and nothing of another, unless an end() has said that there is more,    *)
(* which nobody hears (mkdino.c:304-319, 345-347).                         *)
FrameIsOfRpm ==
    /\ MkTypeOK
    /\ stage = "import" /\ ~lost /\ ~EndsInIntro(rpms[nth]) =>
          out = <<Begin>> \o SigOf(nth) \o HdrOf(nth) \o <<End>>
=============================================================================
