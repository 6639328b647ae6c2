------------------------------ MODULE RetryIO ------------------------------
(***************************************************************************)
(* The loops of lib/fileio.h that read and write until all is done, and    *)
(* the Buf of fileio.c and buf.c.  The kernel moves as many bytes as it    *)
(* likes, fails, or is interrupted.  The caller has one Buf, which it      *)
(* fills from one file and writes to another, and uses in any order.       *)
(*                                                                         *)
(* A byte of the file that is read is the number of its place there: it    *)
(* never changes.  Memory that was never written holds Garbage.            *)
(***************************************************************************)
EXTENDS Integers, Sequences, Reads

CONSTANTS MaxFile,  \* the largest file to read
          Sizes,    \* the sizes of a Buf
          MaxOut,   \* bound on the file that is written
          Garbage

ASSUME RetryIOAssumption ==
    /\ MaxFile \in Nat /\ MaxOut \in Nat
    /\ Sizes \subseteq Nat \ {0}
    /\ Garbage \notin Nat

VARIABLES fsize,   \* the size of the file that is read
          fpos,    \*   and the position of its descriptor
          out,     \* the file that is written
          opos,    \*   and the position of its descriptor
          buf,     \* struct Buf
          call,    \* the call that runs, or the one that ended last
          pc,      \* "loop" or "idle"
          ret,     \* what that returned
          base,    \* where in the file the bytes in buf begin (a ghost),
          intact   \*   if it was used for that alone and no read failed

vars == <<fsize, fpos, out, opos, buf, call, pc, ret, base, intact>>
files == <<fsize, fpos, out, opos>>

Reading == {"buf_fill", "buf_refill", "pread_retry"}
Writing == {"write_retry", "pwrite_retry"}

(* name: the function called; mem, len: the part of buf.data that it reads *)
(* into or writes from; off: where in the file it starts; recvd: the bytes *)
(* moved so far.                                                           *)
Call(name, mem, len, off) ==
    [name |-> name, mem |-> mem, len |-> len, off |-> off, recvd |-> 0]
NoCall == Call("none", 0, 0, 0)

Most(x, y) == IF x > y THEN x ELSE y

Block(size) == [i \in 0 .. size - 1 |-> Garbage]

(* buf_init(), if there is memory. *)
Init ==
    /\ fsize \in 0 .. MaxFile /\ fpos = 0
    /\ out = << >> /\ opos = 0
    /\ \E size \in Sizes : buf = [data |-> Block(size), size |-> size, pos |-> 0]
    /\ call = NoCall /\ pc = "idle" /\ ret = 0
    /\ base = 0 /\ intact = TRUE

----------------------------------------------------------------------------
Begin(c) ==
    /\ pc = "idle"
    /\ call' = c
    /\ pc' = "loop"
    /\ ret' = 0
    /\ UNCHANGED <<files, buf>>

BufFill ==
    /\ Begin(Call("buf_fill", buf.pos, buf.size - buf.pos, fpos))
    /\ UNCHANGED <<base, intact>>

BufRefill ==
    /\ Begin(Call("buf_refill", 0, buf.size, fpos))
    /\ UNCHANGED <<base, intact>>

(* pread_retry() into memory of the caller, here that of the Buf. *)
Pread ==
    /\ \E len \in 0 .. buf.size, off \in 0 .. MaxFile :
         Begin(Call("pread_retry", 0, len, off))
    /\ intact' = FALSE
    /\ UNCHANGED base

(* The caller writes what it has filled in. *)
Write ==
    /\ \E len \in 0 .. buf.pos :
         /\ opos + len <= MaxOut
         /\ Begin(Call("write_retry", 0, len, opos))
    /\ UNCHANGED <<base, intact>>

Pwrite ==
    /\ \E off \in 0 .. Len(out), len \in 0 .. buf.pos :
         /\ off + len <= MaxOut
         /\ Begin(Call("pwrite_retry", 0, len, off))
    /\ UNCHANGED <<base, intact>>

----------------------------------------------------------------------------
(* len - recvd *)
Rest == call.len - call.recvd

(* buf + recvd, and off + recvd; the slip does not move. *)
PlaceUnmoved == call.mem

Place == call.mem + call.recvd

At == call.off + call.recvd

(* The result of a call.  buf_fill() and buf_refill() look whether it is   *)
(* negative; the slip counts in any case.                                  *)
PosCounted(r) ==
    CASE call.name = "buf_fill" -> buf.pos + r
      [] call.name = "buf_refill" -> r
      [] OTHER -> buf.pos

Pos(r) ==
    CASE call.name = "buf_fill" /\ r >= 0 -> buf.pos + r
      [] call.name = "buf_refill" /\ r >= 0 -> r
      [] OTHER -> buf.pos

Return(r) ==
    /\ pc' = "idle"
    /\ ret' = r
    /\ buf' = [buf EXCEPT !.pos = Pos(r)]
    /\ base' = IF call.name = "buf_refill" /\ r >= 0 THEN call.off ELSE base
    /\ intact' = CASE call.name = "buf_refill" /\ r >= 0 -> TRUE
                   [] call.name \in {"buf_fill", "buf_refill"} /\ r < 0 /\ call.recvd > 0 -> FALSE
                   [] OTHER -> intact

(* while ((size_t) recvd < len); the slip stops after the first piece. *)
GoOnNever == FALSE

GoOn == call.recvd < call.len

Iterates == pc = "loop" /\ (call.recvd = 0 \/ GoOn)

Leave ==
    /\ pc = "loop"
    /\ ~Iterates
    /\ Return(call.recvd)
    /\ UNCHANGED <<files, call>>

(* read() or pread() returns n bytes. *)
ReadSome ==
    /\ Iterates /\ call.name \in Reading
    /\ \E n \in 1 .. Least(Rest, Left(fsize, At)) :
         /\ buf' = [buf EXCEPT !.data =
                      [i \in DOMAIN @ |-> IF i \in Place .. Place + n - 1
                                          THEN At + i - Place ELSE @[i]]]
         /\ call' = [call EXCEPT !.recvd = @ + n]
         /\ fpos' = IF call.name = "pread_retry" THEN fpos ELSE fpos + n
    /\ UNCHANGED <<fsize, out, opos, pc, ret, base, intact>>

(* write() or pwrite() takes n bytes. *)
WriteSome ==
    /\ Iterates /\ call.name \in Writing
    /\ \E n \in 1 .. Rest :
         /\ out' = [i \in 1 .. Most(Len(out), At + n) |->
                      IF i \in At + 1 .. At + n THEN buf.data[Place + i - At - 1] ELSE out[i]]
         /\ call' = [call EXCEPT !.recvd = @ + n]
         /\ opos' = IF call.name = "pwrite_retry" THEN opos ELSE opos + n
    /\ UNCHANGED <<fsize, fpos, buf, pc, ret, base, intact>>

(* The kernel returns 0: at the end of the file, or if nothing is asked.   *)
(* The slip asks again.                                                    *)
NoneLeft ==
    /\ Iterates
    /\ \/ Rest = 0
       \/ call.name \in Reading /\ Left(fsize, At) = 0

NothingMovedGoOn == NoneLeft /\ UNCHANGED vars

NothingMoved ==
    /\ NoneLeft
    /\ Return(call.recvd)
    /\ UNCHANGED <<files, call>>

(* The kernel returns -1: what was moved before is not told. *)
Fail ==
    /\ Iterates
    /\ Return(-1)
    /\ UNCHANGED <<files, call>>

(* ... with errno == EINTR: TEMP_FAILURE_RETRY() calls again. *)
Interrupt == Iterates /\ UNCHANGED vars

----------------------------------------------------------------------------
(* buf_clear(): the next bytes that are filled in are those at fpos. *)
BufClear ==
    /\ pc = "idle"
    /\ buf' = [buf EXCEPT !.pos = 0]
    /\ call' = NoCall /\ ret' = 0
    /\ base' = fpos /\ intact' = TRUE
    /\ UNCHANGED <<files, pc>>

(* buf_realloc(); the slip leaves pos where it was. *)
PosKept(size) == buf.pos

PosWithin(size) == Least(buf.pos, size)

BufRealloc ==
    /\ pc = "idle"
    /\ \E size \in Sizes :
         /\ buf' = [data |-> [i \in 0 .. size - 1 |-> IF i < buf.size THEN buf.data[i] ELSE Garbage],
                    size |-> size, pos |-> PosWithin(size)]
         /\ intact' = (intact /\ buf.pos <= size)
    /\ call' = NoCall /\ ret' = 0
    /\ UNCHANGED <<files, pc, base>>

Progress == ReadSome \/ WriteSome \/ NothingMoved \/ Leave

Next ==
    \/ BufFill \/ BufRefill \/ Pread \/ Write \/ Pwrite
    \/ BufClear \/ BufRealloc
    \/ Progress \/ Fail \/ Interrupt

(* A call is not interrupted for ever: if it does not fail, the kernel     *)
(* comes to an answer.                                                     *)
Fairness == WF_vars(Progress)

Spec == Init /\ [][Next]_vars /\ Fairness

----------------------------------------------------------------------------
Bytes == 0 .. MaxFile \cup {Garbage}

(* pos is in the buffer, whatever buf_realloc() and the results of reads   *)
(* made of it, and no call asks for memory outside (fileio.c:5 subtracts). *)
TypeOK ==
    /\ fsize \in 0 .. MaxFile /\ fpos \in 0 .. fsize
    /\ Len(out) <= MaxOut /\ \A i \in 1 .. Len(out) : out[i] \in Bytes
    /\ opos \in 0 .. Len(out)
    /\ buf.size \in Sizes /\ buf.pos \in 0 .. buf.size
    /\ buf.data \in [0 .. buf.size - 1 -> Bytes]
    /\ call.recvd \in 0 .. call.len
    /\ call.len = 0 \/ call.mem + call.len <= buf.size
    /\ pc \in {"loop", "idle"}
    /\ ret \in -1 .. MaxFile + MaxOut
    /\ intact \in BOOLEAN

Returned == pc = "idle" /\ call # NoCall

(* A read that returns less than was asked for is at the end of the file,  *)
(* in whatever pieces it came: this is what array_load() and the readers   *)
(* of headers conclude from a short count (fileio.h:46-62, 83-98).         *)
ReadsAllThereIs ==
    Returned /\ call.name \in Reading => ret \in ReadRetry(call.len, fsize, call.off)

(* What a successful call returns was moved: every piece to its place, in  *)
(* memory and in the file.                                                 *)
EveryByteInPlace ==
    Returned /\ ret >= 0
    => \A i \in 0 .. ret - 1 :
         IF call.name \in Reading THEN buf.data[call.mem + i] = call.off + i
         ELSE out[call.off + i + 1] = buf.data[call.mem + i]

(* A successful write wrote all: no short count is left to the caller      *)
(* (fileio.h:27-43, 65-80).                                                *)
WritesAll ==
    Returned /\ call.name \in Writing => ret \in {call.len, -1}

(* Both: a caller that gets no error may go by what it asked for.          *)
MovesAll == TypeOK /\ ReadsAllThereIs /\ WritesAll

(* Up to pos a Buf holds a piece of the file without a gap, and the next   *)
(* buf_fill() goes on behind it, if no call failed when it had read part.  *)
(* (After such a failure there is a gap: fpos has moved and pos has not.)  *)
HoldsPieceOfFile ==
    pc = "idle" /\ intact
    => fpos = base + buf.pos /\ \A i \in 0 .. buf.pos - 1 : buf.data[i] = base + i

(* Every call returns, if it is not interrupted for ever (fileio.h:18-23). *)
Returns == pc = "loop" ~> pc = "idle"
============================================================================
