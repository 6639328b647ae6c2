------------------------------- MODULE Varint -------------------------------
(***************************************************************************)
(* dino_encode_varint() and dino_decode_varint() of lib/varint.c, a byte   *)
(* at a time, on a buffer of the caller.  A byte is a number; its low bits *)
(* are a digit to the base Base, and Base and above is the bit that says   *)
(* that another byte follows.  A value has a width: numbers are modulo M.  *)
(*                                                                         *)
(* Each byte but the last stands for one more than its digit, so that no   *)
(* value can be written in two ways.  exact is the number that the bytes   *)
(* stand for without a limit to its width.                                 *)
(***************************************************************************)
EXTENDS Integers, Sequences

CONSTANTS Base,     \* 128
          M,        \* 2^64: how many values there are
          MaxLen,   \* VARINT_MAXLEN
          MaxVal,   \* VARINT_MAXVAL_1, VARINT_MAXVAL_2, ... up to MaxLen - 1
          Streams,  \* the contents of the buffer when something is decoded
          Buffers   \*   and when something is encoded into it

ASSUME VarintAssumption ==
    /\ Base \in Nat /\ Base > 1
    /\ M \in Nat \ {0} /\ M % Base = 0
    /\ MaxLen \in Nat /\ MaxLen > 1

(* What varint.h:20-38 says of the widths: the table has the largest value *)
(* of each length, and every value fits into VARINT_MAXLEN bytes.          *)
Longer(max) == (max + 2) * Base - 1

ASSUME WidthAssumption ==
    /\ MaxVal \in [1 .. MaxLen - 1 -> Nat]
    /\ MaxVal[1] = Base - 1
    /\ \A n \in 1 .. MaxLen - 2 : MaxVal[n + 1] = Longer(MaxVal[n])
    /\ M <= Longer(MaxVal[MaxLen - 1]) + 1

Byte == 0 .. 2 * Base - 1
Cells == 1 .. MaxLen + 1   \* one more than a varint may have

ASSUME BufferAssumption == Streams \cup Buffers \subseteq [Cells -> Byte]

Vals == 0 .. M - 1

VARIABLES phase,  \* "encode" or "decode" in the loop, "encoded", "decoded", "done"
          mem,    \* the caller's buffer
          val,    \* the local val of the function that runs
          varint, \* encode: what is in its local buffer from pos on
          pos,    \* decode: bptr - varint, the bytes read
          exact,  \* ghost: what these stand for
          result, \* what the last call returned,
          len,    \*   and left in *len
          given   \* ghost: the first argument: a value, or -1 for a buffer

varintvars == <<phase, mem, val, varint, pos, exact, result, len, given>>

(* b & 127 and b & 128; Low is also val & 127. *)
Low(b) == b % Base
More(b) == b >= Base

(* Either function is called, and gets to the test of its loop. *)
VarintInit ==
    /\ result = 0 /\ len = 0
    /\ \/ /\ phase = "encode" /\ mem \in Buffers /\ given \in Vals
          /\ val = given /\ varint = <<Low(val)>> /\ pos = 0 /\ exact = 0
       \/ /\ phase = "decode" /\ mem \in Streams /\ given = -1
          /\ val = Low(mem[1]) /\ varint = << >> /\ pos = 1 /\ exact = Low(mem[1])

----------------------------------------------------------------------------
(* while (val >>= 7) varint[--pos] = 128 | (--val & 127);  the slip takes  *)
(* the digits as they are.                                                 *)
NextDigitPlain(v) == v \div Base

NextDigit(v) == (v \div Base) - 1

EncodeByte ==
    /\ phase = "encode" /\ val \div Base # 0
    /\ val' = NextDigit(val)
    /\ varint' = <<Base + Low(val')>> \o varint
    /\ UNCHANGED <<phase, mem, pos, exact, result, len, given>>

(* if (dst): the length is returned without a buffer, or with one that it  *)
(* fits in.                                                                *)
Overwritten == [i \in Cells |-> IF i <= Len(varint) THEN varint[i] ELSE mem[i]]

EncodeEnd ==
    /\ phase = "encode" /\ val \div Base = 0
    /\ \/ /\ phase' = "done" /\ result' = Len(varint)   \* dst is NULL
          /\ UNCHANGED mem
       \/ \E dstsize \in 0 .. MaxLen :
             IF dstsize < Len(varint)
             THEN phase' = "done" /\ result' = -1 /\ UNCHANGED mem
             ELSE phase' = "encoded" /\ result' = Len(varint) /\ mem' = Overwritten
    /\ UNCHANGED <<val, varint, pos, exact, len, given>>

----------------------------------------------------------------------------
(* !val || MSB(val, 7), with the val that has been counted up.  The slip   *)
(* forgets that this may have wrapped around.                              *)
OverflowsUnlessWrapped(v) == v >= M \div Base

Overflows(v) == v = 0 \/ v >= M \div Base

Plus1 == (val + 1) % M

DecodeByte ==
    /\ phase = "decode" /\ More(mem[pos]) /\ ~Overflows(Plus1)
    /\ pos' = pos + 1
    /\ val' = (Plus1 * Base + Low(mem[pos'])) % M
    /\ exact' = (exact + 1) * Base + Low(mem[pos'])
    /\ UNCHANGED <<phase, mem, varint, result, len, given>>

(* VARINT_MAXVAL if len is NULL; else 0, and 0 in *len. *)
DecodeOverflow ==
    /\ phase = "decode" /\ More(mem[pos]) /\ Overflows(Plus1)
    /\ phase' = "done"
    /\ result' \in {M - 1, 0}
    /\ len' = 0
    /\ UNCHANGED <<mem, val, varint, pos, exact, given>>

DecodeEnd ==
    /\ phase = "decode" /\ ~More(mem[pos])
    /\ phase' = "decoded"
    /\ result' = val /\ len' = pos
    /\ UNCHANGED <<mem, val, varint, pos, exact, given>>

----------------------------------------------------------------------------
(* The caller, as the tests do (test_misc.c:143-155), decodes what it has  *)
(* encoded; or it encodes again what it has decoded.                       *)
DecodeAgain ==
    /\ phase = "encoded"
    /\ phase' = "decode" /\ val' = Low(mem[1]) /\ pos' = 1 /\ exact' = Low(mem[1])
    /\ UNCHANGED <<mem, varint, result, len, given>>

EncodeAgain ==
    /\ phase = "decoded" /\ given = -1
    /\ phase' = "encode" /\ varint' = <<Low(val)>>
    /\ UNCHANGED <<mem, val, pos, exact, result, len, given>>

VarintNext ==
    \/ EncodeByte \/ EncodeEnd
    \/ DecodeByte \/ DecodeOverflow \/ DecodeEnd
    \/ DecodeAgain \/ EncodeAgain

VarintSpec == VarintInit /\ [][VarintNext]_varintvars

----------------------------------------------------------------------------
VarintTypeOK ==
    /\ phase \in {"encode", "encoded", "decode", "decoded", "done"}
    /\ mem \in [Cells -> Byte]
    /\ val \in Vals /\ varint \in Seq(Byte)
    /\ pos \in Nat /\ exact \in Nat
    /\ result \in Int /\ len \in Nat
    /\ given \in Vals \cup {-1}

(* The decoder never loses a bit of a value that has wrapped around, and   *)
(* gives up only on bytes that stand for no value, whatever follows them   *)
(* (varint.c:28-41).                                                       *)
NeverWraps ==
    /\ phase \in {"decode", "decoded"} => val = exact
    /\ phase = "decoded" => result = exact /\ len = pos
    /\ phase = "done" /\ len = 0 /\ pos > 0 =>
           More(mem[pos]) /\ (exact + 1) * Base >= M

(* No varint is longer than VARINT_MAXLEN: the encoder makes none, and the *)
(* decoder reads no more bytes than that, though it does not know how many *)
(* there are (varint.h:23-25).                                             *)
StaysInMaxLen == Len(varint) <= MaxLen /\ pos <= MaxLen

DecodesExactly == VarintTypeOK /\ NeverWraps /\ StaysInMaxLen

(* Encoding and decoding are each other's inverse: a value that was        *)
(* encoded is decoded from as many bytes, which are the fewest that the    *)
(* table of varint.h:28-38 allows; and bytes that could be decoded are     *)
(* what the encoder makes again, from the last to the first, so that no    *)
(* value has two encodings (varint.c:11-46).                               *)
RoundTrips ==
    /\ phase = "decoded" /\ given # -1 =>
           /\ result = given /\ len = Len(varint)
           /\ len < MaxLen => given <= MaxVal[len]
           /\ len > 1 => given > MaxVal[len - 1]
    /\ phase = "encode" /\ given = -1 =>
           /\ Len(varint) <= len
           /\ \A i \in 1 .. Len(varint) : varint[i] = mem[len - Len(varint) + i]
    /\ phase = "encoded" /\ given = -1 => Len(varint) = len
=============================================================================
