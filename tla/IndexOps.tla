------------------------------ MODULE IndexOps ------------------------------
(***************************************************************************)
(* How an index of lib/index.c is searched: the fanout table and the range *)
(* of keys that it leaves to the searches of Bsearchn.  For Index, and for *)
(* Dinoinfo, which shows what such a search finds.                         *)
(*                                                                         *)
(* A key is the number its bytes spell; its first byte is one of Bytes     *)
(* values, and PerByte keys share it.  fanout[b] counts the keys whose     *)
(* first byte is at most b.                                                *)
(***************************************************************************)
EXTENDS Bsearchn, FiniteSets

CONSTANTS Bytes,     \* how many values the first byte of a key has: 256
          PerByte    \* how many keys share a first byte

Keys == 0 .. Bytes * PerByte - 1

FirstByte(key) == key \div PerByte

(* The fanout table that a file has for the keys 0 .. n - 1.               *)
FanoutOf(keys, n) ==
    [b \in 0 .. Bytes - 1 |-> Cardinality({i \in 0 .. n - 1 : FirstByte(keys[i]) <= b})]

(* index_find(), index_key_match(): the keys with the first byte of key.   *)
(* The slip starts where they end.                                         *)
BaseOfOwn(fanout, key) == fanout[FirstByte(key)]

BaseOf(fanout, key) == IF FirstByte(key) = 0 THEN 0 ELSE fanout[FirstByte(key) - 1]

NumOf(fanout, key) == fanout[FirstByte(key)] - BaseOf(fanout, key)

(* index_key_match(): key is the prefix with zeros after it, and lokey ..  *)
(* hikey are the keys that have it; keys[n] is what follows the last.      *)
KeyMatch(fanout, keys, key, lokey, hikey) ==
    BsearchPkr(lokey, hikey, keys, BaseOf(fanout, key), NumOf(fanout, key))
=============================================================================
