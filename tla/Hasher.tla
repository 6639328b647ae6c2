------------------------------- MODULE Hasher -------------------------------
(***************************************************************************)
(* The Hasher of lib/digest.c over a digest context of OpenSSL, which is   *)
(* external: a call of it may fail, and of the hash functions it is only   *)
(* said that a digest stands for the data that it is one of.               *)
(*                                                                         *)
(* A hasher is whether its context takes data, and the data it has taken.  *)
(* Each operator is the set of what a call can make of it and return.      *)
(***************************************************************************)
EXTENDS Sequences

Context(open, data) == [open |-> open, data |-> data]

(* EVP_MD_CTX_new() *)
NewHasher == Context(FALSE, << >>)

Result(hasher, ret) == [hasher |-> hasher, ret |-> ret]

Failed(hasher) == {Result(NewHasher, 0), Result(hasher, 0)}

(* hasher_start(): a context can be used again.  The slip goes on with the *)
(* data it had.                                                            *)
HasherStartKept(hasher) == {Result(Context(TRUE, hasher.data), 1)} \cup Failed(hasher)

HasherStart(hasher) == {Result(Context(TRUE, << >>), 1)} \cup Failed(hasher)

(* hasher_update(): before a start() and after a finish() it fails. *)
HasherUpdate(hasher, d) ==
    Failed(hasher)
    \cup {Result(Context(TRUE, hasher.data \o d), 1) : open \in {hasher.open} \cap {TRUE}}

(* hasher_finish(): nothing is written to out if it fails. *)
HasherFinish(hasher, out) ==
    {[hasher |-> r.hasher, ret |-> 0, out |-> out] : r \in Failed(hasher)}
    \cup {[hasher |-> Context(FALSE, hasher.data), ret |-> 1, out |-> hasher.data] :
             open \in {hasher.open} \cap {TRUE}}
=============================================================================
