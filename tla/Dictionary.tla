----------------------------- MODULE Dictionary -----------------------------
(***************************************************************************)
(* What an index section promises its users: a lookup table from keys to   *)
(* values.  known is FALSE while there is no table that can be relied on.  *)
(***************************************************************************)
CONSTANTS Keys, Vals

VARIABLES known,   \* whether there is a table,
          table    \* and what it maps to what; a set of pairs

vars == <<known, table>>

IsFunction(pairs) == \A p, q \in pairs : p[1] = q[1] => p = q

Tables == {pairs \in SUBSET (Keys \X Vals) : IsFunction(pairs)}

Init == ~known /\ table = {}

(* Read from a file: the caller has no index yet. *)
Load == ~known /\ known' /\ table' \in Tables

(* One key gets a value, new or not; the others keep theirs. *)
Put(key, val) ==
    /\ known
    /\ table' = {p \in table : p[1] # key} \cup {<<key, val>>}
    /\ UNCHANGED known

Forget == ~known' /\ table' = {}

Next == Load \/ Forget \/ \E key \in Keys, val \in Vals : Put(key, val)

Spec == Init /\ [][Next]_vars
=============================================================================
