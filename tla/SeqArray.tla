------------------------------ MODULE SeqArray ------------------------------
(***************************************************************************)
(* What a struct Array promises its users: a sequence of items.  Positions *)
(* are those of TLA+, one more than the code's indexes.                    *)
(***************************************************************************)
EXTENDS Integers, Sequences, SequencesExt

CONSTANTS Items,     \* the values of items
          MaxCount   \* the longest sequence

VARIABLES call,      \* the last call
          exists,    \* whether there is an array,
          items      \* and its items; << >> if not

vars == <<call, exists, items>>

Files == UNION {[1 .. n -> Items] : n \in 0 .. MaxCount}

Init == ~exists /\ items = << >> /\ call = "none"

(* A call may fail, or do nothing that its caller can see. *)
Nothing(name) == call' = name /\ UNCHANGED <<exists, items>>

New ==
    /\ ~exists /\ exists'
    /\ items' = << >>
    /\ call' = "new"

(* All of the array is replaced by the items of a file. *)
Load ==
    /\ exists'
    /\ items' \in Files
    /\ call' = "load"

Insert(item, i) ==
    /\ exists /\ Len(items) < MaxCount
    /\ items' = InsertAt(items, i, item)
    /\ call' = "insert"
    /\ UNCHANGED exists

Push(item) ==
    /\ exists /\ Len(items) < MaxCount
    /\ items' = items \o <<item>>
    /\ call' = "append"
    /\ UNCHANGED exists

Set(item, i) ==
    /\ exists
    /\ items' = [items EXCEPT ![i] = item]
    /\ call' = "set"
    /\ UNCHANGED exists

InOrder(s) == \A i, j \in DOMAIN s : i < j => s[i] <= s[j]

(* Somewhere in the range that the caller gives.  (Where in a sorted range *)
(* is said by Array's InsortKeepsOrder.)                                   *)
Insort(item, i) ==
    /\ exists /\ Len(items) < MaxCount
    /\ items' = InsertAt(items, i, item)
    /\ call' = "insort"
    /\ UNCHANGED exists

Occurrences(s, item) == Cardinality({i \in DOMAIN s : s[i] = item})

(* The same items, in order. *)
Sort ==
    /\ exists
    /\ items' \in [DOMAIN items -> Range(items)]
    /\ InOrder(items')
    /\ \A item \in Items : Occurrences(items', item) = Occurrences(items, item)
    /\ call' = "sort"
    /\ UNCHANGED exists

Clear ==
    /\ exists
    /\ items' = << >>
    /\ call' = "clear"
    /\ UNCHANGED exists

(* array_load() frees an array that it cannot fill. *)
Free ==
    /\ exists /\ ~exists'
    /\ items' = << >>
    /\ call' \in {"free", "load"}

Calls == {"new", "load", "insert", "append", "set", "insort", "sort", "clear",
          "free", "resize"}

Next ==
    \/ \E name \in Calls : Nothing(name)
    \/ New \/ Load \/ Sort \/ Clear \/ Free
    \/ \E item \in Items :
          \/ Push(item)
          \/ \E i \in 1 .. Len(items) + 1 : Insert(item, i) \/ Insort(item, i)
          \/ \E i \in 1 .. Len(items) : Set(item, i)

Spec == Init /\ [][Next]_vars
=============================================================================
