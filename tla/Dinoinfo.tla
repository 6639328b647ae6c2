------------------------------ MODULE Dinoinfo ------------------------------
(***************************************************************************)
(* What dinoinfo shows of an object: the loop over its name table and the  *)
(* loops over its indexes and their keys, of src/dinoinfo.c, with the hex  *)
(* helpers of src/dinotools.c.  How an object is read is in DinoReader; it *)
(* is taken here as read in full.                                          *)
(*                                                                         *)
(* A hex digit is one of Hex values, and a byte two digits.  A name is     *)
(* known by the offsets where it starts and ends: what else is printed is  *)
(* left out, and so are the headers, which are printed as they are.        *)
(***************************************************************************)
EXTENDS IndexOps, Sequences

CONSTANTS Hex,     \* 16
          KeySize, \* the bytes of a key
          LenMod,  \* how many lengths the uint8_t partkeylen and keysize have: 256
          OffMod,  \* how many offsets a Dino_NameOffset has: 65536
          CntMod,  \* how many counts a Dino_Idx_Cnt has: 2^32
          Objects, \* what there is in the files
          KeyStrs  \* what may be given with -k or -K: digits

NoKeyStr == <<-1>>

(* The powers of base, up to what the digits of a key stand for. *)
Power(base) ==
    LET pow[n \in 0 .. 2 * KeySize] == IF n = 0 THEN 1 ELSE base * pow[n - 1]
    IN  pow

ASSUME DinoinfoAssumption ==
    /\ Hex \in Nat /\ Hex > 1 /\ Bytes = Hex * Hex
    /\ KeySize \in 1 .. LenMod - 1 /\ PerByte = Power(Bytes)[KeySize - 1]
    /\ {LenMod, OffMod, CntMod} \subseteq Nat \ {0}
    /\ KeyStrs \subseteq Seq(0 .. Hex - 1)

(* An object has a name table of size bytes, which are 0 or not, and one   *)
(* after them that is not its own; and sections.  An index has count keys  *)
(* in order, and keys[count] is the memory after them; its othersec may be *)
(* one that is not there.                                                  *)
ASSUME ObjectAssumption ==
    \A o \in Objects :
       /\ o.size \in 0 .. OffMod - 1 /\ o.table \in [0 .. o.size -> {0, 1}]
       /\ o.secs \in Seq({o.secs[s] : s \in DOMAIN o.secs})
       /\ \A s \in DOMAIN o.secs :
            o.secs[s].type = "index" =>
              /\ o.secs[s].count \in 0 .. CntMod - 1
              /\ o.secs[s].keys \in [0 .. o.secs[s].count -> Keys]
              /\ \A a, b \in 0 .. o.secs[s].count - 1 :
                    a < b => o.secs[s].keys[a] < o.secs[s].keys[b]

VARIABLES object, \* the object
          show,   \* args.show: which of "names" and "indexes"
          keystr, \* args.keystr, or NoKeyStr
          loop,   \* the loop that runs, or "done", "error", "died"
          off,    \* where the next name starts
          names,  \* the names that were printed
          i,      \* the section (1 is the first), and, in a section,
          k, hi,  \*   the next key and the last
          shown   \* for each section, the rows that were printed: the digits
                  \*   of a key and its place

dinoinfovars == <<object, show, keystr, loop, off, names, i, k, hi, shown>>

(* parse_opt(), of which canonicalize_hexstr() accepts digits only. *)
ParseOpt ==
    /\ show \in SUBSET {"names", "indexes"}
    /\ keystr \in KeyStrs \cup {NoKeyStr}

DinoinfoInit ==
    /\ object \in Objects
    /\ ParseOpt
    /\ loop = IF "names" \in show THEN "names" ELSE "load"
    /\ off = 0 /\ names = {}
    /\ i = 1 /\ k = 0 /\ hi = 0
    /\ shown = [s \in DOMAIN object.secs |-> << >>]

----------------------------------------------------------------------------
(* strnlen(name, namtab_size - off) *)
NameEnd ==
    CHOOSE e \in off .. object.size :
       /\ e = object.size \/ object.table[e] = 0
       /\ \A j \in off .. e - 1 : object.table[j] # 0

(* off += len + (!name[len]); if the table ends without a 0, name[len] is  *)
(* the byte after it.  The slip forgets the 0.                             *)
NextNameAtEnd(end) == end % OffMod

NextName(end) == (end + (IF object.table[end] = 0 THEN 1 ELSE 0)) % OffMod

PrintName ==
    /\ loop = "names" /\ off < object.size
    /\ names' = names \cup {<<off, NameEnd>>}
    /\ off' = NextName(NameEnd)
    /\ UNCHANGED <<object, show, keystr, loop, i, k, hi, shown>>

NamesEnd ==
    /\ loop = "names" /\ off >= object.size
    /\ loop' = "load"
    /\ UNCHANGED <<object, show, keystr, off, names, i, k, hi, shown>>

(* load_indexes() may fail, and its result may be negative all the same.   *)
LoadIndexes ==
    /\ loop = "load"
    /\ loop' \in {"error", IF "indexes" \in show THEN "sections" ELSE "done"}
    /\ UNCHANGED <<object, show, keystr, off, names, i, k, hi, shown>>

----------------------------------------------------------------------------
(* hex2key(): two digits to a byte, and a 0 after an odd one.  The slip    *)
(* has the first digit of a byte last.                                     *)
Digit(hex, d) == IF d <= Len(hex) THEN hex[d] ELSE 0

KeyByteSwapped(hex, b) == Digit(hex, 2 * b - 1) + Hex * Digit(hex, 2 * b)

KeyByte(hex, b) == Hex * Digit(hex, 2 * b - 1) + Digit(hex, 2 * b)

(* The key that starts with the first len bytes of hex and goes on with    *)
(* fill: memset() and memcpy() of bsearchpkr().                            *)
Padded(hex, len, fill) ==
    LET key[b \in 0 .. KeySize] ==
            IF b = 0 THEN 0
            ELSE Bytes * key[b - 1] + (IF b <= len THEN KeyByte(hex, b) ELSE fill)
    IN  key[KeySize]

(* key2hex() *)
KeyHex(key) == [d \in 1 .. 2 * KeySize |-> (key \div Power(Hex)[2 * KeySize - d]) % Hex]

(* keystrlen >> 1, as a uint8_t.  The slip counts the odd digit.           *)
PartKeyLenUp(hex) == ((Len(hex) + 1) \div 2) % LenMod

PartKeyLen(hex) == (Len(hex) \div 2) % LenMod

Matching(idx) ==
    KeyMatch(FanoutOf(idx.keys, idx.count), idx.keys, KeyByte(keystr, 1) * PerByte,
             Padded(keystr, PartKeyLen(keystr), 0),
             Padded(keystr, PartKeyLen(keystr), Bytes - 1))

(* index_get_cnt(idx) - 1 is unsigned. *)
AllKeys(idx) == [lo |-> 0, hi |-> (idx.count - 1) % CntMod]

Die == loop' = "died" /\ UNCHANGED <<k, hi, shown>>

ShowKeys(range) ==
    loop' = "keys" /\ k' = range.lo /\ hi' = range.hi /\ UNCHANGED shown

----------------------------------------------------------------------------
InSection(s) == loop = "sections" /\ i = s /\ s \in DOMAIN object.secs

(* get_index() has none for this section. *)
SkipSection(s) ==
    /\ InSection(s) /\ object.secs[s].type # "index"
    /\ i' = s + 1
    /\ UNCHANGED <<object, show, keystr, loop, off, names, k, hi, shown>>

(* The section that othersec names is looked at, there or not.  One of the *)
(* blocks may not be there, and is used nevertheless.  Without -k keystr   *)
(* was never written: it is NULL, or what hex2key_a() makes of it is.      *)
(* More bytes than a key has are copied past its end: whatever that does,  *)
(* lokey and hikey are the same then, and nothing matches.  hi may be past *)
(* the last key: bsearchpkr() takes the memory after it for one more (see  *)
(* Bsearchn), and without -k an index of no keys has the greatest hi.      *)
ShowIndex(s) ==
    /\ InSection(s) /\ object.secs[s].type = "index"
    /\ \/ Die
       \/ /\ object.secs[s].othersec \in DOMAIN object.secs
          /\ IF keystr = NoKeyStr THEN ShowKeys(AllKeys(object.secs[s]))
             ELSE keystr # << >> /\ ShowKeys(Matching(object.secs[s]))
    /\ UNCHANGED <<object, show, keystr, off, names, i>>

(* A row for what is at k, in the keys or after them.                      *)
ShowRow ==
    /\ shown' = [shown EXCEPT ![i] = Append(@, <<KeyHex(object.secs[i].keys[k]), k>>)]
    /\ k' = k + 1
    /\ UNCHANGED <<loop, hi>>

ShowKey ==
    /\ loop = "keys" /\ k <= hi /\ k < object.secs[i].count
    /\ ShowRow
    /\ UNCHANGED <<object, show, keystr, off, names, i>>

(* There is no key at k, and k is not checked.  An index of no keys has no *)
(* memory for them: key2hex() is given NULL.  After the last of some keys  *)
(* is memory that bsearchpkr() has read before: what it holds is a row     *)
(* like the others, if the memory after the values can be read as well.    *)
ShowStray ==
    /\ loop = "keys" /\ k <= hi /\ k >= object.secs[i].count
    /\ \/ Die
       \/ k = object.secs[i].count /\ k > 0 /\ ShowRow
    /\ UNCHANGED <<object, show, keystr, off, names, i>>

KeysEnd ==
    /\ loop = "keys" /\ k > hi
    /\ loop' = "sections" /\ i' = i + 1
    /\ UNCHANGED <<object, show, keystr, off, names, k, hi, shown>>

SectionsEnd ==
    /\ loop = "sections" /\ i \notin DOMAIN object.secs
    /\ loop' = "done"
    /\ UNCHANGED <<object, show, keystr, off, names, i, k, hi, shown>>

DinoinfoNext ==
    \/ PrintName \/ NamesEnd \/ LoadIndexes
    \/ \E s \in DOMAIN object.secs : SkipSection(s) \/ ShowIndex(s)
    \/ ShowKey \/ ShowStray \/ KeysEnd
    \/ SectionsEnd

DinoinfoSpec ==
    DinoinfoInit /\ [][DinoinfoNext]_dinoinfovars /\ WF_dinoinfovars(DinoinfoNext)

----------------------------------------------------------------------------
DinoinfoTypeOK ==
    /\ loop \in {"names", "load", "sections", "keys", "done", "error", "died"}
    /\ off \in 0 .. OffMod - 1
    /\ i \in 1 .. Len(object.secs) + 1
    /\ k \in Nat /\ hi \in Nat
    /\ DOMAIN shown = DOMAIN object.secs

(* The names of a table: they start where it does or after a 0, and end at *)
(* the next 0 or where it ends.                                            *)
Starts == {a \in 0 .. object.size - 1 : a = 0 \/ object.table[a - 1] = 0}
Ends == {e \in 0 .. object.size : e = object.size \/ object.table[e] = 0}

NamesOfTable ==
    {n \in Starts \X Ends : n[1] <= n[2] /\ \A j \in n[1] .. n[2] - 1 : object.table[j] # 0}

(* Each name of the table is listed, with the offsets where it starts and  *)
(* ends, and nothing else is: no part of a name, nor what is after the     *)
(* table, whether it ends with a 0 or not, and empty names are not skipped *)
(* (dinoinfo.c:170-177).                                                   *)
NamesAreTable ==
    /\ DinoinfoTypeOK
    /\ names \subseteq NamesOfTable
    /\ "names" \in show /\ loop # "names" => names = NamesOfTable

(* What was asked for: the keys that begin with the digits given, without  *)
(* the last of an odd number (dinoinfo.c:214), or all of them.             *)
Even == 2 * (Len(keystr) \div 2)

Begins(idx, place) ==
    keystr # NoKeyStr =>
        SubSeq(KeyHex(idx.keys[place]), 1, Even) = SubSeq(keystr, 1, Even)

Wanted(idx) == {j \in 0 .. idx.count - 1 : Begins(idx, j)}

(* Less than a byte matches as much as a byte with a 0; a whole key none   *)
(* (bsearchn.c:146).                                                       *)
CanMatch == keystr = NoKeyStr \/ Even \in 2 .. 2 * (KeySize - 1)

(* The rows that are printed of an index are in the order of the places,   *)
(* each has the digits of what is at its own place, from which its value   *)
(* is taken too, and begins with the digits given; none is past the keys   *)
(* but the one that bsearchpkr() finds right after them (bsearchn.c:185);  *)
(* and no key that begins with the digits is left out, once the index is   *)
(* printed to the end (dinoinfo.c:208-229).                                *)
ShownIsMatching ==
    \A s \in DOMAIN object.secs :
       object.secs[s].type = "index" =>
          LET idx == object.secs[s]
              Place(n) == shown[s][n][2]
          IN
          /\ \A n \in DOMAIN shown[s] :
                /\ shown[s][n][1] = KeyHex(idx.keys[Place(n)])
                /\ CanMatch => Begins(idx, Place(n))
                /\ Place(n) < idx.count \/ (Place(n) = idx.count /\ keystr # NoKeyStr)
                /\ n > 1 => Place(n) > Place(n - 1)
          /\ (CanMatch /\ loop \in {"sections", "done"} /\ "indexes" \in show /\ s < i) =>
                Wanted(idx) \subseteq {Place(n) : n \in DOMAIN shown[s]}

(* dinoinfo ends, whatever the table and the indexes hold; but not for a   *)
(* table of the greatest size that ends without a 0, before a byte that is *)
(* 0: the offset is 0 again after that (dinoinfo.c:176).                   *)
CanWrap ==
    /\ "names" \in show
    /\ object.size = OffMod - 1 /\ object.table[object.size] = 0
    /\ object.table[object.size - 1] # 0

Finishes == ~CanWrap => <>(loop \in {"done", "error", "died"})
=============================================================================
