------------------------ MODULE PrefixSearch_proofs -------------------------
(***************************************************************************)
(* bsearchpkr_cmp() for arrays, ranges, keys and prefixes of any size: it  *)
(* never reads before its range, nor more than one item after it, and what *)
(* it returns is exact.                                                    *)
(*                                                                         *)
(* The invariant says what the bisection has cut off, as for the other     *)
(* searches, and then, of the two scans, that each has passed matching     *)
(* items only and stopped where there was no other.                        *)
(***************************************************************************)
EXTENDS PrefixSearch, Bsearchn_proofs, TLAPS

mid == Mid(baseidx, num)
top == mid + num \div 2

Window == base0 <= baseidx /\ baseidx + num <= base0 + num0

(* All that is not in the window is too small or too great.  (A match is   *)
(* cut off only if the prefix is the whole key.)                           *)
CutsOffSafely ==
    Sorted /\ (lokey < hikey \/ Matching = {}) =>
       /\ \A i \in base0 .. baseidx - 1 : array[i] < lokey
       /\ \A i \in baseidx + num .. base0 + num0 - 1 : array[i] > hikey

(* The two scans start at the midpoint and stay in the window; upwards,    *)
(* one more item.                                                          *)
Scans ==
    /\ lr = Cmp(lokey, array[mid]) /\ hr = Cmp(hikey, array[mid]) /\ lr # hr
    /\ rv.lo \in baseidx .. mid /\ rv.hi \in mid .. top
    /\ \A i \in rv.lo .. rv.hi : HasPrefix(array[i])
    /\ lr = 0 => rv.lo = mid
    /\ hr = 0 => rv.hi = mid
    /\ pc = "down" => rv.hi = mid /\ idx = mid
    /\ pc \in {"up", "done"} => ~MoreBelow /\ idx = top
    /\ pc = "done" => ~MoreAbove

Found ==
    /\ pc \in {"down", "up"} => num > 0
    /\ pc # "bisect" /\ num > 0 => Scans
    /\ pc = "done" /\ num = 0 => rv.lo = baseidx + 1 /\ rv.hi = baseidx

Inv == TypeOK /\ Window /\ CutsOffSafely /\ Found

----------------------------------------------------------------------------
(* The midpoint is an item of the window. *)
LEMMA Midpoint ==
    ASSUME NEW b \in Nat, NEW n \in Nat, n > 0
    PROVE  /\ Mid(b, n) \in b .. b + n - 1
           /\ LeftNum(n) \in Nat /\ RightNum(n) \in Nat
           /\ b + LeftNum(n) = Mid(b, n)
           /\ Mid(b, n) + 1 + RightNum(n) = b + n
           /\ Mid(b, n) + n \div 2 \in b + n - 1 .. b + n
  BY DEF Mid, LeftNum, RightNum

(* The keys with a prefix, from the first to the last. *)
LEMMA Keys == TypeOK => lokey \in Nat /\ hikey \in Nat /\ lokey <= hikey
  <1> SUFFICES ASSUME TypeOK PROVE lokey \in Nat /\ hikey \in Nat /\ lokey <= hikey
    OBVIOUS
  <1>1. prefix \in Nat /\ width \in Nat /\ width > 0
    BY PrefixAssumption DEF TypeOK
  <1>2. prefix * width \in Nat
    BY <1>1
  <1> QED
    BY <1>1, <1>2 DEF lokey, hikey

(* The types of what a search computes with. *)
LEMMA Types ==
    TypeOK => /\ Count \in Nat /\ base0 \in Nat /\ num0 \in Nat /\ base0 + num0 <= Count
              /\ baseidx \in Nat /\ num \in Nat /\ idx \in Nat
              /\ rv.lo \in Nat /\ rv.hi \in Nat
              /\ \A i \in 0 .. Count : array[i] \in Int
  <1> SUFFICES ASSUME TypeOK
               PROVE  /\ Count \in Nat /\ base0 \in Nat /\ num0 \in Nat /\ base0 + num0 <= Count
                      /\ baseidx \in Nat /\ num \in Nat /\ idx \in Nat
                      /\ rv.lo \in Nat /\ rv.hi \in Nat
                      /\ \A i \in 0 .. Count : array[i] \in Int
    OBVIOUS
  <1>1. Count \in Nat /\ base0 \in Nat /\ num0 \in Nat /\ base0 + num0 <= Count
        /\ baseidx \in Nat /\ num \in Nat /\ idx \in Nat
    BY CountAssumption DEF TypeOK
  <1>2. rv.lo \in Nat /\ rv.hi \in Nat
    BY DEF TypeOK
  <1>3. \A i \in 0 .. Count : array[i] \in Int
    BY ItemsAssumption DEF TypeOK
  <1> QED
    BY <1>1, <1>2, <1>3

(* What the two comparisons say of an item. *)
LEMMA Compared ==
    ASSUME NEW lo \in Int, NEW hi \in Int, NEW x \in Int, lo <= hi
    PROVE  /\ Cmp(lo, x) \in {-1, 0, 1}
           /\ Cmp(lo, x) # Cmp(hi, x) => lo <= x /\ x <= hi
           /\ Cmp(lo, x) = 0 <=> lo = x
           /\ Cmp(lo, x) = Cmp(hi, x) /\ Cmp(lo, x) > 0 => x < lo
           /\ Cmp(lo, x) = Cmp(hi, x) /\ Cmp(lo, x) <= 0 => x > hi \/ (x = lo /\ x = hi)
  BY DEF Cmp

----------------------------------------------------------------------------
(* The invariant holds when the search begins. *)
LEMMA InitInv == Init => Inv
  <1> SUFFICES ASSUME Init PROVE Inv
    OBVIOUS
  <1>1. TypeOK
    BY CountAssumption DEF Init, TypeOK
  <1>2. Window /\ Found
    BY <1>1, Types DEF Init, Window, Found
  <1>3. CutsOffSafely
    BY <1>1, Types DEF Init, CutsOffSafely
  <1> QED
    BY <1>1, <1>2, <1>3 DEF Inv

(* What an iteration of the bisection finds at the midpoint. *)
LEMMA Probed ==
    ASSUME Inv, Probe
    PROVE  /\ pc = "bisect" /\ num > 0 /\ idx' = mid
           /\ array' = array /\ prefix' = prefix /\ width' = width
           /\ base0' = base0 /\ num0' = num0 /\ lokey' = lokey /\ hikey' = hikey
           /\ mid \in baseidx .. baseidx + num - 1 /\ mid \in Range0 /\ mid \in 0 .. Count
           /\ array[mid] \in Int
           /\ lr' = Cmp(lokey, array[mid]) /\ hr' = Cmp(hikey, array[mid])
           /\ lr' \in {-1, 0, 1} /\ hr' \in {-1, 0, 1}
  <1>1. /\ pc = "bisect" /\ num > 0 /\ idx' = mid
        /\ array' = array /\ prefix' = prefix /\ width' = width
        /\ base0' = base0 /\ num0' = num0
        /\ lr' = Cmp(lokey, array[mid]) /\ hr' = Cmp(hikey, array[mid])
    BY DEF Probe, inputs, mid
  <1>2. lokey' = lokey /\ hikey' = hikey
    BY <1>1 DEF lokey, hikey
  <1>3. TypeOK /\ Window
    BY DEF Inv
  <1>4. mid \in baseidx .. baseidx + num - 1
    BY <1>1, <1>3, Types, Midpoint DEF mid
  <1>5. mid \in Range0 /\ mid \in 0 .. Count
    BY <1>3, <1>4, Types DEF Range0, Window
  <1>6. array[mid] \in Int
    BY <1>3, <1>5, Types
  <1>7. lr' \in {-1, 0, 1} /\ hr' \in {-1, 0, 1}
    BY <1>1 DEF Cmp
  <1> QED
    BY <1>1, <1>2, <1>4, <1>5, <1>6, <1>7

(* The array stays sorted, and the same items match. *)
LEMMA SameRange ==
    ASSUME array' = array, base0' = base0, num0' = num0, lokey' = lokey, hikey' = hikey
    PROVE  /\ Range0' = Range0 /\ Sorted' = Sorted /\ Matching' = Matching
  <1>1. Range0' = Range0
    BY DEF Range0
  <1>2. Sorted' = Sorted
    BY <1>1 DEF Sorted
  <1>3. Matching' = Matching
    BY <1>1 DEF Matching, HasPrefix
  <1> QED
    BY <1>1, <1>2, <1>3

(* Each step of the search keeps the invariant: leaving the bisection, *)
LEMMA BreakInv == Inv /\ Break => Inv'
  <1> SUFFICES ASSUME Inv, Break PROVE Inv'
    OBVIOUS
  <1>1. /\ Probe /\ lr' # hr' /\ rv' = [lo |-> mid, hi |-> mid] /\ pc' = "down"
        /\ baseidx' = baseidx /\ num' = num
    BY Probed DEF Break
  <1>2. TypeOK /\ Window /\ CutsOffSafely
    BY DEF Inv
  <1>3. mid \in Nat /\ rv'.lo = mid /\ rv'.hi = mid /\ mid' = mid
    BY <1>1, <1>2, Probed, Types DEF mid
  <1>4. TypeOK'
    BY <1>1, <1>2, <1>3, Probed DEF TypeOK
  <1>5. Window' /\ CutsOffSafely'
    BY <1>1, <1>2, Probed, SameRange DEF Window, CutsOffSafely
  <1>6. Found'
    <2>1. HasPrefix(array[mid])
      BY <1>1, <1>2, Probed, Keys, Compared DEF HasPrefix
    <2>2. \A i \in rv'.lo .. rv'.hi : HasPrefix(array[i])'
      BY <1>1, <1>3, <2>1, Probed DEF HasPrefix
    <2>3. mid \in baseidx .. mid /\ mid \in mid .. mid + num \div 2
      BY <1>1, <1>2, <1>3, Probed, Types, Midpoint
    <2>4. Scans'
      BY <1>1, <1>3, <2>2, <2>3, Probed DEF Scans, top
    <2> QED
      BY <1>1, <2>4, Probed DEF Found
  <1> QED
    BY <1>4, <1>5, <1>6 DEF Inv

(* bisecting to the right, *)
LEMMA GoRightInv == Inv /\ GoRight => Inv'
  <1> SUFFICES ASSUME Inv, GoRight PROVE Inv'
    OBVIOUS
  <1>1. /\ Probe /\ lr' = hr' /\ lr' > 0 /\ baseidx' = mid + 1 /\ num' = RightNum(num)
        /\ rv' = rv /\ pc' = pc
    BY Probed DEF GoRight
  <1>2. TypeOK /\ Window /\ CutsOffSafely
    BY DEF Inv
  <1>3. baseidx' \in Nat /\ num' \in Nat /\ baseidx' + num' = baseidx + num
        /\ baseidx' > baseidx /\ baseidx' - 1 = mid
    <2>1. baseidx \in Nat /\ num \in Nat /\ num > 0
      BY <1>1, <1>2, Probed, Types
    <2>2. RightNum(num) \in Nat /\ mid + 1 + RightNum(num) = baseidx + num
      BY <2>1, Midpoint DEF mid
    <2>3. mid \in baseidx .. baseidx + num - 1
      BY <1>1, Probed
    <2> QED
      BY <1>1, <2>1, <2>2, <2>3
  <1>4. TypeOK'
    <2>1. mid \in Nat
      BY <1>1, <1>2, Probed, Types
    <2> QED
      BY <1>1, <1>2, <1>3, <2>1, Probed DEF TypeOK
  <1>5. Window'
    BY <1>1, <1>2, <1>3, Probed, Types DEF Window
  <1>6. CutsOffSafely'
    <2> SUFFICES ASSUME Sorted, lokey < hikey \/ Matching = {}
                 PROVE  /\ \A i \in base0 .. mid : array[i] < lokey
                        /\ \A i \in baseidx + num .. base0 + num0 - 1 : array[i] > hikey
      BY <1>1, <1>3, Probed, SameRange DEF CutsOffSafely
    <2>1. array[mid] < lokey
      BY <1>1, <1>2, Probed, Keys, Compared
    <2>2. ASSUME NEW i \in base0 .. mid
          PROVE  array[i] < lokey
      <3>1. i \in Range0 /\ i <= mid /\ i \in 0 .. Count
        BY <1>1, <1>2, Probed, Types DEF Range0, Window
      <3>2. array[i] <= array[mid]
        BY <1>1, <3>1, Probed DEF Sorted
      <3>3. array[i] \in Int /\ array[mid] \in Int /\ lokey \in Int
        BY <1>1, <1>2, <3>1, Probed, Types, Keys
      <3> QED
        BY <2>1, <3>2, <3>3
    <2> QED
      BY <1>2, <2>2 DEF CutsOffSafely
  <1>7. Found'
    BY <1>1, Probed DEF Found
  <1> QED
    BY <1>4, <1>5, <1>6, <1>7 DEF Inv

(* bisecting to the left, *)
LEMMA GoLeftInv == Inv /\ GoLeft => Inv'
  <1> SUFFICES ASSUME Inv, GoLeft PROVE Inv'
    OBVIOUS
  <1>1. /\ Probe /\ lr' = hr' /\ lr' <= 0 /\ baseidx' = baseidx /\ num' = LeftNum(num)
        /\ rv' = rv /\ pc' = pc
    BY Probed DEF GoLeft
  <1>2. TypeOK /\ Window /\ CutsOffSafely
    BY DEF Inv
  <1>3. num' \in Nat /\ baseidx + num' = mid /\ mid \in Nat
    BY <1>1, <1>2, Probed, Types, Midpoint DEF mid
  <1>4. TypeOK'
    BY <1>1, <1>2, <1>3, Probed DEF TypeOK
  <1>5. Window'
    BY <1>1, <1>2, <1>3, Probed, Types DEF Window
  <1>6. CutsOffSafely'
    <2> SUFFICES ASSUME Sorted, lokey < hikey \/ Matching = {}
                 PROVE  /\ \A i \in base0 .. baseidx - 1 : array[i] < lokey
                        /\ \A i \in mid .. base0 + num0 - 1 : array[i] > hikey
      BY <1>1, <1>2, <1>3, Probed, SameRange, Types DEF CutsOffSafely
    <2>1. array[mid] > hikey
      <3>1. array[mid] > hikey \/ (array[mid] = lokey /\ array[mid] = hikey)
        BY <1>1, <1>2, Probed, Keys, Compared
      <3>2. CASE array[mid] = lokey /\ array[mid] = hikey
        <4>1. Matching = {}
          BY <1>2, <3>2, Keys
        <4>2. mid \in Matching
          BY <1>1, <1>2, <3>2, Probed, Keys DEF Matching, HasPrefix
        <4> QED
          BY <4>1, <4>2
      <3> QED
        BY <3>1, <3>2
    <2>2. ASSUME NEW i \in mid .. base0 + num0 - 1
          PROVE  array[i] > hikey
      <3>1. i \in Range0 /\ i >= mid /\ i \in 0 .. Count
        BY <1>1, <1>2, <1>3, Probed, Types DEF Range0, Window
      <3>2. array[mid] <= array[i]
        BY <1>1, <3>1, Probed DEF Sorted
      <3>3. array[i] \in Int /\ array[mid] \in Int /\ hikey \in Int
        BY <1>1, <1>2, <3>1, Probed, Types, Keys
      <3> QED
        BY <2>1, <3>2, <3>3
    <2> QED
      BY <1>2, <2>2 DEF CutsOffSafely
  <1>7. Found'
    BY <1>1, Probed DEF Found
  <1> QED
    BY <1>4, <1>5, <1>6, <1>7 DEF Inv

----------------------------------------------------------------------------
(* The steps after the bisection leave the window as it is. *)
LEMMA WindowStays ==
    ASSUME Inv, UNCHANGED <<inputs, baseidx, num>>
    PROVE  /\ Window' /\ CutsOffSafely' /\ mid' = mid /\ top' = top
           /\ lokey' = lokey /\ hikey' = hikey
  <1>1. /\ array' = array /\ prefix' = prefix /\ width' = width
        /\ base0' = base0 /\ num0' = num0 /\ baseidx' = baseidx /\ num' = num
    BY DEF inputs
  <1>2. lokey' = lokey /\ hikey' = hikey /\ mid' = mid /\ top' = top
    BY <1>1 DEF lokey, hikey, mid, top
  <1>3. Window' /\ CutsOffSafely'
    BY <1>1, <1>2, SameRange DEF Inv, Window, CutsOffSafely
  <1> QED
    BY <1>2, <1>3

(* ending without a match, *)
LEMMA NoMatchInv == Inv /\ NoMatch => Inv'
  <1> SUFFICES ASSUME Inv, NoMatch PROVE Inv'
    OBVIOUS
  <1>1. /\ num = 0 /\ rv' = [lo |-> baseidx + 1, hi |-> baseidx] /\ pc' = "done"
        /\ UNCHANGED <<inputs, baseidx, num, idx, lr, hr>>
    BY DEF NoMatch
  <1>2. TypeOK'
    <2>1. baseidx \in Nat /\ baseidx + 1 \in Nat
      BY Types DEF Inv
    <2> QED
      BY <1>1, <2>1 DEF Inv, TypeOK, inputs
  <1>3. Window' /\ CutsOffSafely'
    BY <1>1, WindowStays
  <1>4. Found'
    BY <1>1 DEF Found
  <1> QED
    BY <1>2, <1>3, <1>4 DEF Inv

(* Where the scans are. *)
LEMMA ScanTypes ==
    ASSUME Inv, pc \in {"down", "up"}
    PROVE  /\ Scans /\ num > 0 /\ TypeOK
           /\ baseidx \in Nat /\ mid \in Nat /\ top \in Nat /\ rv.lo \in Nat /\ rv.hi \in Nat
           /\ rv \in [lo : Nat, hi : Nat]
           /\ baseidx <= rv.lo /\ rv.lo <= mid /\ mid <= rv.hi /\ rv.hi <= top
           /\ num \div 2 \in Nat
  <1>1. TypeOK /\ num > 0 /\ Scans /\ rv \in [lo : Nat, hi : Nat]
    BY DEF Inv, Found, TypeOK
  <1>2. mid \in Nat /\ top \in Nat /\ num \div 2 \in Nat
    BY <1>1, Types DEF mid, top, Mid
  <1>3. rv.lo \in baseidx .. mid /\ rv.hi \in mid .. top
    BY <1>1 DEF Scans
  <1> QED
    BY <1>1, <1>2, <1>3, Types

(* scanning down, *)
LEMMA ScanDownInv == Inv /\ ScanDown => Inv'
  <1> SUFFICES ASSUME Inv, ScanDown PROVE Inv'
    OBVIOUS
  <1>1. /\ pc = "down" /\ MoreBelow /\ rv' = [rv EXCEPT !.lo = @ - 1]
        /\ UNCHANGED <<inputs, baseidx, num, idx, lr, hr, pc>>
    BY DEF ScanDown
  <1>2. /\ array' = array /\ prefix' = prefix /\ width' = width
        /\ base0' = base0 /\ num0' = num0 /\ baseidx' = baseidx /\ num' = num
        /\ idx' = idx /\ lr' = lr /\ hr' = hr /\ pc' = pc
    BY <1>1 DEF inputs
  <1>3. Window' /\ CutsOffSafely' /\ mid' = mid /\ top' = top /\ lokey' = lokey /\ hikey' = hikey
    BY <1>1, WindowStays
  <1>4. lr # 0 /\ rv.lo > baseidx /\ HasPrefix(array[rv.lo - 1])
    BY <1>1 DEF MoreBelow
  <1>5. rv'.lo = rv.lo - 1 /\ rv'.hi = rv.hi /\ rv.lo - 1 \in Nat
        /\ rv' \in [lo : Nat, hi : Nat]
    <2>1. rv.lo - 1 \in Nat
      BY <1>1, <1>4, ScanTypes
    <2> QED
      BY <1>1, <2>1, ScanTypes
  <1>6. TypeOK'
    BY <1>2, <1>5 DEF Inv, TypeOK
  <1>7. Scans'
    <2>1. rv'.lo \in baseidx .. mid
      BY <1>1, <1>4, <1>5, ScanTypes
    <2>2. ASSUME NEW i \in rv'.lo .. rv'.hi
          PROVE  HasPrefix(array[i])'
      <3>1. HasPrefix(array[i])
        <4>1. CASE i = rv.lo - 1
          BY <1>4, <4>1
        <4>2. CASE i # rv.lo - 1
          <5>1. i \in rv.lo .. rv.hi
            BY <1>1, <1>5, <4>2, ScanTypes
          <5> QED
            BY <1>1, <5>1, ScanTypes DEF Scans
        <4> QED
          BY <4>1, <4>2
      <3> QED
        BY <1>2, <1>3, <3>1 DEF HasPrefix
    <2>3. Scans
      BY <1>1, ScanTypes
    <2> QED
      BY <1>1, <1>2, <1>3, <1>4, <1>5, <2>1, <2>2, <2>3 DEF Scans
  <1>8. Found'
    BY <1>1, <1>2, <1>7, ScanTypes DEF Found
  <1> QED
    BY <1>3, <1>6, <1>8 DEF Inv

(* having scanned down, *)
LEMMA EndDownInv == Inv /\ EndDown => Inv'
  <1> SUFFICES ASSUME Inv, EndDown PROVE Inv'
    OBVIOUS
  <1>1. /\ pc = "down" /\ ~MoreBelow /\ idx' = idx + num \div 2 /\ pc' = "up"
        /\ UNCHANGED <<inputs, baseidx, num, lr, hr, rv>>
    BY DEF EndDown
  <1>2. /\ array' = array /\ prefix' = prefix /\ width' = width
        /\ base0' = base0 /\ num0' = num0 /\ baseidx' = baseidx /\ num' = num
        /\ lr' = lr /\ hr' = hr /\ rv' = rv
    BY <1>1 DEF inputs
  <1>3. Window' /\ CutsOffSafely' /\ mid' = mid /\ top' = top /\ lokey' = lokey /\ hikey' = hikey
    BY <1>1, WindowStays
  <1>4. idx' = top
    BY <1>1, ScanTypes DEF Scans, top
  <1>5. TypeOK'
    <2>1. idx' \in Nat
      BY <1>1, <1>4, ScanTypes
    <2> QED
      BY <1>1, <1>2, <2>1 DEF Inv, TypeOK
  <1>6. (~MoreBelow)' /\ \A i : HasPrefix(array[i])' <=> HasPrefix(array[i])
    BY <1>1, <1>2, <1>3 DEF MoreBelow, HasPrefix
  <1>7. Scans'
    <2>1. Scans
      BY <1>1, ScanTypes
    <2> QED
      BY <1>1, <1>2, <1>3, <1>4, <1>6, <2>1 DEF Scans
  <1>8. Found'
    BY <1>1, <1>2, <1>7, ScanTypes DEF Found
  <1> QED
    BY <1>3, <1>5, <1>8 DEF Inv

(* scanning up, *)
LEMMA ScanUpInv == Inv /\ ScanUp => Inv'
  <1> SUFFICES ASSUME Inv, ScanUp PROVE Inv'
    OBVIOUS
  <1>1. /\ pc = "up" /\ MoreAbove /\ rv' = [rv EXCEPT !.hi = @ + 1]
        /\ UNCHANGED <<inputs, baseidx, num, idx, lr, hr, pc>>
    BY DEF ScanUp
  <1>2. /\ array' = array /\ prefix' = prefix /\ width' = width
        /\ base0' = base0 /\ num0' = num0 /\ baseidx' = baseidx /\ num' = num
        /\ idx' = idx /\ lr' = lr /\ hr' = hr /\ pc' = pc
    BY <1>1 DEF inputs
  <1>3. Window' /\ CutsOffSafely' /\ mid' = mid /\ top' = top /\ lokey' = lokey /\ hikey' = hikey
    BY <1>1, WindowStays
  <1>4. hr # 0 /\ rv.hi < idx /\ HasPrefix(array[rv.hi + 1])
    BY <1>1 DEF MoreAbove
  <1>5. rv'.hi = rv.hi + 1 /\ rv'.lo = rv.lo /\ rv' \in [lo : Nat, hi : Nat]
    <2>1. rv.hi + 1 \in Nat
      BY <1>1, ScanTypes
    <2> QED
      BY <1>1, <2>1, ScanTypes
  <1>6. TypeOK'
    BY <1>2, <1>5 DEF Inv, TypeOK
  <1>7. Scans'
    <2>0. Scans /\ idx = top
      BY <1>1, ScanTypes DEF Scans
    <2>1. rv'.hi \in mid .. top
      BY <1>1, <1>4, <1>5, <2>0, ScanTypes
    <2>2. ASSUME NEW i \in rv'.lo .. rv'.hi
          PROVE  HasPrefix(array[i])'
      <3>1. HasPrefix(array[i])
        <4>1. CASE i = rv.hi + 1
          BY <1>4, <4>1
        <4>2. CASE i # rv.hi + 1
          <5>1. i \in rv.lo .. rv.hi
            BY <1>1, <1>5, <4>2, ScanTypes
          <5> QED
            BY <2>0, <5>1 DEF Scans
        <4> QED
          BY <4>1, <4>2
      <3> QED
        BY <1>2, <1>3, <3>1 DEF HasPrefix
    <2>3. (~MoreBelow)'
      <3>1. ~MoreBelow
        BY <1>1, <2>0 DEF Scans
      <3> QED
        BY <1>2, <1>3, <1>5, <3>1 DEF MoreBelow, HasPrefix
    <2> QED
      BY <1>1, <1>2, <1>3, <1>4, <1>5, <2>0, <2>1, <2>2, <2>3 DEF Scans
  <1>8. Found'
    BY <1>1, <1>2, <1>7, ScanTypes DEF Found
  <1> QED
    BY <1>3, <1>6, <1>8 DEF Inv

(* and having scanned up. *)
LEMMA EndUpInv == Inv /\ EndUp => Inv'
  <1> SUFFICES ASSUME Inv, EndUp PROVE Inv'
    OBVIOUS
  <1>1. /\ pc = "up" /\ ~MoreAbove /\ pc' = "done"
        /\ UNCHANGED <<inputs, baseidx, num, idx, lr, hr, rv>>
    BY DEF EndUp
  <1>2. /\ array' = array /\ prefix' = prefix /\ width' = width
        /\ base0' = base0 /\ num0' = num0 /\ baseidx' = baseidx /\ num' = num
        /\ idx' = idx /\ lr' = lr /\ hr' = hr /\ rv' = rv
    BY <1>1 DEF inputs
  <1>3. Window' /\ CutsOffSafely' /\ mid' = mid /\ top' = top /\ lokey' = lokey /\ hikey' = hikey
    BY <1>1, WindowStays
  <1>4. TypeOK'
    BY <1>1, <1>2 DEF Inv, TypeOK
  <1>5. /\ (~MoreAbove)' /\ (MoreBelow' <=> MoreBelow)
        /\ \A i : HasPrefix(array[i])' <=> HasPrefix(array[i])
    BY <1>1, <1>2, <1>3 DEF MoreAbove, MoreBelow, HasPrefix
  <1>6. Scans'
    <2>1. Scans
      BY <1>1, ScanTypes
    <2> QED
      BY <1>1, <1>2, <1>3, <1>5, <2>1 DEF Scans
  <1>7. Found'
    BY <1>1, <1>2, <1>6, ScanTypes DEF Found
  <1> QED
    BY <1>3, <1>4, <1>7 DEF Inv

(* A step that changes nothing changes nothing. *)
LEMMA StutterInv == Inv /\ UNCHANGED vars => Inv'
  BY DEF Inv, vars, TypeOK, Window, CutsOffSafely, Sorted, Matching, Range0, HasPrefix,
         Found, Scans, MoreBelow, MoreAbove, lokey, hikey, mid, top

(* All steps keep the invariant. *)
LEMMA StepInv == Inv /\ [Next]_vars => Inv'
  BY BreakInv, GoRightInv, GoLeftInv, NoMatchInv, ScanDownInv, EndDownInv, ScanUpInv,
     EndUpInv, StutterInv DEF Next

(* The invariant holds in every state. *)
LEMMA Invariant == Spec => []Inv
  BY InitInv, StepInv, PTL DEF Spec

----------------------------------------------------------------------------
(* Whatever the array holds, the search compares no item below its range   *)
(* and at most one above it (bsearchn.c:142-188).                          *)
THEOREM ReadsInRange == Spec => []ReadsNearRange
  <1>1. Inv => ReadsNearRange
    <2> SUFFICES ASSUME Inv PROVE Reads \subseteq base0 .. base0 + num0
      BY DEF Inv, ReadsNearRange
    <2>1. TypeOK /\ base0 <= baseidx /\ baseidx + num <= base0 + num0
      BY DEF Inv, Window
    <2>2. CASE pc = "bisect" /\ num > 0
      <3>1. mid \in baseidx .. baseidx + num - 1
        BY <2>1, <2>2, Types, Midpoint DEF mid
      <3> QED
        BY <2>1, <2>2, <3>1, Types DEF Reads, mid
    <2>3. CASE pc = "down" /\ lr # 0 /\ rv.lo > baseidx
      <3>1. mid \in baseidx .. baseidx + num - 1
        BY <2>1, <2>3, ScanTypes, Types, Midpoint DEF mid
      <3>2. rv.lo - 1 \in base0 .. base0 + num0
        BY <2>1, <2>3, <3>1, ScanTypes, Types
      <3> QED
        BY <2>3, <3>2 DEF Reads
    <2>4. CASE pc = "up" /\ hr # 0 /\ rv.hi < idx
      <3>1. idx = top
        BY <2>4, ScanTypes DEF Scans
      <3>2. top \in baseidx + num - 1 .. baseidx + num
        BY <2>1, <2>4, ScanTypes, Types, Midpoint DEF mid, top
      <3>3. rv.hi + 1 \in base0 .. base0 + num0
        BY <2>1, <2>4, <3>1, <3>2, ScanTypes, Types
      <3> QED
        BY <2>4, <3>3 DEF Reads
    <2> QED
      BY <2>2, <2>3, <2>4 DEF Reads
  <1> QED
    BY <1>1, Invariant, PTL

(* The range of a search that has found a match, as the scans leave it. *)
LEMMA DoneTypes ==
    ASSUME Inv, pc = "done", num > 0
    PROVE  /\ Scans /\ TypeOK /\ Window
           /\ lokey \in Nat /\ hikey \in Nat /\ base0 \in Nat /\ num0 \in Nat
           /\ baseidx \in Nat /\ num \in Nat /\ mid \in Nat /\ rv.lo \in Nat /\ rv.hi \in Nat
           /\ baseidx <= rv.lo /\ rv.lo <= mid /\ mid <= rv.hi /\ rv.hi <= top
           /\ mid \in Range0 /\ HasPrefix(array[mid])
           /\ top \in baseidx + num - 1 .. baseidx + num /\ idx = top
           /\ base0 <= baseidx /\ baseidx + num <= base0 + num0
           /\ \A i \in Range0 : array[i] \in Int
  <1>1. TypeOK /\ Window /\ Scans /\ idx = top
    BY DEF Inv, Found, Scans
  <1>2. mid \in baseidx .. baseidx + num - 1 /\ top \in baseidx + num - 1 .. baseidx + num
    BY <1>1, Types, Midpoint DEF mid, top
  <1>3. rv.lo \in baseidx .. mid /\ rv.hi \in mid .. top
    BY <1>1 DEF Scans
  <1>4. base0 <= baseidx /\ baseidx + num <= base0 + num0
    BY <1>1 DEF Window
  <1>5. mid \in Nat /\ mid \in rv.lo .. rv.hi /\ mid \in Range0
    BY <1>1, <1>2, <1>3, <1>4, Types DEF Range0
  <1>6. HasPrefix(array[mid])
    BY <1>1, <1>5 DEF Scans
  <1>7. \A i \in Range0 : array[i] \in Int
    <2>1. \A i \in Range0 : i \in 0 .. Count
      BY <1>1, Types DEF Range0
    <2> QED
      BY <1>1, <2>1, Types
  <1> QED
    BY <1>1, <1>2, <1>3, <1>4, <1>5, <1>6, <1>7, Types, Keys

(* In a sorted array, an item between two that match matches. *)
LEMMA Between ==
    ASSUME TypeOK, Sorted, \A i \in Range0 : array[i] \in Int,
           NEW i \in Range0, NEW j \in Range0, NEW k \in Range0, i <= j, j <= k,
           HasPrefix(array[i]), HasPrefix(array[k])
    PROVE  HasPrefix(array[j])
  <1>1. array[i] <= array[j] /\ array[j] <= array[k]
    BY DEF Sorted
  <1>2. lokey \in Int /\ hikey \in Int
    BY Keys
  <1> QED
    BY <1>1, <1>2 DEF HasPrefix

(* Below the range that is returned nothing matches but copies of lokey. *)
LEMMA NothingBelow ==
    ASSUME Inv, pc = "done", num > 0, Sorted, lokey < hikey,
           NEW i \in Matching, i < rv.lo
    PROVE  array[i] = lokey /\ array[mid] = lokey /\ mid \in Returned
  <1>1. i \in Range0 /\ HasPrefix(array[i]) /\ i \in Nat
    BY DoneTypes DEF Matching, Range0
  <1>2. mid \in Returned
    BY DoneTypes DEF Returned
  <1>3. CASE lr = 0
    <2>1. array[mid] \in Int /\ Cmp(lokey, array[mid]) = 0
      BY <1>3, DoneTypes DEF Scans
    <2>2. array[mid] = lokey
      BY <2>1, DoneTypes DEF Cmp
    <2>3. i <= mid
      BY <1>1, DoneTypes
    <2>4. array[i] <= array[mid] /\ lokey <= array[i]
      BY <1>1, <2>3, DoneTypes DEF Sorted, HasPrefix
    <2>5. array[i] \in Int
      BY <1>1, DoneTypes
    <2> QED
      BY <1>2, <2>2, <2>4, <2>5, DoneTypes
  <1>4. CASE lr # 0
    <2>1. rv.lo <= baseidx \/ ~HasPrefix(array[rv.lo - 1])
      BY <1>4, DoneTypes DEF Scans, MoreBelow
    <2>2. i \in base0 .. base0 + num0 - 1
      BY <1>1 DEF Range0
    <2>3. CASE i < baseidx
      <3>1. array[i] < lokey
        BY <2>2, <2>3, DoneTypes DEF Inv, CutsOffSafely
      <3> QED
        BY <1>1, <3>1, DoneTypes DEF HasPrefix
    <2>4. CASE i >= baseidx
      <3>1. ~HasPrefix(array[rv.lo - 1])
        BY <1>1, <2>1, <2>4, DoneTypes
      <3>2. rv.lo - 1 \in Range0 /\ i <= rv.lo - 1 /\ rv.lo - 1 <= mid
        BY <1>1, <2>4, DoneTypes DEF Range0
      <3> QED
        BY <1>1, <3>1, <3>2, DoneTypes, Between
    <2> QED
      BY <1>1, <2>3, <2>4, DoneTypes
  <1> QED
    BY <1>3, <1>4

(* Above it nothing matches but copies of hikey. *)
LEMMA NothingAbove ==
    ASSUME Inv, pc = "done", num > 0, Sorted, lokey < hikey,
           NEW i \in Matching, i > rv.hi
    PROVE  array[i] = hikey /\ array[mid] = hikey /\ mid \in Returned
  <1>1. i \in Range0 /\ HasPrefix(array[i]) /\ i \in Nat
    BY DoneTypes DEF Matching, Range0
  <1>2. mid \in Returned
    BY DoneTypes DEF Returned
  <1>3. CASE hr = 0
    <2>1. array[mid] \in Int /\ Cmp(hikey, array[mid]) = 0
      BY <1>3, DoneTypes DEF Scans
    <2>2. array[mid] = hikey
      BY <2>1, DoneTypes DEF Cmp
    <2>3. mid <= i
      BY <1>1, DoneTypes
    <2>4. array[mid] <= array[i] /\ array[i] <= hikey
      BY <1>1, <2>3, DoneTypes DEF Sorted, HasPrefix
    <2>5. array[i] \in Int
      BY <1>1, DoneTypes
    <2>6. hikey \in Nat
      BY DoneTypes
    <2> QED
      BY <1>2, <2>2, <2>4, <2>5, <2>6
  <1>4. CASE hr # 0
    <2>1. rv.hi >= top \/ ~HasPrefix(array[rv.hi + 1])
      BY <1>4, DoneTypes DEF Scans, MoreAbove
    <2>2. i \in base0 .. base0 + num0 - 1
      BY <1>1 DEF Range0
    <2>3. CASE i >= baseidx + num
      <3>1. i \in baseidx + num .. base0 + num0 - 1
        BY <1>1, <2>2, <2>3, DoneTypes
      <3>2. array[i] > hikey
        BY <3>1 DEF Inv, CutsOffSafely
      <3>3. array[i] \in Int /\ hikey \in Int /\ array[i] <= hikey
        BY <1>1, DoneTypes DEF HasPrefix
      <3> QED
        BY <3>2, <3>3
    <2>4. CASE i < baseidx + num
      <3>1. ~HasPrefix(array[rv.hi + 1])
        <4>1. rv.hi < top
          BY <1>1, <2>4, DoneTypes
        <4> QED
          BY <2>1, <4>1, DoneTypes
      <3>2. rv.hi + 1 \in Range0 /\ mid <= rv.hi + 1 /\ rv.hi + 1 <= i
        BY <1>1, <2>2, DoneTypes DEF Range0
      <3> QED
        BY <1>1, <3>1, <3>2, DoneTypes, Between
    <2> QED
      BY <1>1, <2>3, <2>4, DoneTypes
  <1> QED
    BY <1>3, <1>4

(* A search that finds nothing has cut off all of a sorted range. *)
LEMMA NothingMatches ==
    ASSUME Inv, pc = "done", num = 0, Sorted, lokey < hikey \/ Matching = {}
    PROVE  /\ Matching = {} /\ Returned = {} /\ rv.lo = rv.hi + 1
           /\ rv.hi \in base0 .. base0 + num0
           /\ \A i \in Range0 : IF i < rv.hi THEN array[i] < lokey ELSE array[i] > hikey
  <1>1. TypeOK /\ rv.lo = baseidx + 1 /\ rv.hi = baseidx /\ base0 <= baseidx
        /\ baseidx + num <= base0 + num0
    BY DEF Inv, Found, Window
  <1>2. rv.hi \in base0 .. base0 + num0 /\ rv.lo = rv.hi + 1 /\ Returned = {}
    BY <1>1, Types DEF Returned
  <1>3. ASSUME NEW i \in Range0
        PROVE  IF i < rv.hi THEN array[i] < lokey ELSE array[i] > hikey
    <2>1. CASE i < baseidx
      <3>1. i \in base0 .. baseidx - 1
        BY <1>1, <2>1, Types DEF Range0
      <3> QED
        BY <1>1, <2>1, <3>1 DEF Inv, CutsOffSafely
    <2>2. CASE ~(i < baseidx)
      <3>1. i \in baseidx + num .. base0 + num0 - 1
        BY <1>1, <2>2, Types DEF Range0
      <3> QED
        BY <1>1, <2>2, <3>1 DEF Inv, CutsOffSafely
    <2> QED
      BY <2>1, <2>2
  <1>4. Matching = {}
    <2> SUFFICES ASSUME NEW i \in Range0, HasPrefix(array[i])
                 PROVE  FALSE
      BY DEF Matching
    <2>1. i \in 0 .. Count /\ array[i] \in Int
      BY <1>1, Types DEF Range0
    <2>2. array[i] < lokey \/ array[i] > hikey
      BY <1>3
    <2> QED
      BY <1>1, <2>1, <2>2, Keys DEF HasPrefix
  <1> QED
    BY <1>2, <1>3, <1>4

(* In a sorted array the range returned is all that matches, but for other *)
(* copies of the first or the last key with the prefix, if the prefix is   *)
(* shorter than a key and the item after the range does not match; and if  *)
(* nothing matches it is where the prefix would go (bsearchn.h:62-66).     *)
THEOREM FindsExactRange == Spec => []RangeIsExact
  <1>1. ASSUME Inv, pc = "done", Sorted, lokey < hikey, NothingPastRange
        PROVE  /\ Returned \subseteq Matching
               /\ \A i \in Matching \ Returned :
                     /\ array[i] \in {lokey, hikey}
                     /\ \E j \in Returned : array[j] = array[i]
    <2>1. CASE num = 0
      BY <1>1, <2>1, NothingMatches
    <2>2. CASE num > 0
      <3>1. ASSUME NEW i \in Returned
            PROVE  i \in Matching
        <4>1. HasPrefix(array[i])
          BY <1>1, <2>2, DoneTypes DEF Scans, Returned
        <4>2. i # base0 + num0
          BY <1>1, <4>1 DEF NothingPastRange
        <4>3. i \in Range0
          BY <1>1, <2>2, <4>2, DoneTypes DEF Returned, Range0
        <4> QED
          BY <4>1, <4>3 DEF Matching
      <3>2. ASSUME NEW i \in Matching \ Returned
            PROVE  /\ array[i] \in {lokey, hikey}
                   /\ \E j \in Returned : array[j] = array[i]
        <4>1. i < rv.lo \/ i > rv.hi
          BY <1>1, <2>2, DoneTypes DEF Returned, Matching, Range0
        <4> QED
          BY <1>1, <2>2, <4>1, NothingBelow, NothingAbove
      <3> QED
        BY <3>1, <3>2
    <2> QED
      BY <1>1, <2>1, <2>2, Types DEF Inv
  <1>2. ASSUME Inv, pc = "done", Sorted, Matching = {}
        PROVE  /\ rv.lo = rv.hi + 1 /\ rv.hi \in base0 .. base0 + num0
               /\ \A i \in Range0 : IF i < rv.hi THEN array[i] < lokey ELSE array[i] > hikey
    <2>1. num = 0
      <3>1. CASE num > 0
        <4>1. mid \in Matching
          BY <1>2, <3>1, DoneTypes DEF Matching
        <4> QED
          BY <1>2, <4>1
      <3> QED
        BY <1>2, <3>1, Types DEF Inv
    <2> QED
      BY <1>2, <2>1, NothingMatches
  <1>3. Inv => RangeIsExact
    BY <1>1, <1>2 DEF RangeIsExact, ExactRange, NoMatchIsInsertionPoint
  <1> QED
    BY <1>3, Invariant, PTL

----------------------------------------------------------------------------
(* What the operator says of the window that is left is what it says of    *)
(* the whole range, and its two scans lead from where the loops are to     *)
(* where they will end.                                                    *)
Pkr == PkrSearch(lokey, hikey, array)
Down == DownFrom(lokey, hikey, array, baseidx)
Up == UpFrom(lokey, hikey, array, top)

FinalLo == IF array[mid] = lokey THEN mid ELSE Down[mid]
FinalHi == IF array[mid] = hikey THEN mid ELSE Up[mid]

SameWindow ==
    /\ Pkr[<<baseidx, num>>] = Pkr[<<base0, num0>>]
    /\ pc # "bisect" => Pkr[<<baseidx, num>>] = <<baseidx, num>>

SameScans ==
    /\ pc = "down" => FinalLo = IF lr = 0 THEN mid ELSE Down[rv.lo]
    /\ pc \in {"up", "done"} /\ num > 0 => rv.lo = FinalLo
    /\ pc \in {"down", "up"} => FinalHi = IF hr = 0 THEN mid ELSE Up[rv.hi]
    /\ pc = "done" /\ num > 0 => rv.hi = FinalHi
    /\ pc = "done" /\ num = 0 => rv.lo = baseidx + 1 /\ rv.hi = baseidx

Agrees == SameWindow /\ SameScans

(* The operator's step at the window that is left. *)
LEMMA PkrStep ==
    ASSUME Inv
    PROVE  /\ num = 0 => Pkr[<<baseidx, num>>] = <<baseidx, num>>
           /\ num > 0 =>
                Pkr[<<baseidx, num>>] =
                   IF HasPrefix(array[mid]) /\ lokey < hikey THEN <<baseidx, num>>
                   ELSE IF lokey > array[mid] THEN Pkr[<<mid + 1, RightNum(num)>>]
                   ELSE Pkr[<<baseidx, LeftNum(num)>>]
           /\ baseidx \in Nat /\ num \in Nat /\ lokey \in Nat /\ hikey \in Nat
           /\ lokey <= hikey
           /\ num > 0 => mid \in Nat /\ array[mid] \in Int
  <1> DEFINE w == <<baseidx, num>>
  <1>1. baseidx \in Nat /\ num \in Nat /\ lokey \in Nat /\ hikey \in Nat /\ lokey <= hikey
    BY Types, Keys DEF Inv
  <1>2. num > 0 => mid \in Nat /\ array[mid] \in Int
    <2> SUFFICES ASSUME num > 0 PROVE mid \in Nat /\ array[mid] \in Int
      OBVIOUS
    <2>1. mid \in baseidx .. baseidx + num - 1
      BY <1>1, Midpoint DEF mid
    <2>2. mid \in 0 .. Count
      BY <1>1, <2>1, Types DEF Inv, Window
    <2> QED
      BY <2>2, Types DEF Inv
  <1>3. w \in Windows /\ w[1] = baseidx /\ w[2] = num
    BY <1>1 DEF Windows
  <1>4. RightOf(w) = <<mid + 1, RightNum(num)>> /\ LeftOf(w) = <<baseidx, LeftNum(num)>>
    BY DEF RightOf, LeftOf, mid
  <1>5. Mid(w[1], w[2]) = mid
    BY <1>3 DEF mid
  <1> HIDE DEF w
  <1>6. num = 0 => Pkr[w] = w
    <2> SUFFICES ASSUME num = 0 PROVE PkrSearch(lokey, hikey, array)[w] = w
      BY DEF Pkr
    <2>1. w \in Windows /\ w[2] = 0
      BY <1>3
    <2> QED
      BY <2>1, PkrRecurs
  <1>7. num > 0 => Pkr[w] = IF HasPrefix(array[mid]) /\ lokey < hikey THEN w
                            ELSE IF lokey > array[mid] THEN Pkr[RightOf(w)]
                            ELSE Pkr[LeftOf(w)]
    <2> SUFFICES ASSUME num > 0
                 PROVE  Pkr[w] = IF HasPrefix(array[mid]) /\ lokey < hikey THEN w
                                 ELSE IF lokey > array[mid] THEN Pkr[RightOf(w)]
                                 ELSE Pkr[LeftOf(w)]
      OBVIOUS
    <2>1. w[2] # 0
      BY <1>1, <1>3
    <2>2. CASE HasPrefix(array[mid]) /\ lokey < hikey
      BY <1>3, <1>5, <2>1, <2>2, PkrRecurs DEF Pkr, HasPrefix, Within
    <2>3. CASE ~(HasPrefix(array[mid]) /\ lokey < hikey)
      BY <1>3, <1>5, <2>1, <2>3, PkrRecurs DEF Pkr, HasPrefix, Within
    <2> QED
      BY <2>2, <2>3
  <1> QED
    BY <1>1, <1>2, <1>4, <1>6, <1>7 DEF w

(* Each step keeps the loop and the operator in agreement: leaving it, *)
LEMMA BreakAgrees == Inv /\ Agrees /\ Break => Agrees'
  <1> SUFFICES ASSUME Inv, Agrees, Break PROVE Agrees'
    OBVIOUS
  <1>1. /\ num > 0 /\ UNCHANGED <<inputs, baseidx, num>> /\ pc' = "down"
        /\ rv' = [lo |-> mid, hi |-> mid]
        /\ lr' = Cmp(lokey, array[mid]) /\ hr' = Cmp(hikey, array[mid]) /\ lr' # hr'
    BY DEF Break, Probe, mid
  <1>2. /\ HasPrefix(array[mid]) /\ lokey < hikey
        /\ lr' = 0 <=> array[mid] = lokey
        /\ hr' = 0 <=> array[mid] = hikey
    <2>1. lokey \in Int /\ hikey \in Int /\ lokey <= hikey /\ array[mid] \in Int
      BY <1>1, PkrStep
    <2> QED
      BY <1>1, <2>1 DEF Cmp, HasPrefix
  <1>3. /\ UNCHANGED <<lokey, hikey, mid, top, Pkr, Down, Up, array, FinalLo, FinalHi>>
    BY <1>1 DEF inputs, lokey, hikey, mid, top, Pkr, Down, Up, FinalLo, FinalHi
  <1>4. SameWindow'
    BY <1>1, <1>2, <1>3, PkrStep DEF Agrees, SameWindow, inputs
  <1>5. SameScans'
    BY <1>1, <1>2, <1>3 DEF SameScans, FinalLo, FinalHi
  <1> QED
    BY <1>4, <1>5 DEF Agrees

(* bisecting, *)
LEMMA GoAgrees == Inv /\ Agrees /\ (GoRight \/ GoLeft) => Agrees'
  <1> SUFFICES ASSUME Inv, Agrees, GoRight \/ GoLeft PROVE Agrees'
    OBVIOUS
  <1>1. /\ num > 0 /\ UNCHANGED inputs /\ pc = "bisect" /\ pc' = pc
        /\ Cmp(lokey, array[mid]) = Cmp(hikey, array[mid])
        /\ \/ Cmp(lokey, array[mid]) > 0 /\ baseidx' = mid + 1 /\ num' = RightNum(num)
           \/ ~(Cmp(lokey, array[mid]) > 0) /\ baseidx' = baseidx /\ num' = LeftNum(num)
    <2>1. CASE GoRight
      BY <2>1 DEF GoRight, Probe, mid
    <2>2. CASE GoLeft
      <3>1. lr' <= 0 /\ lr' = Cmp(lokey, array[mid])
        BY <2>2 DEF GoLeft, Probe, mid
      <3>2. ~(Cmp(lokey, array[mid]) > 0)
        BY <3>1 DEF Cmp
      <3> QED
        BY <2>2, <3>2 DEF GoLeft, Probe, mid
    <2> QED
      BY <2>1, <2>2
  <1>2. /\ ~(HasPrefix(array[mid]) /\ lokey < hikey)
        /\ lokey > array[mid] <=> Cmp(lokey, array[mid]) > 0
    <2>1. lokey \in Int /\ hikey \in Int /\ array[mid] \in Int
      BY <1>1, PkrStep
    <2> QED
      BY <1>1, <2>1 DEF Cmp, HasPrefix
  <1>3. UNCHANGED <<lokey, hikey, Pkr, array>>
    BY <1>1 DEF inputs, lokey, hikey, Pkr
  <1>4. Pkr[<<baseidx, num>>] = Pkr[<<baseidx', num'>>]
    BY <1>1, <1>2, PkrStep
  <1>5. SameWindow'
    BY <1>1, <1>3, <1>4 DEF Agrees, SameWindow, inputs
  <1>6. SameScans'
    BY <1>1 DEF SameScans
  <1> QED
    BY <1>5, <1>6 DEF Agrees

(* ending without a match. *)
LEMMA NoMatchAgrees == Inv /\ Agrees /\ NoMatch => Agrees'
  <1> SUFFICES ASSUME Inv, Agrees, NoMatch PROVE Agrees'
    OBVIOUS
  <1>1. UNCHANGED <<lokey, hikey, Pkr, base0, num0, baseidx, num>> /\ pc' = "done" /\ num = 0
    BY DEF NoMatch, inputs, lokey, hikey, Pkr
  <1>2. SameWindow'
    BY <1>1, PkrStep DEF Agrees, SameWindow
  <1>3. SameScans'
    BY <1>1, PkrStep DEF SameScans, NoMatch
  <1> QED
    BY <1>2, <1>3 DEF Agrees

(* While a scan runs, the array, the keys and the window stay. *)
LEMMA ScanAgrees ==
    Inv /\ Agrees /\ (ScanDown \/ EndDown \/ ScanUp \/ EndUp) => Agrees'
  <1> SUFFICES ASSUME Inv, Agrees, ScanDown \/ EndDown \/ ScanUp \/ EndUp PROVE Agrees'
    OBVIOUS
  <1>1. pc \in {"down", "up"} /\ UNCHANGED <<inputs, baseidx, num, lr, hr>>
    BY DEF ScanDown, EndDown, ScanUp, EndUp
  <1>2. num > 0 /\ Scans
    BY <1>1, PkrStep DEF Inv, Found
  <1>3. UNCHANGED <<lokey, hikey, mid, top, Pkr, Down, Up, FinalLo, FinalHi>>
    BY <1>1 DEF inputs, lokey, hikey, mid, top, Pkr, Down, Up, FinalLo, FinalHi
  <1>4. SameWindow'
    BY <1>1, <1>3 DEF Agrees, SameWindow, inputs
  <1>5. /\ baseidx \in Nat /\ num \in Nat /\ mid \in Nat /\ top \in Nat
        /\ rv.lo \in Nat /\ rv.hi \in Nat
    <2>1. baseidx \in Nat /\ num \in Nat /\ rv.lo \in Nat /\ rv.hi \in Nat
      BY Types DEF Inv
    <2>2. mid \in Nat
      BY <1>2, PkrStep
    <2>3. num \div 2 \in Nat
      BY <2>1
    <2> QED
      BY <2>1, <2>2, <2>3 DEF top
  <1>6. Down[rv.lo] = IF rv.lo > baseidx /\ HasPrefix(array[rv.lo - 1])
                      THEN Down[rv.lo - 1] ELSE rv.lo
    BY <1>5, DownRecurs DEF Down, HasPrefix, Within
  <1>7. Up[rv.hi] = IF rv.hi < top /\ HasPrefix(array[rv.hi + 1])
                    THEN Up[rv.hi + 1] ELSE rv.hi
    BY <1>5, UpRecurs DEF Up, HasPrefix, Within
  <1>8. CASE ScanDown
    <2>1. pc = "down" /\ pc' = pc /\ MoreBelow /\ rv'.lo = rv.lo - 1 /\ rv'.hi = rv.hi
      BY <1>8 DEF ScanDown, Inv, TypeOK
    <2>2. lr # 0 /\ Down[rv.lo] = Down[rv'.lo]
      BY <1>6, <2>1 DEF MoreBelow
    <2>3. SameScans'
      BY <1>1, <1>3, <2>1, <2>2 DEF Agrees, SameScans
    <2> QED
      BY <1>4, <2>3 DEF Agrees
  <1>9. CASE EndDown
    <2>1. pc = "down" /\ pc' = "up" /\ ~MoreBelow /\ rv' = rv
      BY <1>9 DEF EndDown
    <2>2. rv.lo = FinalLo
      <3>1. CASE lr = 0
        BY <1>2, <2>1, <3>1 DEF Agrees, SameScans, Scans
      <3>2. CASE lr # 0
        BY <1>6, <2>1, <3>2 DEF Agrees, SameScans, MoreBelow
      <3> QED
        BY <3>1, <3>2
    <2>3. SameScans'
      BY <1>1, <1>3, <2>1, <2>2 DEF Agrees, SameScans
    <2> QED
      BY <1>4, <2>3 DEF Agrees
  <1>10. CASE ScanUp
    <2>1. pc = "up" /\ pc' = pc /\ MoreAbove /\ rv'.hi = rv.hi + 1 /\ rv'.lo = rv.lo
      BY <1>10 DEF ScanUp, Inv, TypeOK
    <2>2. hr # 0 /\ Up[rv.hi] = Up[rv'.hi]
      BY <1>2, <1>7, <2>1 DEF MoreAbove, Scans
    <2>3. SameScans'
      BY <1>1, <1>3, <2>1, <2>2 DEF Agrees, SameScans
    <2> QED
      BY <1>4, <2>3 DEF Agrees
  <1>11. CASE EndUp
    <2>1. pc = "up" /\ pc' = "done" /\ ~MoreAbove /\ rv' = rv
      BY <1>11 DEF EndUp
    <2>2. rv.hi = FinalHi
      <3>1. CASE hr = 0
        BY <1>2, <2>1, <3>1 DEF Agrees, SameScans, Scans
      <3>2. CASE hr # 0
        BY <1>2, <1>7, <2>1, <3>2 DEF Agrees, SameScans, MoreAbove, Scans
      <3> QED
        BY <3>1, <3>2
    <2>3. SameScans'
      BY <1>1, <1>2, <1>3, <2>1, <2>2 DEF Agrees, SameScans
    <2> QED
      BY <1>4, <2>3 DEF Agrees
  <1> QED
    BY <1>8, <1>9, <1>10, <1>11

(* The operator that the index's search for a prefix uses computes what    *)
(* the loops do.                                                           *)
THEOREM LoopsAndOperator == Spec => []OperatorAgrees
  <1>1. Init => Agrees
    BY DEF Init, Agrees, SameWindow, SameScans
  <1>2. Inv /\ Agrees /\ [Next]_vars => Agrees'
    <2>1. Inv /\ Agrees /\ UNCHANGED vars => Agrees'
      BY DEF Agrees, SameWindow, SameScans, vars, Pkr, Down, Up, FinalLo, FinalHi,
             lokey, hikey, mid, top
    <2> QED
      BY <2>1, BreakAgrees, GoAgrees, NoMatchAgrees, ScanAgrees DEF Next
  <1>3. Inv /\ Agrees => OperatorAgrees
    <2> SUFFICES ASSUME Inv, Agrees, pc = "done"
                 PROVE  rv = BsearchPkr(lokey, hikey, array, base0, num0)
      BY DEF OperatorAgrees
    <2>1. Pkr[<<base0, num0>>] = <<baseidx, num>>
      BY DEF Agrees, SameWindow
    <2>2. rv = [lo |-> rv.lo, hi |-> rv.hi]
      BY DEF Inv, TypeOK
    <2>3. CASE num = 0
      <3>1. BsearchPkr(lokey, hikey, array, base0, num0) = [lo |-> baseidx + 1, hi |-> baseidx]
        BY <2>1, <2>3 DEF BsearchPkr, Pkr
      <3> QED
        BY <2>2, <2>3, <3>1 DEF Agrees, SameScans
    <2>4. CASE num # 0
      <3>1. BsearchPkr(lokey, hikey, array, base0, num0) = [lo |-> FinalLo, hi |-> FinalHi]
        BY <2>1, <2>4 DEF BsearchPkr, Pkr, FinalLo, FinalHi, Down, Up, mid, top
      <3>2. num > 0
        BY <2>4, PkrStep
      <3> QED
        BY <2>2, <3>1, <3>2 DEF Agrees, SameScans
    <2> QED
      BY <2>3, <2>4
  <1> QED
    BY <1>1, <1>2, <1>3, Invariant, PTL DEF Spec
=============================================================================
