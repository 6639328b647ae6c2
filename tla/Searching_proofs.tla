-------------------------- MODULE Searching_proofs --------------------------
(***************************************************************************)
(* What the bisection loops of lib/bsearchn.c do in an array of any        *)
(* length, and what dinoinfo shows of any object, which it finds with a    *)
(* search that begins with the digits that were given.                     *)
(*                                                                         *)
(* Of BsearchLoop the inductive invariant is TypeOK, WindowInRange and     *)
(* CutOffSafely together with ResultOK, which says what is returned; the   *)
(* three properties of the results follow from it.                         *)
(*                                                                         *)
(* Of Dinoinfo it is DinoinfoInv: NamesProgress says which names of the    *)
(* table are listed when the loop comes to off, and IndexProgress which    *)
(* keys of an index are shown when its loop comes to k.  What comes before *)
(* it is about digits and bytes: which keys lie between the two that       *)
(* bsearchpkr() makes of the digits (WithinPrefix), and where (Bucket).    *)
(***************************************************************************)
EXTENDS BsearchLoop, Dinoinfo, Bsearchn_proofs, SequenceTheorems, TLAPS


(* What a finished search leaves behind: a match, or an empty window.      *)
ResultOK ==
    pc = "done" =>
        \/ /\ fn # "bisect" /\ num > 0
           /\ ret \in baseidx .. baseidx + num - 1
           /\ array[ret] = key
        \/ /\ num = 0
           /\ ret = CASE fn = "bsearchn"  -> NoItem
                      [] fn = "bsearchir" -> Complement(baseidx)
                      [] fn = "bisect"    -> baseidx

Inv == TypeOK /\ WindowInRange /\ CutOffSafely /\ ResultOK

----------------------------------------------------------------------------
(* The midpoint of a window that is not empty is one of its items, and the *)
(* two remainders of the loops are exactly what is left and right of it.   *)
LEMMA Midpoint ==
    ASSUME NEW base \in Nat, NEW n \in Nat, n > 0
    PROVE  /\ Mid(base, n) \in base .. base + n - 1
           /\ LeftNum(n) \in Nat /\ RightNum(n) \in Nat
           /\ base + LeftNum(n) = Mid(base, n)
           /\ Mid(base, n) + 1 + RightNum(n) = base + n
  BY DEF Mid, LeftNum, RightNum

(* The invariant holds of the inputs a search is called with. *)
LEMMA InitInv == Init => Inv
  <1> SUFFICES ASSUME Init PROVE Inv
    OBVIOUS
  <1>1. base0 \in Nat /\ num0 \in Nat /\ base0 <= Count /\ base0 + num0 <= Count
    BY CountAssumption DEF Init
  <1>2. TypeOK
    BY <1>1 DEF Init, TypeOK, Functions, NoItem
  <1>3. WindowInRange /\ CutOffSafely /\ ResultOK
    BY <1>1 DEF Init, WindowInRange, CutOffSafely, ResultOK
  <1> QED
    BY <1>2, <1>3 DEF Inv

(* In a window that is not empty, the midpoint is an item of the range.    *)
LEMMA ProbeInRange ==
    ASSUME Inv, num > 0
    PROVE  /\ probe \in baseidx .. baseidx + num - 1
           /\ probe \in Range0 /\ probe \in 0 .. Count - 1
           /\ array[probe] \in Int /\ key \in Int
  <1>1. baseidx \in Nat /\ num \in Nat /\ base0 \in Nat /\ num0 \in Nat
        /\ base0 + num0 <= Count
    BY CountAssumption DEF Inv, TypeOK
  <1>2. probe \in baseidx .. baseidx + num - 1
    BY <1>1, Midpoint DEF probe
  <1>3. probe \in Range0 /\ probe \in 0 .. Count - 1
    BY <1>1, <1>2, CountAssumption DEF Inv, WindowInRange, Range0
  <1> QED
    BY <1>2, <1>3, ItemsAssumption DEF Inv, TypeOK

(* Every step of the loops preserves the invariant. *)
LEMMA StepInv == Inv /\ [Next]_vars => Inv'
  <1> SUFFICES ASSUME Inv, [Next]_vars PROVE Inv'
    OBVIOUS
  <1>t. /\ baseidx \in Nat /\ num \in Nat /\ base0 \in Nat /\ num0 \in Nat
        /\ base0 + num0 <= Count /\ Count \in Nat
    BY CountAssumption DEF Inv, TypeOK
  <1>1. CASE Match
    <2>1. num > 0 /\ fn # "bisect" /\ ret' = probe /\ key = array[probe]
      BY <1>1 DEF Match
    <2>2. probe \in baseidx .. baseidx + num - 1
      BY <2>1, ProbeInRange
    <2>3. TypeOK'
      BY <1>1, <1>t, <2>1, <2>2 DEF Match, inputs, Inv, TypeOK
    <2>4. WindowInRange' /\ CutOffSafely'
      BY <1>1 DEF Match, inputs, Inv, WindowInRange, CutOffSafely, SortedRange, Range0
    <2>5. ResultOK'
      BY <1>1, <2>1, <2>2 DEF Match, inputs, ResultOK
    <2> QED
      BY <2>3, <2>4, <2>5 DEF Inv
  <1>2. CASE GoRight
    <2>1. /\ num > 0 /\ pc = "loop" /\ pc' = pc
          /\ baseidx' = probe + 1 /\ num' = RightNum(num) /\ key > array[probe]
          /\ fn' = fn /\ array' = array /\ key' = key /\ base0' = base0
          /\ num0' = num0 /\ ret' = ret
      BY <1>2 DEF GoRight, inputs
    <2>2. /\ probe \in baseidx .. baseidx + num - 1 /\ probe \in Range0
          /\ probe \in 0 .. Count - 1 /\ array[probe] \in Int /\ key \in Int
      BY <2>1, ProbeInRange
    <2>3. num' \in Nat /\ baseidx' + num' = baseidx + num
      BY <1>t, <2>1, Midpoint DEF probe
    <2>4. TypeOK'
      BY <1>t, <2>1, <2>2, <2>3 DEF Inv, TypeOK
    <2>5. WindowInRange'
      BY <1>t, <2>1, <2>2, <2>3 DEF Inv, WindowInRange
    <2>6. CutOffSafely'
      <3> SUFFICES ASSUME SortedRange
                   PROVE  /\ \A e \in base0 .. probe : array[e] < key
                          /\ \A e \in baseidx + num .. base0 + num0 - 1 :
                                IF fn = "bisect" THEN array[e] >= key
                                                 ELSE array[e] > key
        BY <1>t, <2>1, <2>2, <2>3 DEF CutOffSafely, SortedRange, Range0
      <3>1. ASSUME NEW e \in base0 .. probe PROVE array[e] < key
        <4>1. e \in Range0 /\ e <= probe /\ e \in 0 .. Count - 1
          BY <1>t, <2>2 DEF Range0
        <4>2. array[e] <= array[probe]
          BY <4>1, <2>2 DEF SortedRange
        <4>3. array[e] \in Int
          BY <4>1, ItemsAssumption DEF Inv, TypeOK
        <4> QED
          BY <2>1, <2>2, <4>2, <4>3
      <3> QED
        BY <3>1 DEF Inv, CutOffSafely
    <2>7. ResultOK'
      BY <2>1 DEF ResultOK
    <2> QED
      BY <2>4, <2>5, <2>6, <2>7 DEF Inv
  <1>3. CASE GoLeft
    <2>1. /\ num > 0 /\ pc = "loop" /\ pc' = pc
          /\ num' = LeftNum(num) /\ baseidx' = baseidx
          /\ key < array[probe] \/ (fn = "bisect" /\ key = array[probe])
          /\ fn' = fn /\ array' = array /\ key' = key /\ base0' = base0
          /\ num0' = num0 /\ ret' = ret
      BY <1>3 DEF GoLeft, inputs
    <2>2. /\ probe \in baseidx .. baseidx + num - 1 /\ probe \in Range0
          /\ probe \in 0 .. Count - 1 /\ array[probe] \in Int /\ key \in Int
      BY <2>1, ProbeInRange
    <2>3. num' \in Nat /\ baseidx' + num' = probe
      BY <1>t, <2>1, Midpoint DEF probe
    <2>4. TypeOK'
      BY <1>t, <2>1, <2>2, <2>3 DEF Inv, TypeOK
    <2>5. WindowInRange'
      BY <1>t, <2>1, <2>2, <2>3 DEF Inv, WindowInRange
    <2>6. CutOffSafely'
      <3> SUFFICES ASSUME SortedRange
                   PROVE  /\ \A e \in base0 .. baseidx - 1 : array[e] < key
                          /\ \A e \in probe .. base0 + num0 - 1 :
                                IF fn = "bisect" THEN array[e] >= key
                                                 ELSE array[e] > key
        BY <1>t, <2>1, <2>2, <2>3 DEF CutOffSafely, SortedRange, Range0
      <3>1. ASSUME NEW e \in probe .. base0 + num0 - 1
            PROVE  IF fn = "bisect" THEN array[e] >= key ELSE array[e] > key
        <4>1. e \in Range0 /\ probe <= e /\ e \in 0 .. Count - 1
          BY <1>t, <2>2 DEF Range0
        <4>2. array[probe] <= array[e]
          BY <4>1, <2>2 DEF SortedRange
        <4>3. array[e] \in Int
          BY <4>1, ItemsAssumption DEF Inv, TypeOK
        <4> QED
          BY <2>1, <2>2, <4>2, <4>3
      <3> QED
        BY <3>1 DEF Inv, CutOffSafely
    <2>7. ResultOK'
      BY <2>1 DEF ResultOK
    <2> QED
      BY <2>4, <2>5, <2>6, <2>7 DEF Inv
  <1>4. CASE Exhausted
    <2>1. TypeOK'
      BY <1>4, <1>t DEF Exhausted, inputs, Inv, TypeOK, Functions, NoItem, Complement
    <2>2. WindowInRange' /\ CutOffSafely'
      BY <1>4 DEF Exhausted, inputs, Inv, WindowInRange, CutOffSafely, SortedRange, Range0
    <2>3. ResultOK'
      BY <1>4 DEF Exhausted, inputs, ResultOK
    <2> QED
      BY <2>1, <2>2, <2>3 DEF Inv
  <1>5. CASE UNCHANGED vars
    BY <1>5 DEF vars, Inv, TypeOK, WindowInRange, CutOffSafely, SortedRange,
                Range0, ResultOK
  <1> QED
    BY <1>1, <1>2, <1>3, <1>4, <1>5 DEF Next

(* The inductive invariant of the three loops. *)
THEOREM Invariance == Spec => []Inv
  BY InitInv, StepInv, PTL DEF Spec

----------------------------------------------------------------------------
(* The state keeps its types. *)
THEOREM TypeCorrect == Spec => []TypeOK
  <1>1. Inv => TypeOK
    BY DEF Inv
  <1> QED
    BY <1>1, Invariance, PTL

(* In an array of any length, sorted or not, the loops never look outside  *)
(* the range they are called with.                                         *)
THEOREM StaysInRange == Spec => []WindowInRange
  <1>1. Inv => WindowInRange
    BY DEF Inv
  <1> QED
    BY <1>1, Invariance, PTL

(* In a sorted range the loops only cut off what cannot match. *)
THEOREM CutsOffSafely == Spec => []CutOffSafely
  <1>1. Inv => CutOffSafely
    BY DEF Inv
  <1> QED
    BY <1>1, Invariance, PTL

(* An item that bsearchn_cmp() or bsearchir_cmp() returns is in the range  *)
(* and equals the key.                                                     *)
THEOREM ReturnsMatch == Spec => []FoundIsMatch
  <1>1. ASSUME Inv PROVE FoundIsMatch
    <2> SUFFICES ASSUME pc = "done", fn # "bisect", ret >= 0
                 PROVE  ret \in Range0 /\ array[ret] = key
      BY DEF FoundIsMatch
    <2>1. /\ baseidx \in Nat /\ num \in Nat /\ base0 \in Nat /\ num0 \in Nat
          /\ fn \in {"bsearchn", "bsearchir"}
      BY <1>1, CountAssumption DEF Inv, TypeOK, Functions
    <2>2. num > 0 /\ ret \in baseidx .. baseidx + num - 1 /\ array[ret] = key
      BY <1>1, <2>1 DEF Inv, ResultOK, NoItem, Complement
    <2> QED
      BY <1>1, <2>1, <2>2 DEF Inv, WindowInRange, Range0
  <1> QED
    BY <1>1, Invariance, PTL

(* A key that is not found is not in the sorted range, and the complement  *)
(* of bsearchir_cmp()'s result is its insertion point.                     *)
THEOREM MissesNothing == Spec => []NotFoundIsInsertionPoint
  <1>1. ASSUME Inv PROVE NotFoundIsInsertionPoint
    <2> SUFFICES ASSUME SortedRange, pc = "done", fn # "bisect", ret < 0
                 PROVE  /\ \A e \in Range0 : array[e] # key
                        /\ fn = "bsearchir" =>
                              /\ Complement(ret) \in base0 .. base0 + num0
                              /\ \A e \in Range0 : IF e < Complement(ret)
                                                   THEN array[e] < key
                                                   ELSE array[e] > key
      BY DEF NotFoundIsInsertionPoint
    <2>1. /\ baseidx \in Nat /\ num \in Nat /\ base0 \in Nat /\ num0 \in Nat
          /\ fn \in {"bsearchn", "bsearchir"} /\ key \in Int
          /\ base0 + num0 <= Count
      BY <1>1, CountAssumption, ItemsAssumption DEF Inv, TypeOK, Functions
    <2>2. num = 0 /\ (fn = "bsearchir" => ret = Complement(baseidx))
      BY <1>1, <2>1 DEF Inv, ResultOK
    <2>3. base0 <= baseidx /\ baseidx <= base0 + num0
      BY <1>1, <2>1, <2>2 DEF Inv, WindowInRange
    <2>4. \A e \in Range0 : /\ array[e] \in Int
                            /\ IF e < baseidx THEN array[e] < key
                                              ELSE array[e] > key
      <3> SUFFICES ASSUME NEW e \in Range0
                   PROVE  /\ array[e] \in Int
                          /\ IF e < baseidx THEN array[e] < key
                                            ELSE array[e] > key
        OBVIOUS
      <3>1. e \in Int /\ base0 <= e /\ e <= base0 + num0 - 1 /\ e \in 0 .. Count - 1
        BY <2>1, CountAssumption DEF Range0
      <3>2. array[e] \in Int
        BY <1>1, <3>1, ItemsAssumption DEF Inv, TypeOK
      <3>3. CASE e < baseidx
        BY <1>1, <2>1, <3>1, <3>2, <3>3 DEF Inv, CutOffSafely
      <3>4. CASE e >= baseidx
        <4>1. e \in baseidx + num .. base0 + num0 - 1
          BY <2>1, <2>2, <3>1, <3>4
        <4> QED
          BY <1>1, <2>1, <3>1, <3>2, <3>4, <4>1 DEF Inv, CutOffSafely
      <3> QED
        BY <2>1, <3>1, <3>2, <3>3, <3>4
    <2>5. fn = "bsearchir" => Complement(ret) = baseidx
      BY <2>1, <2>2 DEF Complement
    <2> QED
      BY <2>1, <2>3, <2>4, <2>5
  <1> QED
    BY <1>1, Invariance, PTL

(* bisect_cmp() returns the leftmost insertion point of a sorted range. *)
THEOREM BisectsLeftmost == Spec => []BisectIsLeftmost
  <1>1. ASSUME Inv PROVE BisectIsLeftmost
    <2> SUFFICES ASSUME SortedRange, pc = "done", fn = "bisect"
                 PROVE  /\ ret \in base0 .. base0 + num0
                        /\ \A e \in Range0 : IF e < ret THEN array[e] < key
                                                        ELSE array[e] >= key
      BY DEF BisectIsLeftmost
    <2>1. baseidx \in Nat /\ base0 \in Nat /\ num0 \in Nat
      BY <1>1, CountAssumption DEF Inv, TypeOK
    <2>2. num = 0 /\ ret = baseidx
      BY <1>1 DEF Inv, ResultOK
    <2>3. base0 <= baseidx /\ baseidx <= base0 + num0
      BY <1>1, <2>1, <2>2 DEF Inv, WindowInRange
    <2> QED
      BY <1>1, <2>1, <2>2, <2>3 DEF Inv, CutOffSafely, Range0
  <1> QED
    BY <1>1, Invariance, PTL

(* What the three searches answer is exact. *)
THEOREM SearchesExactly == Spec => []SearchIsExact
  <1>1. FoundIsMatch /\ NotFoundIsInsertionPoint /\ BisectIsLeftmost => SearchIsExact
    BY DEF SearchIsExact
  <1> QED
    BY <1>1, ReturnsMatch, MissesNothing, BisectsLeftmost, PTL

----------------------------------------------------------------------------
(* What the operators say of the window that is left is what they say of   *)
(* the whole range.                                                        *)
SameAnswer ==
    IF fn = "bisect"
    THEN BisectSearch(key, array)[<<baseidx, num>>]
            = BisectSearch(key, array)[<<base0, num0>>]
    ELSE IrSearch(key, array)[<<baseidx, num>>] = IrSearch(key, array)[<<base0, num0>>]

Agrees == SameAnswer /\ OperatorsAgree

(* The window after a step to the right or to the left. *)
LEMMA NextWindow ==
    ASSUME Inv, pc = "loop"
    PROVE  /\ <<baseidx, num>> \in Windows /\ baseidx \in Nat /\ num \in Nat
           /\ RightOf(<<baseidx, num>>) = <<probe + 1, RightNum(num)>>
           /\ LeftOf(<<baseidx, num>>) = <<baseidx, LeftNum(num)>>
           /\ num > 0 => array[probe] \in Int /\ key \in Int
  <1>1. baseidx \in Nat /\ num \in Nat
    BY DEF Inv, TypeOK
  <1>2. num > 0 => array[probe] \in Int /\ key \in Int
    BY ProbeInRange
  <1> QED
    BY <1>1, <1>2 DEF Windows, RightOf, LeftOf, probe

(* Every step keeps the loop and its operator in agreement. *)
LEMMA StepAgrees == Inv /\ Agrees /\ [Next]_vars => Agrees'
  <1> SUFFICES ASSUME Inv, Agrees, [Next]_vars PROVE Agrees'
    OBVIOUS
  <1> DEFINE w == <<baseidx, num>>
             v == <<base0, num0>>
             Bis == BisectSearch(key, array)
             Ir == IrSearch(key, array)
  <1>1. fn \in Functions /\ base0 \in Nat /\ num0 \in Nat
    BY CountAssumption DEF Inv, TypeOK
  <1>2. /\ BsearchIr(key, array, base0, num0) = Ir[v]
        /\ Bisect(key, array, base0, base0 + num0) = Bis[v]
    BY <1>1, Calls
  <1>3. w[1] = baseidx /\ w[2] = num
    OBVIOUS
  <1>4. CASE Match
    <2>1. Ir[w] = probe
      BY <1>3, <1>4, NextWindow, IrRecurs DEF Match, probe
    <2>2. SameAnswer'
      BY <1>4 DEF Match, inputs, Agrees, SameAnswer
    <2>3. OperatorsAgree'
      <3>1. ret' = Ir[v] /\ fn # "bisect" /\ UNCHANGED inputs
        BY <1>4, <2>1 DEF Match, Agrees, SameAnswer
      <3>2. Ir[v] >= 0
        <4>1. probe \in Nat
          BY <1>4, ProbeInRange, CountAssumption DEF Match
        <4> QED
          BY <1>4, <2>1, <4>1 DEF Match, Agrees, SameAnswer
      <3> HIDE DEF Ir, v, Bis
      <3> QED
        BY <1>1, <1>2, <3>1, <3>2 DEF OperatorsAgree, inputs, Functions
    <2> QED
      BY <2>2, <2>3 DEF Agrees
  <1>5. CASE GoRight
    <2>1. fn = "bisect" => Bis[w] = Bis[<<probe + 1, RightNum(num)>>]
      BY <1>3, <1>5, NextWindow, BisectRecurs DEF GoRight, probe
    <2>2. fn # "bisect" => Ir[w] = Ir[<<probe + 1, RightNum(num)>>]
      BY <1>3, <1>5, NextWindow, IrRecurs DEF GoRight, probe
    <2>3. SameAnswer'
      BY <1>5, <2>1, <2>2 DEF GoRight, inputs, Agrees, SameAnswer
    <2> QED
      BY <1>5, <2>3 DEF Agrees, OperatorsAgree, GoRight
  <1>6. CASE GoLeft
    <2>1. fn = "bisect" => Bis[w] = Bis[<<baseidx, LeftNum(num)>>]
      BY <1>3, <1>6, NextWindow, BisectRecurs DEF GoLeft, probe
    <2>2. fn # "bisect" => Ir[w] = Ir[<<baseidx, LeftNum(num)>>]
      BY <1>3, <1>6, NextWindow, IrRecurs DEF GoLeft, probe
    <2>3. SameAnswer'
      BY <1>6, <2>1, <2>2 DEF GoLeft, inputs, Agrees, SameAnswer
    <2> QED
      BY <1>6, <2>3 DEF Agrees, OperatorsAgree, GoLeft
  <1>7. CASE Exhausted
    <2>1. Bis[w] = baseidx
      BY <1>3, <1>7, NextWindow, BisectRecurs DEF Exhausted
    <2>2. Ir[w] = Complement(baseidx) /\ Complement(baseidx) < 0
      BY <1>3, <1>7, NextWindow, IrRecurs DEF Exhausted, Complement
    <2>3. SameAnswer'
      BY <1>7 DEF Exhausted, inputs, Agrees, SameAnswer
    <2>4. OperatorsAgree'
      <3>1. (IF fn = "bisect" THEN Bis[v] = baseidx ELSE Ir[v] = Complement(baseidx))
            /\ UNCHANGED inputs
        BY <1>7, <2>1, <2>2 DEF Exhausted, Agrees, SameAnswer
      <3>2. ~(Complement(baseidx) >= 0)
        BY <1>7, NextWindow DEF Exhausted, Complement
      <3> HIDE DEF Ir, v, Bis
      <3> QED
        BY <1>1, <1>2, <1>7, <3>1, <3>2 DEF OperatorsAgree, inputs, Exhausted, Functions
    <2> QED
      BY <2>3, <2>4 DEF Agrees
  <1>8. CASE UNCHANGED vars
    BY <1>8 DEF vars, inputs, Agrees, SameAnswer, OperatorsAgree
  <1> QED
    BY <1>4, <1>5, <1>6, <1>7, <1>8 DEF Next

(* The recursive operators, which the modules of the callers use, compute  *)
(* what the loops do.                                                      *)
THEOREM LoopsAndOperators == Spec => []OperatorsAgree
  <1>1. Init => Agrees
    BY DEF Init, Agrees, SameAnswer, OperatorsAgree
  <1>2. Agrees => OperatorsAgree
    BY DEF Agrees
  <1> QED
    BY <1>1, <1>2, Invariance, StepAgrees, PTL DEF Spec

----------------------------------------------------------------------------
(* What the constants of Dinoinfo are: numbers, of which none is too small *)
(* to count digits, bytes and keys with.                                   *)
LEMMA Digits ==
    /\ Hex \in Nat /\ Hex > 1 /\ Bytes = Hex * Hex /\ Bytes \in Nat /\ Bytes > 1
    /\ KeySize \in Nat /\ KeySize >= 1 /\ KeySize < LenMod
    /\ LenMod \in Nat \ {0} /\ OffMod \in Nat \ {0} /\ CntMod \in Nat \ {0}
  <1>1. Hex \in Nat /\ Hex > 1 /\ Bytes = Hex * Hex
    BY DinoinfoAssumption
  <1>2. PICK h \in Nat : Hex = 2 + h
    <2>1. Hex - 2 \in Nat /\ Hex = 2 + (Hex - 2)
      BY <1>1
    <2> QED
      BY <2>1
  <1>3. h * h \in Nat /\ (2 + h) * (2 + h) = 4 + 4 * h + h * h
    BY <1>2
  <1>4. Bytes = 4 + 4 * h + h * h
    BY <1>1, <1>2, <1>3
  <1>5. Bytes \in Nat /\ Bytes > 1
    BY <1>2, <1>3, <1>4
  <1>6. /\ KeySize \in 1 .. LenMod - 1 /\ LenMod \in Nat \ {0}
        /\ OffMod \in Nat \ {0} /\ CntMod \in Nat \ {0}
    BY DinoinfoAssumption
  <1> QED
    BY <1>1, <1>5, <1>6

(* Power(base) is what its recursion says.                                 *)
LEMMA PowerRecurs ==
    ASSUME NEW base \in Nat \ {0}
    PROVE  /\ Power(base)[0] = 1
           /\ \A n \in 0 .. 2 * KeySize : Power(base)[n] \in Nat \ {0}
           /\ \A n \in 0 .. 2 * KeySize - 1 : Power(base)[n + 1] = base * Power(base)[n]
  <1> DEFINE N == 2 * KeySize
             R == Nat \ {0}
             step == [x \in R \X (0 .. N - 1) |-> base * x[1]]
             Body(f) == [n \in 0 .. N |-> IF n = 0 THEN 1 ELSE base * f[n - 1]]
  <1>1. N \in Nat /\ 1 \in R
    BY Digits
  <1>2. ASSUME NEW x \in R PROVE base * x \in R
    <2>1. PICK a \in Nat, b \in Nat : base = 1 + a /\ x = 1 + b
      <3>1. base - 1 \in Nat /\ x - 1 \in Nat /\ base = 1 + (base - 1) /\ x = 1 + (x - 1)
        OBVIOUS
      <3> QED
        BY <3>1
    <2>2. a * b \in Nat /\ (1 + a) * (1 + b) = 1 + a + b + a * b
      OBVIOUS
    <2>3. base * x = 1 + a + b + a * b
      BY <2>1, <2>2
    <2> QED
      BY <2>2, <2>3
  <1>3. step \in [R \X (0 .. N - 1) -> R]
    BY <1>2
  <1>4. PICK f : Accumulated(f, N, R, 1, step)
    <2> HIDE DEF step, N, R
    <2> QED
      BY <1>1, <1>3, Accumulates
  <1>5. f = Body(f)
    <2>1. ASSUME NEW n \in 0 .. N, n # 0 PROVE step[<<f[n - 1], n - 1>>] = base * f[n - 1]
      <3>1. n - 1 \in 0 .. N - 1 /\ n - 1 \in 0 .. N
        BY <1>1, <2>1
      <3>2. <<f[n - 1], n - 1>> \in R \X (0 .. N - 1)
        BY <1>4, <3>1 DEF Accumulated
      <3> QED
        BY <3>2
    <2> HIDE DEF step, N, R
    <2>2. f \in [0 .. N -> R] /\ \A n \in 0 .. N : f[n] = Body(f)[n]
      BY <1>4, <2>1 DEF Accumulated
    <2> QED
      BY <2>2
  <1>6. Power(base) = Body(Power(base))
    <2>1. Power(base) = CHOOSE g : g = Body(g)
      BY DEF Power
    <2> HIDE DEF Body
    <2> QED
      BY <1>5, <2>1
  <1> DEFINE pow == Power(base)
  <1> HIDE DEF pow
  <1>7. pow = Body(pow)
    BY <1>6 DEF pow
  <1>8. pow[0] = 1 /\ \A n \in 0 .. N - 1 : pow[n + 1] = base * pow[n]
    <2>1. 0 \in 0 .. N
      BY <1>1
    <2>2. ASSUME NEW n \in 0 .. N - 1 PROVE n + 1 \in 0 .. N /\ n + 1 # 0 /\ (n + 1) - 1 = n
      BY <1>1
    <2> HIDE DEF N
    <2>3. pow[0] = 1
      BY <1>7, <2>1
    <2>4. ASSUME NEW n \in 0 .. N - 1 PROVE pow[n + 1] = base * pow[n]
      <3>1. pow[n + 1] = Body(pow)[n + 1]
        BY <1>7
      <3> QED
        BY <2>2, <3>1
    <2> QED
      BY <2>3, <2>4
  <1> DEFINE P == {n \in Nat : n <= N => pow[n] \in R}
  <1>9. 0 \in P
    BY <1>1, <1>8
  <1>10. ASSUME NEW n \in P PROVE n + 1 \in P
    <2>1. SUFFICES ASSUME n + 1 <= N PROVE pow[n + 1] \in R
      OBVIOUS
    <2>2. n \in 0 .. N - 1 /\ n <= N /\ n \in Nat
      BY <1>1, <2>1
    <2> HIDE DEF N, R
    <2> QED
      BY <1>2, <1>8, <2>2
  <1>11. P = Nat
    <2>1. P \in SUBSET Nat
      OBVIOUS
    <2> HIDE DEF P
    <2> QED
      BY <1>9, <1>10, <2>1, Induction
  <1>12. \A n \in 0 .. N : pow[n] \in R
    BY <1>1, <1>11
  <1> QED
    BY <1>8, <1>12 DEF pow

(* An index that a file has. *)
IsIndex(x) ==
    /\ x.count \in 0 .. CntMod - 1
    /\ x.keys \in [0 .. x.count -> Keys]
    /\ \A a, b \in 0 .. x.count - 1 : a < b => x.keys[a] < x.keys[b]

(* An object, its sections and its indexes are of their types. *)
LEMMA ObjectParts ==
    ASSUME object \in Objects
    PROVE  /\ object.size \in Nat /\ object.size < OffMod
           /\ object.table \in [0 .. object.size -> {0, 1}]
           /\ Len(object.secs) \in Nat /\ DOMAIN object.secs = 1 .. Len(object.secs)
           /\ \A s \in DOMAIN object.secs :
                 object.secs[s].type = "index" => IsIndex(object.secs[s])
  <1>1. /\ object.size \in 0 .. OffMod - 1 /\ object.table \in [0 .. object.size -> {0, 1}]
        /\ object.secs \in Seq({object.secs[s] : s \in DOMAIN object.secs})
        /\ \A s \in DOMAIN object.secs :
              object.secs[s].type = "index" => IsIndex(object.secs[s])
    BY ObjectAssumption DEF IsIndex
  <1> DEFINE S == {object.secs[s] : s \in DOMAIN object.secs}
  <1> HIDE DEF S
  <1>2. object.secs \in Seq(S)
    BY <1>1 DEF S
  <1>3. Len(object.secs) \in Nat /\ DOMAIN object.secs = 1 .. Len(object.secs)
    BY <1>2
  <1>4. OffMod \in Nat
    BY Digits
  <1> QED
    BY <1>1, <1>3, <1>4

----------------------------------------------------------------------------
(* The name that starts at off ends at the next 0, or where the table does. *)
LEMMA NameEnds ==
    ASSUME object \in Objects, off \in Nat, off < object.size
    PROVE  /\ NameEnd \in off .. object.size
           /\ NameEnd = object.size \/ object.table[NameEnd] = 0
           /\ \A j \in off .. NameEnd - 1 : object.table[j] # 0
  <1> DEFINE Stops(e) == e = object.size \/ object.table[e] = 0
             S == {e \in off .. object.size : Stops(e)}
             IsEnd(e) == Stops(e) /\ \A j \in off .. e - 1 : object.table[j] # 0
  <1>1. object.size \in Nat
    BY ObjectParts
  <1>2. object.size \in S /\ S \in SUBSET Nat
    BY <1>1
  <1>3. PICK e \in S : \A j \in S : e <= j
    <2> HIDE DEF S
    <2> QED
      BY <1>2, HasLeast
  <1>4. ASSUME NEW j \in off .. e - 1 PROVE object.table[j] # 0
    <2>1. j \in off .. object.size /\ ~(e <= j)
      BY <1>1, <1>3
    <2>2. j \notin S
      BY <1>3, <2>1
    <2> QED
      BY <2>1, <2>2
  <1>5. e \in off .. object.size /\ IsEnd(e)
    BY <1>3, <1>4
  <1>6. NameEnd = CHOOSE x \in off .. object.size : IsEnd(x)
    BY DEF NameEnd
  <1> HIDE DEF IsEnd
  <1>7. NameEnd \in off .. object.size /\ IsEnd(NameEnd)
    BY <1>5, <1>6
  <1> QED
    BY <1>7 DEF IsEnd

(* The names that start before off are listed, and none that is not one.   *)
NamesUpTo ==
    /\ off < object.size => off \in Starts
    /\ names \subseteq NamesOfTable
    /\ \A n \in NamesOfTable : n[1] < off => n \in names

(* PrintName lists the next, whether off goes on or wraps around. *)
LEMMA NextNameListed ==
    ASSUME object \in Objects, off \in Nat, NamesUpTo, PrintName
    PROVE  off' \in 0 .. OffMod - 1 /\ NamesUpTo'
  <1> DEFINE e == NameEnd
             size == object.size
             table == object.table
             to == e + (IF table[e] = 0 THEN 1 ELSE 0)
  <1>1. /\ size \in Nat /\ size < OffMod /\ OffMod \in Nat \ {0}
        /\ table \in [0 .. size -> {0, 1}]
    BY ObjectParts, Digits
  <1>2. off \in Nat /\ off < size /\ names' = names \cup {<<off, e>>} /\ off' = to % OffMod
        /\ object' = object
    BY DEF PrintName, NextName
  <1>3. /\ e \in off .. size /\ (e = size \/ table[e] = 0)
        /\ \A j \in off .. e - 1 : table[j] # 0
    BY <1>2, NameEnds
  <1> HIDE DEF e
  <1>4. Starts' = Starts /\ NamesOfTable' = NamesOfTable
    BY <1>2 DEF Starts, Ends, NamesOfTable
  <1>5. <<off, e>> \in NamesOfTable
    <2>1. off \in Starts /\ e \in Ends /\ off <= e
      BY <1>1, <1>2, <1>3 DEF NamesUpTo, Ends
    <2> QED
      BY <1>3, <2>1 DEF NamesOfTable
  <1>6. ASSUME NEW n \in NamesOfTable, off <= n[1], n[1] <= e, n[1] < size PROVE n = <<off, e>>
    <2>1. n \in Starts \X Ends /\ n[1] <= n[2] /\ \A j \in n[1] .. n[2] - 1 : table[j] # 0
      BY DEF NamesOfTable
    <2>2. PICK a \in Starts, b \in Ends : n = <<a, b>>
      BY <2>1
    <2>3. a \in Nat /\ b \in Nat /\ a < size /\ b <= size /\ (b = size \/ table[b] = 0)
          /\ (a = 0 \/ table[a - 1] = 0) /\ off <= a /\ a <= e /\ a <= b
          /\ \A j \in a .. b - 1 : table[j] # 0
      BY <1>1, <1>6, <2>1, <2>2 DEF Starts, Ends
    <2> HIDE DEF size, table
    <2>4. a = off
      <3>1. a # off => a - 1 \in off .. e - 1 /\ a # 0
        BY <1>2, <1>3, <2>3
      <3> QED
        BY <1>3, <2>3, <3>1
    <2>5. ~(b < e)
      <3>1. b < e => b \in off .. e - 1 /\ b # size
        BY <1>1, <1>2, <1>3, <2>3
      <3> QED
        BY <1>3, <2>3, <3>1
    <2>6. ~(e < b)
      <3>1. e < b => e \in a .. b - 1 /\ e # size
        BY <1>1, <1>2, <1>3, <2>3
      <3> QED
        BY <1>3, <2>3, <3>1
    <2>7. b = e
      BY <1>1, <1>3, <2>3, <2>5, <2>6
    <2> QED
      BY <2>2, <2>4, <2>7
  <1>7. ASSUME NEW n \in NamesOfTable PROVE n[1] \in Nat /\ n[1] < size
    <2>1. n \in Starts \X Ends
      BY DEF NamesOfTable
    <2>2. n[1] \in Starts
      BY <2>1
    <2> QED
      BY <1>1, <2>2 DEF Starts
  <1>8. to \in Nat /\ to <= OffMod /\ to <= e + 1
    BY <1>1, <1>3
  <1>9. off' = IF to = OffMod THEN 0 ELSE to
    <2> HIDE DEF to
    <2> QED
      BY <1>1, <1>2, <1>8
  <1>10. off' \in 0 .. OffMod - 1
    <2> HIDE DEF to
    <2> QED
      BY <1>1, <1>8, <1>9
  <1>11. off' < size => off' \in Starts
    <2>1. off' = 0 \/ (off' = to /\ to \in Nat)
      BY <1>8, <1>9
    <2>2. ASSUME to < size, off' = to PROVE to # 0 /\ table[to - 1] = 0
      <3>1. CASE table[e] = 0
        <4>1. to = e + 1 /\ e \in Nat
          BY <1>2, <1>3, <3>1
        <4> HIDE DEF to
        <4> QED
          BY <3>1, <4>1
      <3>2. CASE table[e] # 0
        <4>1. to = e /\ e = size
          BY <1>1, <1>3, <3>2
        <4> QED
          BY <1>1, <2>2, <4>1
      <3> QED
        BY <3>1, <3>2
    <2> HIDE DEF to, size, table
    <2>3. \A a \in 0 .. size - 1 : a = 0 \/ table[a - 1] = 0 => a \in Starts
      BY DEF Starts, size, table
    <2>4. off' < size => off' \in 0 .. size - 1
      BY <1>1, <2>1
    <2> QED
      BY <2>1, <2>2, <2>3, <2>4
  <1>12. ASSUME NEW n \in NamesOfTable, n[1] < off' PROVE n \in names'
    <2>1. n[1] \in Nat /\ n[1] < size
      BY <1>7
    <2>2. n[1] <= e
      <3> HIDE DEF to
      <3> QED
        BY <1>1, <1>3, <1>8, <1>9, <1>12, <2>1
    <2>3. n[1] < off \/ off <= n[1]
      BY <1>2, <2>1
    <2> QED
      BY <1>2, <1>6, <2>1, <2>2, <2>3 DEF NamesUpTo
  <1>13. names' \subseteq NamesOfTable
    BY <1>2, <1>5 DEF NamesUpTo
  <1> HIDE DEF to
  <1> QED
    BY <1>2, <1>4, <1>10, <1>11, <1>12, <1>13 DEF NamesUpTo

(* At the end of the table all are. *)
LEMMA AllNamesListed ==
    ASSUME object \in Objects, off \in Nat, NamesUpTo, off >= object.size
    PROVE  names = NamesOfTable
  <1>1. ASSUME NEW n \in NamesOfTable PROVE n \in names
    <2>1. n \in Starts \X Ends
      BY DEF NamesOfTable
    <2>2. n[1] \in Starts
      BY <2>1
    <2>3. n[1] < off
      BY <2>2, ObjectParts DEF Starts
    <2> QED
      BY <2>3 DEF NamesUpTo
  <1> QED
    BY <1>1 DEF NamesUpTo
----------------------------------------------------------------------------
(* Digits and bytes of what was given with -k *)
LEMMA KeyByteType ==
    ASSUME NEW hex \in KeyStrs, NEW b \in Nat \ {0}
    PROVE  /\ Digit(hex, 2 * b - 1) \in 0 .. Hex - 1 /\ Digit(hex, 2 * b) \in 0 .. Hex - 1
           /\ KeyByte(hex, b) \in 0 .. Bytes - 1
  <1>1. /\ Hex \in Nat /\ Hex > 1 /\ hex \in Seq(0 .. Hex - 1)
        /\ Bytes = Hex * Hex /\ Bytes \in Nat
    BY Digits, DinoinfoAssumption
  <1>2. ASSUME NEW d \in Nat \ {0} PROVE Digit(hex, d) \in 0 .. Hex - 1
    <2>1. Len(hex) \in Nat /\ (d <= Len(hex) => hex[d] \in 0 .. Hex - 1)
      BY <1>1
    <2> QED
      BY <1>1, <2>1 DEF Digit
  <1> DEFINE x == Digit(hex, 2 * b - 1)
             y == Digit(hex, 2 * b)
  <1>3. x \in 0 .. Hex - 1 /\ y \in 0 .. Hex - 1
    <2>1. 2 * b - 1 \in Nat \ {0} /\ 2 * b \in Nat \ {0}
      OBVIOUS
    <2> QED
      BY <1>2, <2>1
  <1>4. KeyByte(hex, b) = Hex * x + y
    BY DEF KeyByte
  <1> HIDE DEF x, y
  <1>5. x \in Nat /\ x < Hex /\ Hex * x \in Nat /\ Hex * x + Hex <= Hex * Hex
    <2>1. x \in Nat /\ x < Hex
      BY <1>1, <1>3
    <2> QED
      BY <1>1, <2>1, Multiples
  <1> DEFINE p == Hex * x
  <1> HIDE DEF p
  <1>6. p + y \in 0 .. Bytes - 1
    BY <1>1, <1>3, <1>5 DEF p
  <1> QED
    BY <1>3, <1>4, <1>6 DEF x, y, p

(* Half of the digits, at most, are bytes of the prefix. *)
LEMMA PartKeyLenType ==
    ASSUME NEW hex \in KeyStrs
    PROVE  Len(hex) \in Nat /\ PartKeyLen(hex) \in Nat
  <1>1. hex \in Seq(0 .. Hex - 1)
    BY DinoinfoAssumption
  <1>2. Len(hex) \in Nat /\ LenMod \in Nat \ {0}
    BY <1>1, Digits
  <1> QED
    BY <1>2 DEF PartKeyLen

(* The key, byte by byte, as Padded computes it. *)
IsPadded(hex, len, fill, f) ==
    /\ f[0] = 0
    /\ \A b \in 0 .. KeySize : f[b] \in Nat
    /\ \A b \in 0 .. KeySize - 1 :
          f[b + 1] = Bytes * f[b] + (IF b + 1 <= len THEN KeyByte(hex, b + 1) ELSE fill)

(* There is such a function, and Padded is its last value. *)
LEMMA PaddedRecurs ==
    ASSUME NEW hex \in KeyStrs, NEW len \in Nat, NEW fill \in 0 .. Bytes - 1
    PROVE  \E f : IsPadded(hex, len, fill, f) /\ Padded(hex, len, fill) = f[KeySize]
  <1> DEFINE add(b) == IF b <= len THEN KeyByte(hex, b) ELSE fill
             step == [x \in Nat \X (0 .. KeySize - 1) |-> Bytes * x[1] + add(x[2] + 1)]
             Body(f) == [b \in 0 .. KeySize |-> IF b = 0 THEN 0 ELSE Bytes * f[b - 1] + add(b)]
  <1>1. KeySize \in Nat /\ Bytes \in Nat
    BY Digits
  <1>2. ASSUME NEW b \in Nat PROVE add(b + 1) \in Nat
    <2>1. KeyByte(hex, b + 1) \in 0 .. Bytes - 1
      <3>1. b + 1 \in Nat \ {0}
        OBVIOUS
      <3> QED
        BY <3>1, KeyByteType
    <2> QED
      BY <1>1, <2>1
  <1> HIDE DEF add
  <1>3. step \in [Nat \X (0 .. KeySize - 1) -> Nat]
    <2>1. ASSUME NEW x \in Nat, NEW b \in 0 .. KeySize - 1 PROVE Bytes * x + add(b + 1) \in Nat
      <3>1. b \in Nat /\ Bytes * x \in Nat
        BY <1>1
      <3> QED
        BY <1>2, <3>1
    <2> QED
      BY <2>1
  <1>4. PICK f : Accumulated(f, KeySize, Nat, 0, step)
    <2> HIDE DEF step
    <2> QED
      BY <1>1, <1>3, Accumulates
  <1>5. ASSUME NEW b \in 0 .. KeySize, b # 0
        PROVE  step[<<f[b - 1], b - 1>>] = Bytes * f[b - 1] + add(b)
    <2>1. b - 1 \in 0 .. KeySize - 1 /\ b - 1 \in 0 .. KeySize /\ (b - 1) + 1 = b
      BY <1>1, <1>5
    <2>2. <<f[b - 1], b - 1>> \in Nat \X (0 .. KeySize - 1)
      BY <1>4, <2>1 DEF Accumulated
    <2> QED
      BY <2>1, <2>2
  <1> HIDE DEF step
  <1>6. f = Body(f)
    <2>1. f \in [0 .. KeySize -> Nat] /\ \A b \in 0 .. KeySize : f[b] = Body(f)[b]
      BY <1>4, <1>5 DEF Accumulated
    <2> QED
      BY <2>1
  <1> DEFINE g == CHOOSE h : h = Body(h)
  <1>7. g = Body(g)
    <2> HIDE DEF Body
    <2> QED
      BY <1>6
  <1>8. Padded(hex, len, fill) = g[KeySize]
    BY DEF Padded, add
  <1> HIDE DEF g
  <1>9. g[0] = 0
    <2>1. 0 \in 0 .. KeySize
      BY <1>1
    <2> QED
      BY <1>7, <2>1
  <1>10. ASSUME NEW b \in 0 .. KeySize - 1 PROVE g[b + 1] = Bytes * g[b] + add(b + 1)
    <2>1. b + 1 \in 0 .. KeySize /\ b + 1 # 0 /\ (b + 1) - 1 = b
      BY <1>1
    <2>2. g[b + 1] = Body(g)[b + 1]
      BY <1>7
    <2> QED
      BY <2>1, <2>2
  <1> DEFINE P == {b \in Nat : b <= KeySize => g[b] \in Nat}
  <1>11. 0 \in P
    BY <1>9
  <1>12. ASSUME NEW b \in P PROVE b + 1 \in P
    <2>1. SUFFICES ASSUME b + 1 <= KeySize PROVE g[b + 1] \in Nat
      OBVIOUS
    <2>2. b \in 0 .. KeySize - 1 /\ b \in Nat /\ b <= KeySize
      BY <1>1, <2>1
    <2>3. g[b] \in Nat /\ add(b + 1) \in Nat
      BY <1>2, <2>2
    <2>4. Bytes * g[b] \in Nat
      BY <1>1, <2>3
    <2> QED
      BY <1>10, <2>2, <2>3, <2>4
  <1>13. P = Nat
    <2>1. P \in SUBSET Nat
      OBVIOUS
    <2> HIDE DEF P
    <2> QED
      BY <1>11, <1>12, <2>1, Induction
  <1>14. \A b \in 0 .. KeySize : g[b] \in Nat
    BY <1>1, <1>13
  <1>15. IsPadded(hex, len, fill, g)
    BY <1>9, <1>10, <1>14 DEF IsPadded, add
  <1> QED
    BY <1>8, <1>15

(* Such a key is a number. *)
LEMMA PaddedType ==
    ASSUME NEW hex \in KeyStrs, NEW len \in Nat, NEW fill \in 0 .. Bytes - 1
    PROVE  Padded(hex, len, fill) \in Nat
  <1>1. PICK f : IsPadded(hex, len, fill, f) /\ Padded(hex, len, fill) = f[KeySize]
    BY PaddedRecurs
  <1>2. KeySize \in 0 .. KeySize
    BY Digits
  <1> QED
    BY <1>1, <1>2 DEF IsPadded

----------------------------------------------------------------------------
(* The keys that share a first byte *)
LEMMA SharingKeys == PerByte \in Nat \ {0}
  <1>1. KeySize - 1 \in 0 .. 2 * KeySize /\ Bytes \in Nat \ {0}
    BY Digits
  <1>2. PerByte = Power(Bytes)[KeySize - 1]
    BY DinoinfoAssumption
  <1> QED
    BY <1>1, <1>2, PowerRecurs

(* The first byte of a key *)
LEMMA FirstByteType ==
    ASSUME NEW x \in Keys
    PROVE  x \in Nat /\ FirstByte(x) \in 0 .. Bytes - 1
  <1> DEFINE q == FirstByte(x)
             p == PerByte * q
             t == PerByte * Bytes
  <1>1. x \in Nat /\ x < t /\ Bytes \in Nat
    <2>1. Bytes * PerByte = PerByte * Bytes /\ PerByte * Bytes \in Nat
      BY Digits, SharingKeys
    <2> QED
      BY <2>1, Digits DEF Keys
  <1>2. q \in Nat /\ p \in Nat /\ p <= x
    BY <1>1, SharingKeys, Division DEF FirstByte
  <1>3. (q = Bytes => p = t) /\ (Bytes < q => t + PerByte <= p)
    <2>1. PerByte \in Nat /\ q \in Nat /\ Bytes \in Nat
      BY <1>1, <1>2, SharingKeys
    <2> HIDE DEF q
    <2> QED
      BY <2>1, Multiples
  <1>4. PerByte \in Nat /\ t \in Nat
    BY <1>1, SharingKeys
  <1> HIDE DEF q, p, t
  <1>5. q < Bytes
    BY <1>1, <1>2, <1>3, <1>4
  <1> QED
    BY <1>1, <1>2, <1>5 DEF q

(* The fanout table has the places of the keys with the first byte c. *)
LEMMA Bucket ==
    ASSUME NEW x, IsIndex(x), NEW c \in 0 .. Bytes - 1
    PROVE  LET f == FanoutOf(x.keys, x.count)
               base == BaseOf(f, c * PerByte)
               n == NumOf(f, c * PerByte)
           IN  /\ base \in Nat /\ n \in Nat /\ base + n <= x.count
               /\ \A j \in 0 .. x.count - 1 :
                     FirstByte(x.keys[j]) = c => j \in base .. base + n - 1
  <1> DEFINE f == FanoutOf(x.keys, x.count)
             N == x.count
             first == [j \in 0 .. N - 1 |-> FirstByte(x.keys[j])]
             upto(b) == UpToCount(first, N, b)
  <1>1. N \in Nat /\ Bytes \in Nat /\ c \in Nat /\ PerByte \in Nat \ {0}
    BY Digits, SharingKeys DEF IsIndex
  <1>2. ASSUME NEW j \in 0 .. N - 1 PROVE x.keys[j] \in Keys /\ x.keys[j] \in Nat
    <2>1. j \in 0 .. N
      BY <1>1
    <2> QED
      BY <2>1, FirstByteType DEF IsIndex
  <1>3. first \in [0 .. N - 1 -> Nat]
    BY <1>2, FirstByteType
  <1>4. ASSUME NEW j \in 0 .. N - 1, NEW l \in 0 .. N - 1, j <= l PROVE first[j] <= first[l]
    <2>1. x.keys[j] <= x.keys[l]
      <3>1. j = l \/ j < l
        BY <1>1, <1>4
      <3> QED
        BY <1>2, <3>1 DEF IsIndex
    <2> QED
      BY <1>1, <1>2, <2>1, QuotientOrder DEF FirstByte
  <1>5. ASSUME NEW b \in 0 .. Bytes - 1 PROVE f[b] = upto(b)
    <2>1. {j \in 0 .. N - 1 : FirstByte(x.keys[j]) <= b} = {j \in 0 .. N - 1 : first[j] <= b}
      OBVIOUS
    <2>2. f[b] = Cardinality({j \in 0 .. N - 1 : FirstByte(x.keys[j]) <= b})
      BY DEF FanoutOf
    <2> QED
      BY <2>1, <2>2 DEF UpToCount
  <1>6. \A j \in 0 .. N - 1 : first[j] = FirstByte(x.keys[j]) /\ first[j] \in Nat
    BY <1>3
  <1> HIDE DEF first, f
  <1>7. ASSUME NEW b \in Nat
        PROVE  /\ upto(b) \in Nat /\ upto(b) <= N
               /\ \A a \in Nat : b <= a => upto(b) <= upto(a)
               /\ \A j \in 0 .. N - 1 : first[j] <= b <=> j < upto(b)
    BY <1>1, <1>3, <1>4, CountsSplit
  <1> HIDE DEF upto
  <1>8. FirstByte(c * PerByte) = c
    <2> DEFINE p == PerByte * c
    <2>1. c * PerByte = p /\ p \in Nat /\ p <= p /\ p < p + PerByte
      BY <1>1
    <2> HIDE DEF p
    <2>2. p \div PerByte = c
      <3>1. PerByte * c <= p /\ p < PerByte * c + PerByte
        BY <2>1 DEF p
      <3> QED
        BY <1>1, <2>1, <3>1, OneQuotient
    <2> QED
      BY <2>1, <2>2 DEF FirstByte
  <1> DEFINE base == BaseOf(f, c * PerByte)
             n == NumOf(f, c * PerByte)
             before == IF c = 0 THEN 0 ELSE upto(c - 1)
  <1>9. c # 0 => c - 1 \in 0 .. Bytes - 1 /\ c - 1 \in Nat /\ c - 1 <= c
    BY <1>1
  <1>10. base = before /\ n = upto(c) - before
    BY <1>5, <1>8, <1>9 DEF BaseOf, NumOf
  <1> HIDE DEF base, n
  <1>11. before \in Nat /\ before <= upto(c) /\ upto(c) \in Nat /\ upto(c) <= N
    BY <1>1, <1>7, <1>9
  <1>12. ASSUME NEW j \in 0 .. N - 1, first[j] = c PROVE before <= j /\ j < upto(c)
    <2>1. j < upto(c)
      BY <1>1, <1>7, <1>12
    <2>2. c # 0 => ~(j < upto(c - 1))
      BY <1>1, <1>7, <1>9, <1>12
    <2> QED
      BY <1>1, <1>7, <1>9, <2>1, <2>2
  <1> HIDE DEF before
  <1>13. base \in Nat /\ n \in Nat /\ base + n <= N
    BY <1>1, <1>10, <1>11
  <1>14. ASSUME NEW j \in 0 .. N - 1, first[j] = c PROVE j \in base .. base + n - 1
    BY <1>10, <1>11, <1>12, <1>14
  <1> QED
    BY <1>6, <1>13, <1>14 DEF base, n, f
----------------------------------------------------------------------------
(* Dividing in two steps *)
LEMMA QuotientOfQuotient ==
    ASSUME NEW x \in Nat, NEW p \in Nat \ {0}, NEW h \in Nat \ {0}, h * p \in Nat \ {0}
    PROVE  x \div (h * p) = (x \div p) \div h
  <1> DEFINE q == x \div p
             r == q \div h
  <1>1. q \in Nat /\ p * q \in Nat /\ p * q <= x /\ x < p * q + p
    BY Division
  <1> HIDE DEF q
  <1>2. r \in Nat /\ h * r \in Nat /\ h * r <= q /\ q < h * r + h
    BY <1>1, Division
  <1> HIDE DEF r
  <1>3. p * (h * r) <= p * q
    <2>1. h * r = q \/ h * r < q
      BY <1>1, <1>2
    <2>2. h * r < q => p * (h * r) + p <= p * q /\ p * (h * r) \in Nat
      BY <1>1, <1>2, Multiples
    <2> QED
      BY <1>1, <2>1, <2>2
  <1>4. p * q + p <= p * (h * r + h)
    <2>1. h * r + h \in Nat
      BY <1>2
    <2> DEFINE t == h * r + h
    <2> HIDE DEF t
    <2>2. t \in Nat /\ q < t
      BY <1>2, <2>1 DEF t
    <2>3. p * q + p <= p * t
      BY <1>1, <2>2, Multiples
    <2> QED
      BY <2>3 DEF t
  <1>5. p * (h * r) = (h * p) * r /\ p * (h * r + h) = (h * p) * r + h * p
    BY <1>2
  <1> DEFINE d == h * p
  <1>6. d \in Nat \ {0} /\ (h * p) * r = d * r
    OBVIOUS
  <1> HIDE DEF d
  <1>7. d * r <= x /\ x < d * r + d
    <2>1. d * r \in Nat
      BY <1>2, <1>6
    <2>2. p * (h * r) = d * r /\ p * (h * r + h) = d * r + d
      BY <1>5, <1>6 DEF d
    <2> DEFINE m == p * q
               t == p * (h * r)
               u == p * (h * r + h)
               e == d * r
    <2>3. m \in Nat /\ m <= x /\ x < m + p /\ t <= m /\ m + p <= u /\ t = e /\ u = e + d
          /\ e \in Nat
      BY <1>1, <1>3, <1>4, <2>1, <2>2
    <2> HIDE DEF m, t, u, e
    <2>4. e <= x /\ x < e + d
      BY <1>6, <2>3
    <2> QED
      BY <2>4 DEF e
  <1>8. x \div d = r
    BY <1>2, <1>6, <1>7, OneQuotient
  <1> QED
    BY <1>8 DEF d, r, q

(* A number has one last digit, and one before it. *)
LEMMA LastDigit ==
    ASSUME NEW h \in Nat \ {0}, NEW a \in Nat, NEW b \in Nat,
           NEW c \in 0 .. h - 1, NEW d \in 0 .. h - 1
    PROVE  h * a + c = h * b + d <=> a = b /\ c = d
  <1> DEFINE x == h * a
             y == h * b
  <1>1. x \in Nat /\ y \in Nat /\ (a < b => x + h <= y) /\ (b < a => y + h <= x) /\ (a = b => x = y)
    BY Multiples
  <1> HIDE DEF x, y
  <1>2. x + c = y + d <=> a = b /\ c = d
    BY <1>1
  <1> QED
    BY <1>2 DEF x, y

(* And two last digits, which are those of a byte. *)
LEMMA LastTwoDigits ==
    ASSUME NEW h \in Nat \ {0}, NEW a \in Nat, NEW b \in Nat,
           NEW c1 \in 0 .. h - 1, NEW c2 \in 0 .. h - 1,
           NEW d1 \in 0 .. h - 1, NEW d2 \in 0 .. h - 1
    PROVE  (h * h) * a + (h * c1 + c2) = (h * h) * b + (h * d1 + d2) <=> a = b /\ c1 = d1 /\ c2 = d2
  <1> DEFINE x == h * a + c1
             y == h * b + d1
  <1>1. (h * h) * a + (h * c1 + c2) = h * x + c2
    OBVIOUS
  <1>2. (h * h) * b + (h * d1 + d2) = h * y + d2
    OBVIOUS
  <1>3. h * a \in Nat /\ h * b \in Nat
    OBVIOUS
  <1>4. x \in Nat /\ y \in Nat
    BY <1>3
  <1>5. x = y <=> a = b /\ c1 = d1
    BY LastDigit
  <1> HIDE DEF x, y
  <1>6. h * x + c2 = h * y + d2 <=> x = y /\ c2 = d2
    BY <1>4, LastDigit
  <1> QED
    BY <1>1, <1>2, <1>5, <1>6

(* A byte has two digits. *)
LEMMA PowersOfBytes ==
    ASSUME NEW n \in 0 .. KeySize
    PROVE  Power(Bytes)[n] = Power(Hex)[2 * n]
  <1> DEFINE P == {m \in Nat : m <= KeySize => Power(Bytes)[m] = Power(Hex)[2 * m]}
  <1>1. /\ KeySize \in Nat /\ Hex \in Nat \ {0} /\ Bytes \in Nat \ {0} /\ Bytes = Hex * Hex
    BY Digits
  <1>2. 0 \in P
    <2>1. Power(Bytes)[0] = 1 /\ Power(Hex)[0] = 1 /\ 2 * 0 = 0
      BY <1>1, PowerRecurs
    <2> QED
      BY <2>1
  <1>3. ASSUME NEW m \in P PROVE m + 1 \in P
    <2>1. SUFFICES ASSUME m + 1 <= KeySize PROVE Power(Bytes)[m + 1] = Power(Hex)[2 * (m + 1)]
      OBVIOUS
    <2>2. /\ m \in Nat /\ m <= KeySize /\ m \in 0 .. 2 * KeySize - 1 /\ m \in 0 .. 2 * KeySize
          /\ 2 * m \in 0 .. 2 * KeySize - 1 /\ 2 * m + 1 \in 0 .. 2 * KeySize - 1
          /\ 2 * m \in 0 .. 2 * KeySize
      BY <1>1, <2>1
    <2>3. Power(Bytes)[m] = Power(Hex)[2 * m]
      BY <2>2
    <2>4. Power(Bytes)[m + 1] = Bytes * Power(Bytes)[m]
      BY <1>1, <2>2, PowerRecurs
    <2>5. Power(Hex)[2 * m + 1] = Hex * Power(Hex)[2 * m]
          /\ Power(Hex)[(2 * m + 1) + 1] = Hex * Power(Hex)[2 * m + 1]
          /\ Power(Hex)[2 * m] \in Nat
      BY <1>1, <2>2, PowerRecurs
    <2>6. 2 * (m + 1) = (2 * m + 1) + 1
      BY <2>2
    <2> DEFINE p == Power(Hex)[2 * m]
    <2>7. p \in Nat /\ Power(Bytes)[m + 1] = Bytes * p
          /\ Power(Hex)[2 * (m + 1)] = Hex * (Hex * p)
      BY <2>3, <2>4, <2>5, <2>6
    <2> HIDE DEF p
    <2>8. (Hex * Hex) * p = Hex * (Hex * p)
      BY <1>1, <2>7
    <2> QED
      BY <1>1, <2>7, <2>8
  <1>4. P = Nat
    <2>1. P \in SUBSET Nat
      OBVIOUS
    <2> HIDE DEF P
    <2> QED
      BY <1>2, <1>3, <2>1, Induction
  <1> QED
    BY <1>1, <1>4

(* All keys are made of KeySize bytes. *)
LEMMA KeysBelow == Keys = 0 .. Power(Hex)[2 * KeySize] - 1
  <1>1. KeySize - 1 \in 0 .. 2 * KeySize - 1 /\ (KeySize - 1) + 1 = KeySize
        /\ KeySize \in 0 .. KeySize /\ Bytes \in Nat \ {0}
    BY Digits
  <1>2. Power(Bytes)[KeySize] = Bytes * PerByte
    <2>1. Power(Bytes)[(KeySize - 1) + 1] = Bytes * Power(Bytes)[KeySize - 1]
      BY <1>1, PowerRecurs
    <2> QED
      BY <1>1, <2>1, DinoinfoAssumption
  <1>3. Power(Bytes)[KeySize] = Power(Hex)[2 * KeySize]
    BY <1>1, PowersOfBytes
  <1> QED
    BY <1>2, <1>3 DEF Keys

(* What the first bytes of a key stand for *)
Leading(x, b) == x \div Power(Bytes)[KeySize - b]

(* It grows by two digits of key2hex() with each byte. *)
LEMMA LeadingRecurs ==
    ASSUME NEW x \in Keys
    PROVE  /\ Leading(x, 0) = 0 /\ Leading(x, 1) = FirstByte(x)
           /\ \A b \in 0 .. KeySize : Leading(x, b) \in Nat
           /\ \A d \in 1 .. 2 * KeySize : KeyHex(x)[d] \in 0 .. Hex - 1
           /\ \A b \in 0 .. KeySize - 1 :
                 Leading(x, b + 1) = Bytes * Leading(x, b)
                                     + (Hex * KeyHex(x)[2 * b + 1] + KeyHex(x)[2 * b + 2])
  <1> DEFINE N == 2 * KeySize
             D(n) == x \div Power(Hex)[n]
  <1>1. /\ KeySize \in Nat /\ KeySize >= 1 /\ Hex \in Nat \ {0} /\ Bytes \in Nat \ {0}
        /\ Bytes = Hex * Hex
    BY Digits
  <1>2. x \in Nat /\ x < Power(Hex)[N]
    <2>1. N \in 0 .. 2 * KeySize
      BY <1>1
    <2>2. Power(Hex)[N] \in Nat
      BY <1>1, <2>1, PowerRecurs
    <2> QED
      BY <2>2, KeysBelow
  <1>3. ASSUME NEW n \in 0 .. N PROVE Power(Hex)[n] \in Nat \ {0} /\ D(n) \in Nat
    <2>1. Power(Hex)[n] \in Nat \ {0}
      BY <1>1, PowerRecurs
    <2> QED
      BY <1>2, <2>1, Division
  <1>4. ASSUME NEW n \in 0 .. N - 1
        PROVE  D(n) = Hex * D(n + 1) + (D(n) % Hex) /\ D(n) % Hex \in 0 .. Hex - 1
    <2>1. n \in 0 .. N /\ n + 1 \in 0 .. N
      BY <1>1
    <2>2. Power(Hex)[n + 1] = Hex * Power(Hex)[n] /\ Power(Hex)[n + 1] \in Nat \ {0}
      BY <1>1, <1>3, <2>1, PowerRecurs
    <2> DEFINE p == Power(Hex)[n]
    <2>3. p \in Nat \ {0} /\ Hex * p \in Nat \ {0} /\ D(n) = x \div p /\ D(n) \in Nat
          /\ D(n + 1) = x \div (Hex * p)
      BY <1>3, <2>1, <2>2
    <2> HIDE DEF p, D
    <2>4. x \div (Hex * p) = (x \div p) \div Hex
      BY <1>1, <1>2, <2>3, QuotientOfQuotient
    <2> DEFINE q == x \div p
    <2>5. q \in Nat /\ D(n) = q /\ D(n + 1) = q \div Hex
      BY <2>3, <2>4
    <2> HIDE DEF q
    <2>6. q = Hex * (q \div Hex) + (q % Hex) /\ q % Hex \in 0 .. Hex - 1
      BY <1>1, <2>5, Division
    <2> QED
      BY <2>5, <2>6
  <1>5. D(N) = 0
    <2>1. N \in 0 .. N
      BY <1>1
    <2> DEFINE p == Power(Hex)[N]
    <2>2. p \in Nat \ {0} /\ x < p
      BY <1>2, <1>3, <2>1
    <2> HIDE DEF p
    <2>3. p * 0 = 0
      BY <2>2
    <2>4. x \div p = 0
      BY <1>2, <2>2, <2>3, OneQuotient
    <2> QED
      BY <2>4 DEF p
  <1>6. ASSUME NEW b \in 0 .. KeySize PROVE Leading(x, b) = D(N - 2 * b)
    <2>1. KeySize - b \in 0 .. KeySize /\ 2 * (KeySize - b) = N - 2 * b
      BY <1>1
    <2>2. Power(Bytes)[KeySize - b] = Power(Hex)[2 * (KeySize - b)]
      BY <2>1, PowersOfBytes
    <2> QED
      BY <2>1, <2>2 DEF Leading
  <1>7. ASSUME NEW d \in 1 .. N PROVE KeyHex(x)[d] = D(N - d) % Hex /\ N - d \in 0 .. N - 1
    BY <1>1 DEF KeyHex
  <1>8. Leading(x, 1) = FirstByte(x)
    BY DinoinfoAssumption DEF Leading, FirstByte
  <1>9. ASSUME NEW b \in 0 .. KeySize - 1
        PROVE  Leading(x, b + 1) = Bytes * Leading(x, b)
                                   + (Hex * KeyHex(x)[2 * b + 1] + KeyHex(x)[2 * b + 2])
    <2> DEFINE m == N - 2 * b
    <2>1. /\ m - 1 \in 0 .. N - 1 /\ m - 2 \in 0 .. N - 1 /\ m \in 0 .. N
          /\ (m - 2) + 1 = m - 1 /\ (m - 1) + 1 = m
          /\ b \in 0 .. KeySize /\ b + 1 \in 0 .. KeySize
          /\ 2 * b + 1 \in 1 .. N /\ 2 * b + 2 \in 1 .. N
          /\ N - (2 * b + 1) = m - 1 /\ N - (2 * b + 2) = m - 2 /\ N - 2 * (b + 1) = m - 2
      BY <1>1
    <2> HIDE DEF m, N, D
    <2> DEFINE h1 == KeyHex(x)[2 * b + 1]
               h2 == KeyHex(x)[2 * b + 2]
    <2>2. h1 = D(m - 1) % Hex /\ h2 = D(m - 2) % Hex
      BY <1>7, <2>1
    <2>3. Leading(x, b) = D(m) /\ Leading(x, b + 1) = D(m - 2)
      BY <1>6, <2>1 DEF m
    <2>4. D(m - 1) = Hex * D(m) + (D(m - 1) % Hex)
      BY <1>4, <2>1
    <2>5. D(m - 2) = Hex * D(m - 1) + (D(m - 2) % Hex)
      BY <1>4, <2>1
    <2>6. D(m) \in Nat /\ h1 \in Nat /\ h2 \in Nat
      BY <1>1, <1>3, <1>4, <2>1, <2>2
    <2> HIDE DEF h1, h2
    <2>7. D(m - 2) = Hex * (Hex * D(m) + h1) + h2
      BY <2>2, <2>4, <2>5
    <2> DEFINE dm == D(m)
    <2>8. dm \in Nat /\ D(m - 2) = Hex * (Hex * dm + h1) + h2
      BY <2>6, <2>7
    <2> HIDE DEF dm
    <2>9. Hex * (Hex * dm + h1) + h2 = (Hex * Hex) * dm + (Hex * h1 + h2)
      BY <1>1, <2>6, <2>8
    <2>10. Leading(x, b + 1) = Bytes * Leading(x, b) + (Hex * h1 + h2)
      BY <1>1, <2>3, <2>8, <2>9 DEF dm
    <2> QED
      BY <2>10 DEF h1, h2
  <1>10. Leading(x, 0) = 0
    <2>1. 0 \in 0 .. KeySize /\ N - 2 * 0 = N
      BY <1>1
    <2> QED
      BY <1>5, <1>6, <2>1
  <1>11. ASSUME NEW b \in 0 .. KeySize PROVE Leading(x, b) \in Nat
    <2>1. N - 2 * b \in 0 .. N
      BY <1>1
    <2> HIDE DEF N, D
    <2> QED
      BY <1>3, <1>6, <2>1
  <1>12. ASSUME NEW d \in 1 .. N PROVE KeyHex(x)[d] \in 0 .. Hex - 1
    <2> HIDE DEF N, D
    <2> QED
      BY <1>4, <1>7
  <1> QED
    BY <1>8, <1>9, <1>10, <1>11, <1>12

(* The first n digits of a key are those that were given. *)
BeginsWith(x, hex, n) == \A d \in 1 .. n : KeyHex(x)[d] = Digit(hex, d)

(* That is so if what its bytes stand for is what the program makes of     *)
(* the digits.                                                             *)
LEMMA LeadingAgrees ==
    ASSUME NEW x \in Keys, NEW hex \in KeyStrs, NEW len \in 0 .. KeySize, NEW fill, NEW f,
           IsPadded(hex, len, fill, f), NEW b \in 0 .. len
    PROVE  Leading(x, b) = f[b] <=> BeginsWith(x, hex, 2 * b)
  <1> DEFINE P == {n \in Nat : n <= len => (Leading(x, n) = f[n] <=> BeginsWith(x, hex, 2 * n))}
  <1>1. KeySize \in Nat /\ len \in Nat /\ Hex \in Nat \ {0} /\ Bytes = Hex * Hex
    BY Digits
  <1>2. 0 \in P
    <2>1. Leading(x, 0) = 0 /\ f[0] = 0 /\ 1 .. 2 * 0 = {}
      BY LeadingRecurs DEF IsPadded
    <2> QED
      BY <2>1 DEF BeginsWith
  <1>3. ASSUME NEW n \in P PROVE n + 1 \in P
    <2>1. SUFFICES ASSUME n + 1 <= len
                   PROVE  Leading(x, n + 1) = f[n + 1] <=> BeginsWith(x, hex, 2 * (n + 1))
      OBVIOUS
    <2>2. /\ n \in Nat /\ n <= len /\ n \in 0 .. KeySize - 1 /\ n \in 0 .. KeySize
          /\ 2 * n + 1 \in 1 .. 2 * KeySize /\ 2 * n + 2 \in 1 .. 2 * KeySize
          /\ n + 1 \in Nat \ {0} /\ 2 * (n + 1) - 1 = 2 * n + 1 /\ 2 * (n + 1) = 2 * n + 2
      BY <1>1, <2>1
    <2>3. Leading(x, n) = f[n] <=> BeginsWith(x, hex, 2 * n)
      BY <2>2
    <2> DEFINE c1 == KeyHex(x)[2 * n + 1]
               c2 == KeyHex(x)[2 * n + 2]
               d1 == Digit(hex, 2 * n + 1)
               d2 == Digit(hex, 2 * n + 2)
               a == Leading(x, n)
               e == f[n]
    <2>4. /\ c1 \in 0 .. Hex - 1 /\ c2 \in 0 .. Hex - 1 /\ a \in Nat
          /\ Leading(x, n + 1) = Bytes * a + (Hex * c1 + c2)
      BY <2>2, LeadingRecurs
    <2>5. d1 \in 0 .. Hex - 1 /\ d2 \in 0 .. Hex - 1 /\ KeyByte(hex, n + 1) = Hex * d1 + d2
      <3>1. /\ Digit(hex, 2 * (n + 1) - 1) \in 0 .. Hex - 1
            /\ Digit(hex, 2 * (n + 1)) \in 0 .. Hex - 1
        BY <2>2, KeyByteType
      <3> QED
        BY <2>2, <3>1 DEF KeyByte
    <2>6. e \in Nat /\ f[n + 1] = Bytes * e + (Hex * d1 + d2)
      BY <2>1, <2>2, <2>5 DEF IsPadded
    <2> HIDE DEF c1, c2, d1, d2, a, e, P
    <2>7. Leading(x, n + 1) = f[n + 1] <=> a = e /\ c1 = d1 /\ c2 = d2
      BY <1>1, <2>4, <2>5, <2>6, LastTwoDigits
    <2>8. BeginsWith(x, hex, 2 * (n + 1)) <=> BeginsWith(x, hex, 2 * n) /\ c1 = d1 /\ c2 = d2
      <3> DEFINE Same(d) == KeyHex(x)[d] = Digit(hex, d)
      <3>1. 1 .. 2 * (n + 1) = (1 .. 2 * n) \cup {2 * n + 1, 2 * n + 2}
        BY <2>2
      <3>2. (c1 = d1 <=> Same(2 * n + 1)) /\ (c2 = d2 <=> Same(2 * n + 2))
        BY DEF c1, c2, d1, d2
      <3>3. (BeginsWith(x, hex, 2 * n) <=> \A d \in 1 .. 2 * n : Same(d))
            /\ (BeginsWith(x, hex, 2 * (n + 1)) <=> \A d \in 1 .. 2 * (n + 1) : Same(d))
        BY DEF BeginsWith
      <3> HIDE DEF Same
      <3> QED
        BY <3>1, <3>2, <3>3
    <2> QED
      BY <2>3, <2>7, <2>8 DEF a, e
  <1>4. P = Nat
    <2>1. P \in SUBSET Nat
      OBVIOUS
    <2> HIDE DEF P
    <2> QED
      BY <1>2, <1>3, <2>1, Induction
  <1> QED
    BY <1>1, <1>4

(* After the prefix: with zeros a key is the first of those with it, and   *)
(* with the greatest bytes the last.                                       *)
LEMMA FillsUp ==
    ASSUME NEW hex \in KeyStrs, NEW len \in 0 .. KeySize,
           NEW f, IsPadded(hex, len, 0, f), NEW g, IsPadded(hex, len, Bytes - 1, g)
    PROVE  /\ \A b \in 0 .. len : f[b] = g[b]
           /\ f[KeySize] = Power(Bytes)[KeySize - len] * f[len]
           /\ g[KeySize] + 1 = Power(Bytes)[KeySize - len] * (f[len] + 1)
  <1>1. KeySize \in Nat /\ len \in Nat /\ len <= KeySize /\ Bytes \in Nat \ {0} /\ Bytes > 1
    BY Digits
  <1> DEFINE P == {n \in Nat : n <= len => f[n] = g[n]}
  <1>2. 0 \in P
    BY DEF IsPadded
  <1>3. ASSUME NEW n \in P PROVE n + 1 \in P
    <2>1. SUFFICES ASSUME n + 1 <= len PROVE f[n + 1] = g[n + 1]
      OBVIOUS
    <2>2. n \in 0 .. KeySize - 1 /\ f[n] = g[n]
      BY <1>1, <2>1
    <2> HIDE DEF P
    <2>3. f[n + 1] = Bytes * f[n] + KeyByte(hex, n + 1)
          /\ g[n + 1] = Bytes * g[n] + KeyByte(hex, n + 1)
      BY <2>1, <2>2 DEF IsPadded
    <2> QED
      BY <2>2, <2>3
  <1>4. P = Nat
    <2>1. P \in SUBSET Nat
      OBVIOUS
    <2> HIDE DEF P
    <2> QED
      BY <1>2, <1>3, <2>1, Induction
  <1>5. \A b \in 0 .. len : f[b] = g[b]
    BY <1>1, <1>4
  <1> DEFINE pow(n) == Power(Bytes)[n]
             p == f[len]
             Q == {n \in Nat : n <= KeySize - len => /\ f[len + n] = pow(n) * p
                                                      /\ g[len + n] + 1 = pow(n) * (p + 1)}
  <1>6. p \in Nat
    BY <1>1 DEF IsPadded
  <1>7. 0 \in Q
    <2>1. pow(0) = 1
      BY <1>1, PowerRecurs
    <2>2. len + 0 = len /\ g[len] = p
      BY <1>1, <1>5
    <2> HIDE DEF pow, p
    <2>3. f[len + 0] = pow(0) * p /\ g[len + 0] + 1 = pow(0) * (p + 1)
      BY <1>6, <2>1, <2>2 DEF p
    <2> QED
      BY <2>3
  <1>8. ASSUME NEW n \in Q PROVE n + 1 \in Q
    <2>1. SUFFICES ASSUME n + 1 <= KeySize - len
                   PROVE  /\ f[len + (n + 1)] = pow(n + 1) * p
                          /\ g[len + (n + 1)] + 1 = pow(n + 1) * (p + 1)
      OBVIOUS
    <2>2. /\ n \in Nat /\ n <= KeySize - len
          /\ len + n \in 0 .. KeySize - 1 /\ len + n \in 0 .. KeySize
          /\ len + (n + 1) = (len + n) + 1 /\ ~((len + n) + 1 <= len)
          /\ n \in 0 .. 2 * KeySize - 1 /\ n \in 0 .. 2 * KeySize
      BY <1>1, <2>1
    <2>3. f[len + n] = pow(n) * p /\ g[len + n] + 1 = pow(n) * (p + 1)
      BY <2>2
    <2>4. pow(n + 1) = Bytes * pow(n) /\ pow(n) \in Nat
      BY <1>1, <2>2, PowerRecurs
    <2>5. f[len + n] \in Nat /\ g[len + n] \in Nat
      BY <2>2 DEF IsPadded
    <2>6. f[len + (n + 1)] = Bytes * f[len + n] + 0
      BY <2>2 DEF IsPadded
    <2>7. g[len + (n + 1)] = Bytes * g[len + n] + (Bytes - 1)
      BY <2>2 DEF IsPadded
    <2> DEFINE x == f[len + n]
               y == g[len + n]
               w == pow(n)
    <2> HIDE DEF x, y, w, pow, p, Q
    <2>8. x \in Nat /\ y \in Nat /\ w \in Nat /\ x = w * p /\ y + 1 = w * (p + 1)
      BY <2>3, <2>4, <2>5 DEF x, y, w
    <2>9. Bytes * x + 0 = (Bytes * w) * p
      BY <1>1, <1>6, <2>8
    <2>10. Bytes * y + (Bytes - 1) + 1 = (Bytes * w) * (p + 1)
      <3>1. Bytes * y + (Bytes - 1) + 1 = Bytes * (y + 1)
        BY <1>1, <2>8
      <3>2. Bytes * (w * (p + 1)) = (Bytes * w) * (p + 1)
        BY <1>1, <1>6, <2>8
      <3> QED
        BY <2>8, <3>1, <3>2
    <2> QED
      BY <2>4, <2>6, <2>7, <2>9, <2>10 DEF x, y, w
  <1>9. Q = Nat
    <2>1. Q \in SUBSET Nat
      OBVIOUS
    <2> HIDE DEF Q
    <2> QED
      BY <1>7, <1>8, <2>1, Induction
  <1>10. KeySize - len \in Nat /\ len + (KeySize - len) = KeySize
    BY <1>1
  <1>11. f[KeySize] = pow(KeySize - len) * p /\ g[KeySize] + 1 = pow(KeySize - len) * (p + 1)
    <2>1. KeySize - len \in Q
      BY <1>9, <1>10
    <2> QED
      BY <1>10, <2>1
  <1> QED
    BY <1>5, <1>11

(* The keys between the two are those that begin with the digits. *)
LEMMA WithinPrefix ==
    ASSUME NEW hex \in KeyStrs, NEW len \in 1 .. KeySize - 1
    PROVE  LET lokey == Padded(hex, len, 0)
               hikey == Padded(hex, len, Bytes - 1)
           IN  /\ lokey \in Int /\ hikey \in Int /\ lokey < hikey
               /\ \A x \in Keys : Within(lokey, hikey, x) <=> BeginsWith(x, hex, 2 * len)
  <1>1. /\ KeySize \in Nat /\ len \in Nat /\ len \in 0 .. KeySize /\ len >= 1 /\ len <= KeySize - 1
        /\ Bytes \in Nat \ {0} /\ Bytes > 1 /\ 0 \in 0 .. Bytes - 1 /\ Bytes - 1 \in 0 .. Bytes - 1
    BY Digits
  <1>2. PICK f : IsPadded(hex, len, 0, f) /\ Padded(hex, len, 0) = f[KeySize]
    BY <1>1, PaddedRecurs
  <1>3. PICK g : IsPadded(hex, len, Bytes - 1, g) /\ Padded(hex, len, Bytes - 1) = g[KeySize]
    BY <1>1, PaddedRecurs
  <1> DEFINE w == Power(Bytes)[KeySize - len]
             p == f[len]
             lokey == f[KeySize]
             hikey == g[KeySize]
  <1>4. lokey = w * p /\ hikey + 1 = w * (p + 1)
    BY <1>1, <1>2, <1>3, FillsUp
  <1>5. p \in Nat /\ lokey \in Nat /\ hikey \in Nat
    <2>1. KeySize \in 0 .. KeySize
      BY <1>1
    <2> QED
      BY <1>1, <1>2, <1>3, <2>1 DEF IsPadded
  <1>6. w \in Nat /\ w > 1
    <2>1. (KeySize - len) - 1 \in 0 .. 2 * KeySize - 1 /\ (KeySize - len) - 1 \in 0 .. 2 * KeySize
          /\ ((KeySize - len) - 1) + 1 = KeySize - len
      BY <1>1
    <2> DEFINE v == Power(Bytes)[(KeySize - len) - 1]
    <2>2. v \in Nat \ {0} /\ w = Bytes * v
      BY <1>1, <2>1, PowerRecurs
    <2> HIDE DEF v, w
    <2>3. PICK a \in Nat : v = a + 1
      <3>1. v - 1 \in Nat /\ v = (v - 1) + 1
        BY <2>2
      <3> QED
        BY <3>1
    <2>4. Bytes * (a + 1) = Bytes * a + Bytes /\ Bytes * a \in Nat
      BY <1>1
    <2> QED
      BY <1>1, <2>2, <2>3, <2>4
  <1> HIDE DEF w, p, lokey, hikey
  <1>7. w * (p + 1) = w * p + w
    BY <1>5, <1>6
  <1>8. hikey + 1 = lokey + w /\ lokey < hikey
    BY <1>4, <1>5, <1>6, <1>7
  <1>9. ASSUME NEW x \in Keys PROVE Within(lokey, hikey, x) <=> BeginsWith(x, hex, 2 * len)
    <2>1. x \in Nat /\ len \in 0 .. len
      BY <1>1, FirstByteType
    <2>2. Leading(x, len) = p <=> BeginsWith(x, hex, 2 * len)
      BY <1>1, <1>2, <2>1, LeadingAgrees DEF p
    <2> DEFINE q == Leading(x, len)
               m == w * q
    <2>3. q \in Nat /\ m \in Nat /\ m <= x /\ x < m + w
      <3>1. w \in Nat \ {0} /\ q = x \div w
        BY <1>6 DEF Leading, w
      <3> HIDE DEF q
      <3> QED
        BY <2>1, <3>1, Division
    <2>4. q = p => m = lokey
      BY <1>4
    <2>5. Within(lokey, hikey, x) => q = p
      <3>1. SUFFICES ASSUME lokey <= x, x <= hikey PROVE q = p
        BY DEF Within
      <3>2. w * p <= x /\ x < w * p + w
        BY <1>4, <1>5, <1>8, <2>1, <3>1
      <3>3. x \div w = p
        BY <1>5, <1>6, <2>1, <3>2, OneQuotient
      <3> QED
        BY <3>3 DEF Leading, w
    <2> HIDE DEF q, m
    <2>6. q = p => Within(lokey, hikey, x)
      BY <1>5, <1>6, <1>8, <2>1, <2>3, <2>4 DEF Within
    <2> QED
      BY <2>2, <2>5, <2>6 DEF q
  <1> QED
    BY <1>2, <1>3, <1>5, <1>8, <1>9 DEF lokey, hikey
----------------------------------------------------------------------------
(* A search with digits gives a range, whatever is found.                  *)
LEMMA MatchingType ==
    ASSUME NEW x, IsIndex(x), keystr \in KeyStrs
    PROVE  /\ Matching(x).lo \in Nat /\ Matching(x).hi \in Nat
           /\ Matching(x).lo <= Matching(x).hi + 1
  <1> DEFINE c == KeyByte(keystr, 1)
             f == FanoutOf(x.keys, x.count)
             base == BaseOf(f, c * PerByte)
             n == NumOf(f, c * PerByte)
             lokey == Padded(keystr, PartKeyLen(keystr), 0)
             hikey == Padded(keystr, PartKeyLen(keystr), Bytes - 1)
  <1>1. c \in 0 .. Bytes - 1
    BY KeyByteType
  <1>2. base \in Nat /\ n \in Nat
    BY <1>1, Bucket
  <1>3. 0 \in 0 .. Bytes - 1 /\ Bytes - 1 \in 0 .. Bytes - 1
    BY Digits
  <1>4. lokey \in Nat /\ hikey \in Nat
    BY <1>3, PaddedType, PartKeyLenType
  <1>5. Matching(x) = BsearchPkr(lokey, hikey, x.keys, base, n)
    BY DEF Matching, KeyMatch
  <1> HIDE DEF lokey, hikey, base, n
  <1>6. lokey \in Int /\ hikey \in Int
    BY <1>4
  <1> QED
    BY <1>2, <1>5, <1>6, PkrIsRange

(* The digits of key2hex() and those given are the same up to where they   *)
(* agree.                                                                  *)
LEMMA SameDigits ==
    ASSUME NEW x \in Keys, NEW hex \in KeyStrs, NEW n \in Nat, n <= Len(hex), n <= 2 * KeySize
    PROVE  SubSeq(KeyHex(x), 1, n) = SubSeq(hex, 1, n) <=> BeginsWith(x, hex, n)
  <1> DEFINE S == 0 .. Hex - 1
             s == SubSeq(KeyHex(x), 1, n)
             t == SubSeq(hex, 1, n)
  <1>1. hex \in Seq(S) /\ Len(hex) \in Nat /\ KeySize \in Nat
    BY DinoinfoAssumption, PartKeyLenType, Digits
  <1>2. ASSUME NEW d \in 1 .. n PROVE KeyHex(x)[d] \in S /\ hex[d] \in S /\ Digit(hex, d) = hex[d]
    <2>1. d \in 1 .. 2 * KeySize /\ d \in 1 .. Len(hex) /\ d <= Len(hex)
      BY <1>1
    <2>2. KeyHex(x)[d] \in S
      BY <2>1, LeadingRecurs
    <2>3. hex[d] \in S
      BY <1>1, <2>1, ElementOfSeq
    <2> QED
      BY <2>1, <2>2, <2>3 DEF Digit
  <1> DEFINE m == IF 1 <= n THEN n - 1 + 1 ELSE 0
  <1>3. m = n /\ n - 1 + 1 = n /\ \A d \in 1 .. n : 1 + d - 1 = d
    OBVIOUS
  <1> HIDE DEF S
  <1>4. s \in Seq(S) /\ Len(s) = m /\ \A d \in 1 .. n - 1 + 1 : s[d] = KeyHex(x)[1 + d - 1]
    BY <1>2, SubSeqProperties
  <1>5. t \in Seq(S) /\ Len(t) = m /\ \A d \in 1 .. n - 1 + 1 : t[d] = hex[1 + d - 1]
    BY <1>2, SubSeqProperties
  <1> HIDE DEF s, t, m
  <1>6. \A d \in 1 .. n : s[d] = KeyHex(x)[d] /\ t[d] = hex[d]
    BY <1>3, <1>4, <1>5
  <1>7. s = t <=> \A d \in 1 .. n : s[d] = t[d]
    BY <1>3, <1>4, <1>5, SeqEqual
  <1>8. s = t <=> BeginsWith(x, hex, n)
    BY <1>2, <1>6, <1>7 DEF BeginsWith
  <1> QED
    BY <1>8 DEF s, t

(* A key with the digits of the prefix has its first byte.                 *)
LEMMA FirstByteAgrees ==
    ASSUME NEW x \in Keys, NEW hex \in KeyStrs, NEW n \in Nat, n >= 2, BeginsWith(x, hex, n)
    PROVE  FirstByte(x) = KeyByte(hex, 1)
  <1>1. /\ KeySize \in Nat /\ 1 \in 0 .. KeySize /\ 0 \in 0 .. Bytes - 1 /\ Bytes \in Nat
        /\ 0 \in 0 .. KeySize - 1
    BY Digits
  <1>2. PICK f : IsPadded(hex, 1, 0, f)
    BY <1>1, PaddedRecurs
  <1>3. BeginsWith(x, hex, 2 * 1)
    <2>1. \A d \in 1 .. 2 * 1 : d \in 1 .. n
      OBVIOUS
    <2> QED
      BY <2>1 DEF BeginsWith
  <1>4. Leading(x, 1) = f[1]
    <2>1. 1 \in 0 .. 1
      OBVIOUS
    <2> QED
      BY <1>1, <1>2, <1>3, <2>1, LeadingAgrees
  <1>5. f[1] = KeyByte(hex, 1)
    <2>1. f[0 + 1] = Bytes * f[0] + (IF 0 + 1 <= 1 THEN KeyByte(hex, 0 + 1) ELSE 0) /\ f[0] = 0
      BY <1>1, <1>2 DEF IsPadded
    <2>2. KeyByte(hex, 1) \in Nat
      <3>1. KeyByte(hex, 1) \in 0 .. Bytes - 1
        BY KeyByteType
      <3> QED
        BY <1>1, <3>1
    <2>3. 0 + 1 = 1 /\ Bytes * 0 = 0
      BY <1>1
    <2> QED
      BY <2>1, <2>2, <2>3
  <1> QED
    BY <1>4, <1>5, LeadingRecurs

(* What is shown of an index: a range of places. *)
Asked(x) == IF keystr = NoKeyStr THEN AllKeys(x) ELSE Matching(x)

(* What is there begins with the digits, and all keys that do are there.   *)
(* The range may go on after the last key, to what follows it.             *)
LEMMA AskedIsWanted ==
    ASSUME NEW x, IsIndex(x), keystr \in KeyStrs \cup {NoKeyStr}
    PROVE  /\ Asked(x).lo \in Nat /\ Asked(x).hi \in Nat /\ Asked(x).lo <= Asked(x).hi + 1
           /\ keystr = NoKeyStr /\ x.count > 0 => Asked(x).hi < x.count
           /\ CanMatch => /\ Wanted(x) \subseteq Asked(x).lo .. Asked(x).hi
                          /\ \A p \in Asked(x).lo .. Asked(x).hi :
                                p <= x.count => Begins(x, p)
  <1>1. /\ x.count \in Nat /\ x.count < CntMod /\ CntMod \in Nat \ {0}
        /\ \A j \in 0 .. x.count - 1 : x.keys[j] \in Keys
        /\ \A j \in 0 .. x.count : x.keys[j] \in Keys
    <2>1. x.count \in 0 .. CntMod - 1 /\ x.keys \in [0 .. x.count -> Keys] /\ CntMod \in Nat \ {0}
      BY Digits DEF IsIndex
    <2>2. x.count \in Nat /\ x.count < CntMod
      BY <2>1
    <2>3. \A j \in 0 .. x.count - 1 : j \in 0 .. x.count
      BY <2>2
    <2> QED
      BY <2>1, <2>2, <2>3
  <1>2. CASE keystr = NoKeyStr
    <2> DEFINE h == (x.count - 1) % CntMod
    <2>1. Asked(x).lo = 0 /\ Asked(x).hi = h
      BY <1>2 DEF Asked, AllKeys
    <2>2. h \in Nat /\ (x.count # 0 => h = x.count - 1)
      BY <1>1
    <2> HIDE DEF h
    <2>3. Wanted(x) \subseteq 0 .. x.count - 1 /\ \A p : Begins(x, p)
      BY <1>2 DEF Wanted, Begins
    <2>4. ASSUME NEW j \in 0 .. x.count - 1 PROVE j \in 0 .. h
      BY <1>1, <2>2
    <2>5. x.count > 0 => h < x.count
      BY <1>1, <2>2
    <2> QED
      BY <1>1, <2>1, <2>2, <2>3, <2>4, <2>5
  <1>3. CASE keystr # NoKeyStr
    <2>1. keystr \in KeyStrs /\ Asked(x) = Matching(x)
      BY <1>3 DEF Asked
    <2>2. SUFFICES ASSUME CanMatch
                   PROVE  /\ Wanted(x) \subseteq Matching(x).lo .. Matching(x).hi
                          /\ \A p \in Matching(x).lo .. Matching(x).hi :
                                p <= x.count => Begins(x, p)
      BY <1>3, <2>1, MatchingType
    <2> DEFINE m == Len(keystr) \div 2
               c == KeyByte(keystr, 1)
               f == FanoutOf(x.keys, x.count)
               base == BaseOf(f, c * PerByte)
               n == NumOf(f, c * PerByte)
               lokey == Padded(keystr, m, 0)
               hikey == Padded(keystr, m, Bytes - 1)
    <2>3. /\ KeySize \in Nat /\ KeySize < LenMod /\ LenMod \in Nat \ {0} /\ Len(keystr) \in Nat
      BY <2>1, Digits, PartKeyLenType
    <2>4. m \in 1 .. KeySize - 1 /\ m \in Nat /\ 2 * m <= Len(keystr) /\ Even = 2 * m
          /\ PartKeyLen(keystr) = m
      <3>1. m \in Nat /\ 2 * m <= Len(keystr)
        BY <2>3
      <3>2. Even = 2 * m
        BY DEF Even
      <3>3. 2 * m \in 2 .. 2 * (KeySize - 1)
        BY <1>3, <2>2, <3>2 DEF CanMatch
      <3>4. PartKeyLen(keystr) = m % LenMod
        BY DEF PartKeyLen
      <3> HIDE DEF m
      <3>5. m \in 1 .. KeySize - 1
        BY <2>3, <3>1, <3>3
      <3>6. m % LenMod = m
        BY <2>3, <3>5
      <3> QED
        BY <3>1, <3>2, <3>4, <3>5, <3>6
    <2>5. Matching(x) = BsearchPkr(lokey, hikey, x.keys, base, n)
      BY <2>4 DEF Matching, KeyMatch
    <2>6. /\ lokey \in Int /\ hikey \in Int /\ lokey < hikey
          /\ \A y \in Keys : Within(lokey, hikey, y) <=> BeginsWith(y, keystr, 2 * m)
      <3> HIDE DEF m
      <3> QED
        BY <2>1, <2>4, WithinPrefix
    <2>7. /\ base \in Nat /\ n \in Nat /\ base + n <= x.count
          /\ \A l \in 0 .. x.count - 1 : FirstByte(x.keys[l]) = c => l \in base .. base + n - 1
      <3>1. c \in 0 .. Bytes - 1
        BY <2>1, KeyByteType
      <3> QED
        BY <3>1, Bucket
    <2>8. ASSUME NEW p \in 0 .. x.count
          PROVE  Begins(x, p) <=> BeginsWith(x.keys[p], keystr, 2 * m)
      <3>1. Begins(x, p) <=> SubSeq(KeyHex(x.keys[p]), 1, Even) = SubSeq(keystr, 1, Even)
        BY <1>3 DEF Begins
      <3>2. 2 * m \in Nat /\ 2 * m <= 2 * KeySize
        BY <2>3, <2>4
      <3> HIDE DEF m
      <3> QED
        BY <1>1, <2>1, <2>4, <3>1, <3>2, SameDigits
    <2>9. ASSUME NEW j \in 0 .. x.count - 1, BeginsWith(x.keys[j], keystr, 2 * m)
          PROVE  j \in base .. base + n - 1
      <3>1. 2 * m \in Nat /\ 2 * m >= 2
        BY <2>4
      <3>2. FirstByte(x.keys[j]) = c
        BY <1>1, <2>1, <2>9, <3>1, FirstByteAgrees
      <3> QED
        BY <2>7, <3>2
    <2> HIDE DEF m, c, base, n, lokey, hikey
    <2>10. \A p, q \in base .. base + n - 1 :
              x.keys[p] \in Int /\ (p < q => x.keys[p] < x.keys[q])
      <3>1. ASSUME NEW p \in base .. base + n - 1 PROVE p \in 0 .. x.count - 1 /\ x.keys[p] \in Int
        <4>1. p \in 0 .. x.count - 1
          BY <1>1, <2>7
        <4> QED
          BY <1>1, <4>1, FirstByteType
      <3> QED
        BY <3>1 DEF IsIndex
    <2> DEFINE r == BsearchPkr(lokey, hikey, x.keys, base, n)
    <2>11. /\ \A p \in r.lo .. r.hi : p \in base .. base + n /\ Within(lokey, hikey, x.keys[p])
           /\ \A p \in base .. base + n - 1 : Within(lokey, hikey, x.keys[p]) => p \in r.lo .. r.hi
      BY <2>6, <2>7, <2>10, PkrIsExact
    <2>12. Matching(x) = r
      BY <2>5
    <2> HIDE DEF r
    <2>13. \A p \in 0 .. x.count :
              Within(lokey, hikey, x.keys[p]) <=> BeginsWith(x.keys[p], keystr, 2 * m)
      BY <1>1, <2>6
    <2>14. ASSUME NEW j \in Wanted(x) PROVE j \in r.lo .. r.hi
      <3>1. j \in 0 .. x.count - 1 /\ j \in 0 .. x.count /\ Begins(x, j)
        BY <1>1 DEF Wanted
      <3> QED
        BY <2>8, <2>9, <2>11, <2>13, <3>1
    <2>15. ASSUME NEW p \in r.lo .. r.hi, p <= x.count PROVE Begins(x, p)
      <3>1. p \in base .. base + n /\ Within(lokey, hikey, x.keys[p])
        BY <2>11
      <3>2. p \in 0 .. x.count
        BY <1>1, <2>7, <2>15, <3>1
      <3> QED
        BY <2>8, <2>13, <3>1, <3>2
    <2> QED
      BY <2>12, <2>14, <2>15
  <1> QED
    BY <1>2, <1>3
----------------------------------------------------------------------------
(* The places of x that a row can be for: a key, or what bsearchpkr()      *)
(* finds right after the last one.                                         *)
CanShow(x, p) == p < x.count \/ (p = x.count /\ keystr # NoKeyStr)

(* The n rows of x from the place lo on. *)
AreRows(rows, x, lo, n) ==
    /\ rows \in Seq([1 .. 2 * KeySize -> 0 .. Hex - 1] \X Nat) /\ Len(rows) = n
    /\ \A m \in 1 .. n : /\ rows[m] = <<KeyHex(x.keys[lo + m - 1]), lo + m - 1>>
                         /\ CanShow(x, lo + m - 1)

(* What is shown of the section s are the rows that were asked for, up to  *)
(* before the place to.                                                    *)
ShownUpTo(s, to) ==
    LET x == object.secs[s]
        lo == Asked(x).lo
    IN  AreRows(shown[s], x, lo, to - lo)

(* Each name is listed once the loop over the table ends, and that loop    *)
(* runs only if names are to be shown.                                     *)
NamesProgress ==
    /\ loop = "names" => "names" \in show /\ NamesUpTo
    /\ "names" \notin show => names = {}
    /\ "names" \in show /\ loop # "names" => names = NamesOfTable

(* The indexes before the section i are shown to the end, those after it   *)
(* not at all, and that of i up to before k.                               *)
IndexProgress(s) ==
    LET x == object.secs[s] IN
    \E to \in Asked(x).lo .. Asked(x).hi + 1 :
       /\ ShownUpTo(s, to)
       /\ s < i => to = Asked(x).hi + 1
       /\ s = i /\ loop = "keys" => to = k
       /\ s > i \/ (s = i /\ loop \notin {"keys", "died"}) => to = Asked(x).lo

DinoinfoInv ==
    /\ object \in Objects /\ ParseOpt
    /\ DinoinfoTypeOK
    /\ NamesProgress
    /\ loop = "keys" =>
          /\ i \in DOMAIN object.secs /\ object.secs[i].type = "index"
          /\ hi = Asked(object.secs[i]).hi
    /\ \A s \in DOMAIN object.secs : object.secs[s].type = "index" => IndexProgress(s)
----------------------------------------------------------------------------
(* The rows of an index that are there, and one more.                      *)
LEMMA NextRow ==
    ASSUME NEW x, IsIndex(x), NEW rows, NEW lo \in Nat, NEW n \in Nat, AreRows(rows, x, lo, n),
           CanShow(x, lo + n)
    PROVE  AreRows(Append(rows, <<KeyHex(x.keys[lo + n]), lo + n>>), x, lo, n + 1)
  <1> DEFINE S == [1 .. 2 * KeySize -> 0 .. Hex - 1] \X Nat
             row == <<KeyHex(x.keys[lo + n]), lo + n>>
             more == Append(rows, row)
  <1>1. row \in S
    <2>1. x.count \in 0 .. CntMod - 1 /\ CntMod \in Nat /\ lo + n \in Nat
      BY Digits DEF IsIndex
    <2>2. lo + n \in 0 .. x.count
      BY <2>1 DEF CanShow
    <2>3. x.keys[lo + n] \in Keys
      BY <2>2 DEF IsIndex
    <2>4. KeyHex(x.keys[lo + n]) \in [1 .. 2 * KeySize -> 0 .. Hex - 1]
      <3> DEFINE hex == KeyHex(x.keys[lo + n])
      <3>1. \A d \in 1 .. 2 * KeySize : hex[d] \in 0 .. Hex - 1
        BY <2>3, LeadingRecurs
      <3>2. hex = [d \in 1 .. 2 * KeySize |-> hex[d]]
        BY DEF KeyHex
      <3> HIDE DEF hex
      <3>3. hex \in [1 .. 2 * KeySize -> 0 .. Hex - 1]
        BY <3>1, <3>2
      <3> QED
        BY <3>3 DEF hex
    <2> QED
      BY <2>1, <2>4
  <1>2. rows \in Seq(S) /\ Len(rows) = n
        /\ \A m \in 1 .. n : /\ rows[m] = <<KeyHex(x.keys[lo + m - 1]), lo + m - 1>>
                              /\ CanShow(x, lo + m - 1)
    BY DEF AreRows
  <1> HIDE DEF S, row
  <1>3. /\ more \in Seq(S) /\ Len(more) = n + 1
        /\ \A m \in 1 .. n : more[m] = rows[m]
        /\ more[n + 1] = row
    BY <1>1, <1>2, AppendProperties
  <1>4. lo + (n + 1) - 1 = lo + n
    OBVIOUS
  <1>5. /\ more[n + 1] = <<KeyHex(x.keys[lo + (n + 1) - 1]), lo + (n + 1) - 1>>
        /\ CanShow(x, lo + (n + 1) - 1)
    BY <1>3, <1>4 DEF row
  <1> HIDE DEF more
  <1>6. ASSUME NEW m \in 1 .. n + 1
        PROVE  /\ more[m] = <<KeyHex(x.keys[lo + m - 1]), lo + m - 1>>
               /\ CanShow(x, lo + m - 1)
    <2>1. m = n + 1 \/ m \in 1 .. n
      OBVIOUS
    <2> QED
      BY <1>2, <1>3, <1>5, <2>1
  <1>7. AreRows(more, x, lo, n + 1)
    BY <1>3, <1>6 DEF AreRows, S
  <1> QED
    BY <1>7 DEF more, row

(* The range asked for is the same as long as the object and -k are.       *)
LEMMA SameRange ==
    ASSUME UNCHANGED <<object, keystr>>, NEW s
    PROVE  /\ Asked(object.secs[s])' = Asked(object.secs[s])
           /\ shown'[s] = shown[s] => \A to : ShownUpTo(s, to)' <=> ShownUpTo(s, to)
  <1>1. object'.secs[s] = object.secs[s] /\ keystr' = keystr
    OBVIOUS
  <1>2. Asked(object.secs[s])' = Asked(object.secs[s])
    BY <1>1 DEF Asked, Matching
  <1>3. ASSUME shown'[s] = shown[s], NEW to PROVE ShownUpTo(s, to)' <=> ShownUpTo(s, to)
    BY <1>1, <1>2, <1>3 DEF ShownUpTo, AreRows, CanShow
  <1> QED
    BY <1>2, <1>3

(* Steps that show no key keep what is known of the indexes, if the next   *)
(* is begun only where the one before has ended.                           *)
LEMMA SameProgress ==
    ASSUME UNCHANGED <<object, keystr, i, shown>>, loop \notin {"keys", "died"}, loop' # "keys",
           NEW s, IndexProgress(s)
    PROVE  IndexProgress(s)'
  <1> DEFINE r == Asked(object.secs[s])
  <1>1. r' = r /\ i' = i /\ shown'[s] = shown[s]
    BY SameRange
  <1>2. PICK to \in r.lo .. r.hi + 1 :
           /\ ShownUpTo(s, to)
           /\ s < i => to = r.hi + 1
           /\ s > i \/ s = i => to = r.lo
    BY DEF IndexProgress
  <1>3. ShownUpTo(s, to)'
    BY <1>1, <1>2, SameRange
  <1> HIDE DEF r
  <1>4. \E p \in r'.lo .. r'.hi + 1 :
           /\ ShownUpTo(s, p)'
           /\ s < i' => p = r'.hi + 1
           /\ s = i' /\ loop' = "keys" => p = k'
           /\ s > i' \/ (s = i' /\ loop' \notin {"keys", "died"}) => p = r'.lo
    BY <1>1, <1>2, <1>3
  <1> QED
    BY <1>4 DEF IndexProgress, r

(* No name is listed by the other loops.                                   *)
LEMMA SameNames ==
    ASSUME UNCHANGED <<object, show, names>>, loop # "names", loop' # "names", NamesProgress
    PROVE  NamesProgress'
  <1>1. NamesOfTable' = NamesOfTable
    BY DEF NamesOfTable, Starts, Ends
  <1> QED
    BY <1>1 DEF NamesProgress
----------------------------------------------------------------------------
(* dinoinfo begins with no name listed and no key shown.                   *)
LEMMA DinoinfoInvInit ==
    ASSUME DinoinfoInit
    PROVE  DinoinfoInv
  <1>1. object \in Objects /\ ParseOpt /\ off = 0 /\ names = {} /\ i = 1 /\ k = 0 /\ hi = 0
        /\ loop = (IF "names" \in show THEN "names" ELSE "load")
        /\ shown = [s \in DOMAIN object.secs |-> << >>]
    BY DEF DinoinfoInit
  <1>2. DinoinfoTypeOK
    <2>1. Len(object.secs) \in Nat /\ OffMod \in Nat \ {0}
      BY <1>1, ObjectParts, Digits
    <2> QED
      BY <1>1, <2>1 DEF DinoinfoTypeOK
  <1>3. NamesProgress
    <2>1. object.size \in Nat
      BY <1>1, ObjectParts
    <2>2. off < object.size => off \in Starts
      BY <1>1, <2>1 DEF Starts
    <2>3. \A n \in NamesOfTable : n[1] \in Nat
      <3>1. \A n \in NamesOfTable : n \in Starts \X Ends
        BY DEF NamesOfTable
      <3>2. \A a \in Starts : a \in Nat
        BY <2>1 DEF Starts
      <3> QED
        BY <3>1, <3>2
    <2>4. NamesUpTo
      BY <1>1, <2>2, <2>3 DEF NamesUpTo
    <2> QED
      BY <1>1, <2>4 DEF NamesProgress
  <1>4. ASSUME NEW s \in DOMAIN object.secs, object.secs[s].type = "index" PROVE IndexProgress(s)
    <2> DEFINE x == object.secs[s]
               r == Asked(x)
    <2>1. IsIndex(x)
      BY <1>1, <1>4, ObjectParts
    <2>2. r.lo \in Nat /\ r.hi \in Nat /\ r.lo <= r.hi + 1
      BY <1>1, <2>1, AskedIsWanted DEF ParseOpt
    <2>3. s >= i /\ ~(s < i)
      <3>1. s \in 1 .. Len(object.secs) /\ Len(object.secs) \in Nat
        BY <1>1, <1>4, ObjectParts
      <3> QED
        BY <1>1, <3>1
    <2>4. AreRows(shown[s], x, r.lo, 0)
      <3>1. shown[s] = << >>
        BY <1>1, <1>4
      <3>2. \A S : << >> \in Seq(S) /\ Len(<< >>) = 0
        BY EmptySeq
      <3> QED
        BY <3>1, <3>2 DEF AreRows
    <2> HIDE DEF r
    <2>5. ShownUpTo(s, r.lo)
      <3>1. r.lo - r.lo = 0
        BY <2>2
      <3> QED
        BY <2>4, <3>1 DEF ShownUpTo, r
    <2>6. r.lo \in r.lo .. r.hi + 1 /\ loop # "keys"
      BY <1>1, <2>2
    <2> QED
      BY <2>3, <2>5, <2>6 DEF IndexProgress, r
  <1> QED
    BY <1>1, <1>2, <1>3, <1>4 DEF DinoinfoInv

(* What the steps need of the invariant, besides its parts. *)
LEMMA DinoinfoParts ==
    ASSUME DinoinfoInv
    PROVE  /\ object.size \in Nat /\ off \in Nat /\ off \in 0 .. OffMod - 1
           /\ Len(object.secs) \in Nat /\ DOMAIN object.secs = 1 .. Len(object.secs)
           /\ i \in Nat /\ i \in 1 .. Len(object.secs) + 1 /\ k \in Nat /\ hi \in Nat
           /\ \A s \in DOMAIN object.secs : object.secs[s].type = "index" =>
                LET r == Asked(object.secs[s]) IN
                /\ IsIndex(object.secs[s])
                /\ r.lo \in Nat /\ r.hi \in Nat /\ r.lo <= r.hi + 1
  <1>1. object \in Objects /\ DinoinfoTypeOK /\ keystr \in KeyStrs \cup {NoKeyStr}
    BY DEF DinoinfoInv, ParseOpt
  <1>2. /\ object.size \in Nat
        /\ Len(object.secs) \in Nat /\ DOMAIN object.secs = 1 .. Len(object.secs)
        /\ \A s \in DOMAIN object.secs :
              object.secs[s].type = "index" => IsIndex(object.secs[s])
    BY <1>1, ObjectParts
  <1>3. OffMod \in Nat \ {0} /\ off \in 0 .. OffMod - 1
        /\ i \in 1 .. Len(object.secs) + 1 /\ k \in Nat /\ hi \in Nat
    BY <1>1, Digits DEF DinoinfoTypeOK
  <1>4. off \in Nat /\ i \in Nat
    BY <1>2, <1>3
  <1>5. ASSUME NEW s \in DOMAIN object.secs, object.secs[s].type = "index"
        PROVE  LET r == Asked(object.secs[s]) IN
               r.lo \in Nat /\ r.hi \in Nat /\ r.lo <= r.hi + 1
    BY <1>1, <1>2, <1>5, AskedIsWanted
  <1> QED
    BY <1>2, <1>3, <1>4, <1>5

(* The loop over the names, and load_indexes().                            *)
LEMMA NamesSteps ==
    ASSUME DinoinfoInv, PrintName \/ NamesEnd \/ LoadIndexes
    PROVE  DinoinfoInv'
  <1>1. /\ UNCHANGED <<object, show, keystr, i, k, hi, shown>>
        /\ loop \in {"names", "load"} /\ loop' \in {"names", "load", "sections", "done", "error"}
        /\ loop' = "names" => loop = "names"
    BY DEF PrintName, NamesEnd, LoadIndexes
  <1>2. object' \in Objects /\ ParseOpt'
    BY <1>1 DEF DinoinfoInv, ParseOpt
  <1>3. NamesProgress' /\ off' \in 0 .. OffMod - 1
    <2>1. object \in Objects /\ NamesProgress /\ off \in Nat /\ off \in 0 .. OffMod - 1
      BY DinoinfoParts DEF DinoinfoInv
    <2>2. NamesOfTable' = NamesOfTable
      BY <1>1 DEF NamesOfTable, Starts, Ends
    <2>3. CASE PrintName
      <3>1. loop = "names" /\ loop' = loop /\ "names" \in show /\ NamesUpTo
        BY <2>1, <2>3 DEF PrintName, NamesProgress
      <3>2. NamesUpTo' /\ off' \in 0 .. OffMod - 1
        BY <2>1, <2>3, <3>1, NextNameListed
      <3> QED
        BY <1>1, <3>1, <3>2 DEF NamesProgress
    <2>4. CASE NamesEnd
      <3>1. loop = "names" /\ loop' = "load" /\ off >= object.size /\ UNCHANGED <<off, names>>
        BY <2>4 DEF NamesEnd
      <3>2. names = NamesOfTable /\ "names" \in show
        BY <2>1, <3>1, AllNamesListed DEF NamesProgress
      <3> QED
        BY <1>1, <2>1, <2>2, <3>1, <3>2 DEF NamesProgress
    <2>5. CASE LoadIndexes
      <3>1. loop = "load" /\ loop' # "names" /\ UNCHANGED <<off, names>>
        BY <2>5 DEF LoadIndexes
      <3> QED
        BY <1>1, <2>1, <3>1, SameNames
    <2> QED
      BY <2>3, <2>4, <2>5
  <1>4. DinoinfoTypeOK'
    BY <1>1, <1>3 DEF DinoinfoInv, DinoinfoTypeOK
  <1>5. ASSUME NEW s \in DOMAIN object'.secs, object'.secs[s].type = "index"
        PROVE  IndexProgress(s)'
    <2>1. IndexProgress(s)
      BY <1>1, <1>5 DEF DinoinfoInv
    <2>2. loop \notin {"keys", "died"} /\ loop' # "keys"
      BY <1>1
    <2> QED
      BY <1>1, <2>1, <2>2, SameProgress
  <1>6. loop' # "keys"
    BY <1>1
  <1> QED
    BY <1>2, <1>3, <1>4, <1>5, <1>6 DEF DinoinfoInv

(* Steps of the loop over the sections that show no key.                   *)
LEMMA SectionSteps ==
    ASSUME DinoinfoInv, NEW s \in DOMAIN object.secs, SkipSection(s) \/ ShowIndex(s)
    PROVE  DinoinfoInv'
  <1>1. /\ UNCHANGED <<object, show, keystr, off, names, shown>>
        /\ loop = "sections" /\ loop' \in {"sections", "keys", "died"} /\ i = s
    BY DEF SkipSection, ShowIndex, InSection, Die, ShowKeys
  <1>2. /\ Len(object.secs) \in Nat /\ s \in 1 .. Len(object.secs) /\ s \in Nat
        /\ k \in Nat /\ hi \in Nat /\ i \in 1 .. Len(object.secs) + 1
        /\ \A t \in DOMAIN object.secs : t \in Nat
    BY DinoinfoParts
  <1>3. object' \in Objects /\ ParseOpt'
    BY <1>1 DEF DinoinfoInv, ParseOpt
  <1>4. NamesProgress'
    <2>1. NamesProgress
      BY DEF DinoinfoInv
    <2> QED
      BY <1>1, <2>1, SameNames
  <1>5. ASSUME i' \in 1 .. Len(object.secs) + 1, k' \in Nat, hi' \in Nat
        PROVE  DinoinfoTypeOK'
    BY <1>1, <1>5 DEF DinoinfoInv, DinoinfoTypeOK
  <1>6. CASE SkipSection(s)
    <2>1. i' = s + 1 /\ loop' = "sections" /\ k' = k /\ hi' = hi /\ object.secs[s].type # "index"
      BY <1>1, <1>6 DEF SkipSection
    <2>2. DinoinfoTypeOK'
      BY <1>2, <1>5, <2>1
    <2>3. ASSUME NEW t \in DOMAIN object'.secs, object'.secs[t].type = "index"
          PROVE  IndexProgress(t)'
      <3> DEFINE r == Asked(object.secs[t])
      <3>1. t \in DOMAIN object.secs /\ object.secs[t].type = "index" /\ t # s /\ t \in Nat
        BY <1>1, <1>2, <2>1, <2>3
      <3>2. IndexProgress(t)
        BY <3>1 DEF DinoinfoInv
      <3>3. PICK to \in r.lo .. r.hi + 1 :
               /\ ShownUpTo(t, to)
               /\ t < s => to = r.hi + 1
               /\ t > s => to = r.lo
        BY <1>1, <3>2 DEF IndexProgress
      <3>4. r' = r /\ ShownUpTo(t, to)'
        BY <1>1, <3>3, SameRange
      <3> HIDE DEF r
      <3>5. /\ t < i' => to = r.hi + 1
            /\ t > i' \/ (t = i' /\ loop' \notin {"keys", "died"}) => to = r.lo
        BY <1>2, <2>1, <3>1, <3>3
      <3>6. \E p \in r'.lo .. r'.hi + 1 :
               /\ ShownUpTo(t, p)'
               /\ t < i' => p = r'.hi + 1
               /\ t = i' /\ loop' = "keys" => p = k'
               /\ t > i' \/ (t = i' /\ loop' \notin {"keys", "died"}) => p = r'.lo
        BY <2>1, <3>3, <3>4, <3>5
      <3> QED
        BY <3>6 DEF IndexProgress, r
    <2> QED
      BY <1>3, <1>4, <2>1, <2>2, <2>3 DEF DinoinfoInv
  <1>7. CASE ShowIndex(s) /\ loop' # "keys"
    <2>1. UNCHANGED <<i, k, hi>>
      BY <1>7 DEF ShowIndex, Die, ShowKeys
    <2>2. DinoinfoTypeOK'
      BY <1>2, <1>5, <2>1
    <2>3. ASSUME NEW t \in DOMAIN object'.secs, object'.secs[t].type = "index"
          PROVE  IndexProgress(t)'
      <3>1. IndexProgress(t)
        BY <1>1, <2>3 DEF DinoinfoInv
      <3>2. loop \notin {"keys", "died"}
        BY <1>1
      <3> QED
        BY <1>1, <1>7, <2>1, <3>1, <3>2, SameProgress
    <2> QED
      BY <1>3, <1>4, <1>7, <2>2, <2>3 DEF DinoinfoInv
  <1>8. CASE ShowIndex(s) /\ loop' = "keys"
    <2> DEFINE a == Asked(object.secs[s])
    <2>1. i' = i /\ object.secs[s].type = "index" /\ k' = a.lo /\ hi' = a.hi
      BY <1>8 DEF ShowIndex, Die, ShowKeys, Asked
    <2>2. a.lo \in Nat /\ a.hi \in Nat
      BY <2>1, DinoinfoParts
    <2>3. DinoinfoTypeOK'
      <3> HIDE DEF a
      <3> QED
        BY <1>2, <1>5, <2>1, <2>2
    <2>4. a' = a
      BY <1>1, SameRange
    <2>5. ASSUME NEW t \in DOMAIN object'.secs, object'.secs[t].type = "index"
          PROVE  IndexProgress(t)'
      <3> DEFINE r == Asked(object.secs[t])
      <3>1. IndexProgress(t)
        BY <1>1, <2>5 DEF DinoinfoInv
      <3>2. PICK to \in r.lo .. r.hi + 1 :
               /\ ShownUpTo(t, to)
               /\ t < s => to = r.hi + 1
               /\ t > s \/ t = s => to = r.lo
        BY <1>1, <3>1 DEF IndexProgress
      <3>3. r' = r /\ ShownUpTo(t, to)'
        BY <1>1, <3>2, SameRange
      <3>4. t = s => r = a
        OBVIOUS
      <3> HIDE DEF r, a
      <3>5. \E p \in r'.lo .. r'.hi + 1 :
               /\ ShownUpTo(t, p)'
               /\ t < i' => p = r'.hi + 1
               /\ t = i' /\ loop' = "keys" => p = k'
               /\ t > i' \/ (t = i' /\ loop' \notin {"keys", "died"}) => p = r'.lo
        BY <1>1, <1>8, <2>1, <3>2, <3>3, <3>4
      <3> QED
        BY <3>5 DEF IndexProgress, r
    <2>6. i' \in DOMAIN object'.secs /\ object'.secs[i'].type = "index"
      BY <1>1, <2>1
    <2>7. Asked(object.secs[i])' = a
      <3>1. object'.secs[i'] = object.secs[s] /\ keystr' = keystr
        BY <1>1, <2>1
      <3> QED
        BY <3>1 DEF Asked, Matching
    <2> QED
      BY <1>3, <1>4, <2>1, <2>3, <2>5, <2>6, <2>7 DEF DinoinfoInv
  <1> QED
    BY <1>6, <1>7, <1>8

(* In the loop over the keys of an index they are shown up to before k.    *)
LEMMA KeysLoop ==
    ASSUME DinoinfoInv, loop = "keys"
    PROVE  LET x == object.secs[i]
               r == Asked(x)
           IN  /\ i \in DOMAIN object.secs /\ x.type = "index" /\ IsIndex(x)
               /\ r.lo \in Nat /\ r.hi \in Nat /\ r.hi = hi
               /\ k \in Nat /\ r.lo <= k /\ k <= hi + 1
               /\ ShownUpTo(i, k)
  <1> DEFINE x == object.secs[i]
             r == Asked(x)
  <1>1. i \in DOMAIN object.secs /\ x.type = "index" /\ r.hi = hi /\ IndexProgress(i)
    BY DEF DinoinfoInv
  <1>2. IsIndex(x) /\ r.lo \in Nat /\ r.hi \in Nat /\ k \in Nat
    BY <1>1, DinoinfoParts
  <1>3. k \in r.lo .. r.hi + 1 /\ ShownUpTo(i, k)
    <2>1. PICK to \in r.lo .. r.hi + 1 : ShownUpTo(i, to) /\ to = k
      BY <1>1 DEF IndexProgress
    <2> QED
      BY <2>1
  <1> HIDE DEF r
  <1>4. r.lo <= k /\ k <= hi + 1
    BY <1>1, <1>2, <1>3
  <1> QED
    BY <1>1, <1>2, <1>3, <1>4 DEF r

(* The keys of the other indexes are not touched meanwhile.                *)
LEMMA OtherIndexes ==
    ASSUME DinoinfoInv, loop = "keys", UNCHANGED <<object, keystr>>, NEW s \in DOMAIN object.secs,
           object.secs[s].type = "index", s # i, shown'[s] = shown[s],
           i' = i \/ (i' = i + 1 /\ loop' \notin {"keys", "died"})
    PROVE  IndexProgress(s)'
  <1> DEFINE r == Asked(object.secs[s])
  <1>1. s \in Nat /\ i \in Nat
    BY DinoinfoParts
  <1>2. IndexProgress(s)
    BY DEF DinoinfoInv
  <1>3. PICK to \in r.lo .. r.hi + 1 :
           /\ ShownUpTo(s, to)
           /\ s < i => to = r.hi + 1
           /\ s > i => to = r.lo
    BY <1>2 DEF IndexProgress
  <1>4. r' = r /\ ShownUpTo(s, to)'
    BY <1>3, SameRange
  <1> HIDE DEF r
  <1>5. \E p \in r'.lo .. r'.hi + 1 :
           /\ ShownUpTo(s, p)'
           /\ s < i' => p = r'.hi + 1
           /\ s = i' /\ loop' = "keys" => p = k'
           /\ s > i' \/ (s = i' /\ loop' \notin {"keys", "died"}) => p = r'.lo
    BY <1>1, <1>3, <1>4
  <1> QED
    BY <1>5 DEF IndexProgress, r

(* The loop over the keys: one is shown, or what is after them, or there   *)
(* is no more.                                                             *)
LEMMA KeySteps ==
    ASSUME DinoinfoInv, ShowKey \/ ShowStray \/ KeysEnd
    PROVE  DinoinfoInv'
  <1>1. /\ UNCHANGED <<object, show, keystr, off, names>>
        /\ loop = "keys" /\ loop' \in {"keys", "died", "sections"} /\ hi' = hi
        /\ i' = (IF loop' = "sections" THEN i + 1 ELSE i)
        /\ k' = k \/ k' = k + 1
    BY DEF ShowKey, ShowStray, ShowRow, KeysEnd, Die
  <1>2. /\ Len(object.secs) \in Nat /\ DOMAIN object.secs = 1 .. Len(object.secs)
        /\ i \in Nat /\ k \in Nat /\ hi \in Nat
    BY DinoinfoParts
  <1>3. PICK s \in DOMAIN object.secs : s = i
    BY <1>1, KeysLoop
  <1> DEFINE x == object.secs[s]
             r == Asked(x)
             rows == shown[s]
  <1>4. /\ x.type = "index" /\ IsIndex(x)
        /\ r.lo \in Nat /\ r.hi \in Nat /\ r.hi = hi
        /\ r.lo <= k /\ k <= hi + 1
        /\ ShownUpTo(s, k)
    BY <1>1, <1>3, KeysLoop
  <1>5. object' \in Objects /\ ParseOpt'
    BY <1>1 DEF DinoinfoInv, ParseOpt
  <1>6. NamesProgress'
    <2>1. NamesProgress
      BY DEF DinoinfoInv
    <2> QED
      BY <1>1, <2>1, SameNames
  <1>7. /\ DOMAIN shown' = DOMAIN object.secs
        /\ \A t \in DOMAIN object.secs : t # s => shown'[t] = shown[t]
    <2>1. DOMAIN shown = DOMAIN object.secs
      BY DEF DinoinfoInv, DinoinfoTypeOK
    <2>2. shown' = shown \/ \E row : shown' = [shown EXCEPT ![s] = row]
      BY <1>3 DEF ShowKey, ShowStray, ShowRow, KeysEnd, Die
    <2>3. CASE shown' = shown
      BY <2>1, <2>3
    <2>4. CASE \E row : shown' = [shown EXCEPT ![s] = row]
      <3>1. PICK row : shown' = [shown EXCEPT ![s] = row]
        BY <2>4
      <3>2. DOMAIN shown' = DOMAIN shown /\ \A t \in DOMAIN shown : t # s => shown'[t] = shown[t]
        BY <3>1
      <3> QED
        BY <2>1, <3>2
    <2> QED
      BY <2>2, <2>3, <2>4
  <1>8. DinoinfoTypeOK'
    <2>1. i' \in 1 .. Len(object.secs) + 1 /\ k' \in Nat /\ hi' \in Nat
      BY <1>1, <1>2, <1>3
    <2> QED
      BY <1>1, <1>7, <2>1 DEF DinoinfoInv, DinoinfoTypeOK
  <1>9. r' = r
    BY <1>1, SameRange
  <1>10. /\ AreRows(rows, x, r.lo, k - r.lo) /\ x.count \in Nat
         /\ keystr = NoKeyStr /\ x.count > 0 => r.hi < x.count
    <2>1. x.count \in 0 .. CntMod - 1 /\ CntMod \in Nat
      BY <1>4, Digits DEF IsIndex
    <2>2. keystr \in KeyStrs \cup {NoKeyStr}
      BY DEF DinoinfoInv, ParseOpt
    <2>3. AreRows(rows, x, r.lo, k - r.lo)
      BY <1>4 DEF ShownUpTo
    <2>4. keystr = NoKeyStr /\ x.count > 0 => r.hi < x.count
      BY <1>4, <2>2, AskedIsWanted
    <2>5. x.count \in Nat
      BY <2>1
    <2> QED
      BY <2>3, <2>4, <2>5
  <1>11. AreRows(shown'[s], x, r.lo, k' - r.lo)
    <2>1. CASE shown' = shown /\ k' = k
      BY <1>10, <2>1
    <2>2. CASE ~(shown' = shown /\ k' = k)
      <3>1. ShowRow /\ k <= hi /\ (k < x.count \/ (k = x.count /\ k > 0))
        BY <1>3, <2>2 DEF ShowKey, ShowStray, KeysEnd, Die
      <3>2. k' = k + 1 /\ shown' = [shown EXCEPT ![s] = Append(rows, <<KeyHex(x.keys[k]), k>>)]
        BY <1>3, <3>1 DEF ShowRow
      <3>3. shown'[s] = Append(rows, <<KeyHex(x.keys[k]), k>>)
        <4>1. s \in DOMAIN shown
          BY DEF DinoinfoInv, DinoinfoTypeOK
        <4> QED
          BY <3>2, <4>1
      <3> DEFINE lo == r.lo
                 n == k - lo
      <3>4. lo \in Nat /\ n \in Nat /\ lo + n = k /\ n + 1 = (k + 1) - lo
        <4> HIDE DEF r
        <4> QED
          BY <1>2, <1>4
      <3>5. CanShow(x, k)
        <4> HIDE DEF lo, n, r
        <4> QED
          BY <1>2, <1>4, <1>10, <3>1 DEF CanShow
      <3>6. AreRows(rows, x, lo, n)
        BY <1>10
      <3> HIDE DEF lo, n, r
      <3>7. AreRows(Append(rows, <<KeyHex(x.keys[lo + n]), lo + n>>), x, lo, n + 1)
        BY <1>4, <3>4, <3>5, <3>6, NextRow
      <3>8. AreRows(shown'[s], x, lo, k' - lo)
        BY <3>2, <3>3, <3>4, <3>7
      <3> QED
        BY <3>8 DEF lo
    <2> QED
      BY <2>1, <2>2
  <1>12. PICK next \in Nat : next = k'
    BY <1>1, <1>2
  <1>13. ShownUpTo(s, next)'
    <2>1. AreRows(shown'[s], x, r.lo, next - r.lo)
      BY <1>11, <1>12
    <2> HIDE DEF r
    <2>2. x' = x /\ keystr' = keystr
      BY <1>1
    <2> HIDE DEF x
    <2>3. AreRows(shown[s], x, r.lo, next - r.lo)'
      BY <1>9, <2>1, <2>2 DEF AreRows, CanShow
    <2> QED
      BY <2>3 DEF ShownUpTo, r, x
  <1>14. /\ k' \in r.lo .. r.hi + 1
         /\ loop' = "sections" => k' = r.hi + 1
    <2>1. (k' = k + 1 /\ k <= hi) \/ (k' = k /\ loop' = "died") \/ (k' = k /\ k > hi)
      BY DEF ShowKey, ShowStray, ShowRow, KeysEnd, Die
    <2>2. loop' = "sections" => k' = k /\ k > hi
      BY <1>1 DEF ShowKey, ShowStray, ShowRow, KeysEnd, Die
    <2> HIDE DEF r
    <2> QED
      BY <1>1, <1>2, <1>4, <2>1, <2>2
  <1>15. IndexProgress(s)'
    <2> HIDE DEF r
    <2>1. i' = s \/ (loop' = "sections" /\ i' = s + 1)
      BY <1>1, <1>3
    <2>2. \E p \in r'.lo .. r'.hi + 1 :
             /\ ShownUpTo(s, p)'
             /\ s < i' => p = r'.hi + 1
             /\ s = i' /\ loop' = "keys" => p = k'
             /\ s > i' \/ (s = i' /\ loop' \notin {"keys", "died"}) => p = r'.lo
      <3>1. next = k' /\ ShownUpTo(s, next)'
        BY <1>12, <1>13
      <3>2. s \in Nat /\ (s < i' => loop' = "sections") /\ ~(s > i')
            /\ (s = i' => loop' \in {"keys", "died"})
        BY <1>1, <1>2, <1>3, <2>1
      <3> QED
        BY <1>9, <1>14, <3>1, <3>2
    <2> QED
      BY <2>2 DEF IndexProgress, r
  <1>16. ASSUME NEW t \in DOMAIN object'.secs, object'.secs[t].type = "index"
         PROVE  IndexProgress(t)'
    <2>1. CASE t = s
      BY <1>15, <2>1
    <2>2. CASE t # s
      <3>1. t \in DOMAIN object.secs /\ object.secs[t].type = "index" /\ t # i
            /\ shown'[t] = shown[t] /\ UNCHANGED <<object, keystr>>
            /\ (i' = i \/ (i' = i + 1 /\ loop' \notin {"keys", "died"}))
        BY <1>1, <1>3, <1>7, <1>16, <2>2
      <3> QED
        BY <1>1, <3>1, OtherIndexes
    <2> QED
      BY <2>1, <2>2
  <1>17. ASSUME loop' = "keys"
         PROVE  /\ i' \in DOMAIN object'.secs /\ object'.secs[i'].type = "index"
                /\ hi' = Asked(object.secs[i])'.hi
    <2>1. i' = s /\ object'.secs[i'] = x /\ keystr' = keystr
      BY <1>1, <1>3, <1>17
    <2>2. Asked(object.secs[i])' = r
      BY <2>1 DEF Asked, Matching
    <2> QED
      BY <1>1, <1>4, <2>1, <2>2
  <1> QED
    BY <1>5, <1>6, <1>8, <1>16, <1>17 DEF DinoinfoInv
----------------------------------------------------------------------------
(* Every step keeps the invariant.                                         *)
LEMMA DinoinfoInvStep ==
    ASSUME DinoinfoInv, [DinoinfoNext]_dinoinfovars
    PROVE  DinoinfoInv'
  <1>1. CASE PrintName \/ NamesEnd \/ LoadIndexes
    BY <1>1, NamesSteps
  <1>2. CASE \E s \in DOMAIN object.secs : SkipSection(s) \/ ShowIndex(s)
    BY <1>2, SectionSteps
  <1>3. CASE ShowKey \/ ShowStray \/ KeysEnd
    BY <1>3, KeySteps
  <1>4. CASE SectionsEnd
    <2>1. /\ UNCHANGED <<object, show, keystr, off, names, i, k, hi, shown>>
          /\ loop = "sections" /\ loop' = "done"
      BY <1>4 DEF SectionsEnd
    <2>2. NamesProgress'
      BY <2>1, SameNames DEF DinoinfoInv
    <2>3. DinoinfoTypeOK'
      BY <2>1 DEF DinoinfoInv, DinoinfoTypeOK
    <2>4. ASSUME NEW s \in DOMAIN object'.secs, object'.secs[s].type = "index"
          PROVE  IndexProgress(s)'
      <3>1. IndexProgress(s)
        BY <2>1, <2>4 DEF DinoinfoInv
      <3>2. loop \notin {"keys", "died"} /\ loop' # "keys"
        BY <2>1
      <3> QED
        BY <2>1, <3>1, <3>2, SameProgress
    <2> QED
      BY <2>1, <2>2, <2>3, <2>4 DEF DinoinfoInv, ParseOpt
  <1>5. CASE UNCHANGED dinoinfovars
    <2>1. UNCHANGED <<object, show, keystr, loop, off, names, i, k, hi, shown>>
      BY <1>5 DEF dinoinfovars
    <2>2. NamesProgress'
      <3>1. NamesOfTable' = NamesOfTable /\ NamesUpTo' = NamesUpTo
        BY <2>1 DEF NamesOfTable, NamesUpTo, Starts, Ends
      <3> QED
        BY <2>1, <3>1 DEF DinoinfoInv, NamesProgress
    <2>3. DinoinfoTypeOK'
      BY <2>1 DEF DinoinfoInv, DinoinfoTypeOK
    <2>4. ASSUME NEW s PROVE IndexProgress(s)' = IndexProgress(s)
      BY <2>1 DEF IndexProgress, ShownUpTo, AreRows, CanShow, Asked, Matching
    <2>5. Asked(object.secs[i])' = Asked(object.secs[i])
      BY <2>1 DEF Asked, Matching
    <2> QED
      BY <2>1, <2>2, <2>3, <2>4, <2>5 DEF DinoinfoInv, ParseOpt
  <1> QED
    BY <1>1, <1>2, <1>3, <1>4, <1>5 DEF DinoinfoNext

(* The invariant holds of every behaviour. *)
LEMMA DinoinfoInvAlways == DinoinfoSpec => []DinoinfoInv
  <1>1. DinoinfoInit => DinoinfoInv
    BY DinoinfoInvInit
  <1>2. DinoinfoInv /\ [DinoinfoNext]_dinoinfovars => DinoinfoInv'
    BY DinoinfoInvStep
  <1> QED
    BY <1>1, <1>2, PTL DEF DinoinfoSpec

(* Whatever a table holds and wherever its offset wraps around, dinoinfo   *)
(* lists the names of it, all of them and nothing else.                    *)
THEOREM NamesAreTableAlways == DinoinfoSpec => []NamesAreTable
  <1>1. ASSUME DinoinfoInv PROVE NamesAreTable
    <2>1. DinoinfoTypeOK /\ NamesProgress
      BY <1>1 DEF DinoinfoInv
    <2>2. names \subseteq NamesOfTable
      BY <2>1 DEF NamesProgress, NamesUpTo
    <2> QED
      BY <2>1, <2>2 DEF NamesAreTable, NamesProgress
  <1> QED
    BY <1>1, DinoinfoInvAlways, PTL

(* Of every index, whatever is in it and after it and whichever digits are *)
(* given, the rows that are printed are in their order, each with its own  *)
(* place; they begin with the digits, and none is past the keys but the    *)
(* one that may be found right after them; and no key that begins with the *)
(* digits is left out.                                                     *)
THEOREM ShownIsMatchingAlways == DinoinfoSpec => []ShownIsMatching
  <1>1. ASSUME DinoinfoInv PROVE ShownIsMatching
    <2>1. SUFFICES
            ASSUME NEW s \in DOMAIN object.secs, object.secs[s].type = "index"
            PROVE  LET x == object.secs[s]
                       Place(m) == shown[s][m][2]
                   IN
                   /\ \A m \in DOMAIN shown[s] :
                         /\ shown[s][m][1] = KeyHex(x.keys[Place(m)])
                         /\ CanMatch => Begins(x, Place(m))
                         /\ Place(m) < x.count \/ (Place(m) = x.count /\ keystr # NoKeyStr)
                         /\ m > 1 => Place(m) > Place(m - 1)
                   /\ CanMatch /\ s < i =>
                         Wanted(x) \subseteq {Place(m) : m \in DOMAIN shown[s]}
      BY DEF ShownIsMatching
    <2> DEFINE x == object.secs[s]
               lo == Asked(x).lo
               top == Asked(x).hi
               rows == shown[s]
    <2>2. IsIndex(x) /\ x.count \in Nat
      <3>1. IsIndex(x)
        BY <1>1, <2>1, DinoinfoParts
      <3>2. x.count \in 0 .. CntMod - 1 /\ CntMod \in Nat
        BY <3>1, Digits DEF IsIndex
      <3> QED
        BY <3>1, <3>2
    <2>3. keystr \in KeyStrs \cup {NoKeyStr}
      BY <1>1 DEF DinoinfoInv, ParseOpt
    <2>4. /\ lo \in Nat /\ top \in Nat
          /\ CanMatch => /\ Wanted(x) \subseteq lo .. top
                         /\ \A p \in lo .. top : p <= x.count => Begins(x, p)
      BY <2>2, <2>3, AskedIsWanted
    <2>5. IndexProgress(s)
      BY <1>1, <2>1 DEF DinoinfoInv
    <2>6. PICK to \in lo .. top + 1 : ShownUpTo(s, to) /\ (s < i => to = top + 1)
      BY <2>5 DEF IndexProgress
    <2> DEFINE n == to - lo
    <2>7. AreRows(rows, x, lo, n)
      BY <2>6 DEF ShownUpTo
    <2>8. /\ DOMAIN rows = 1 .. n
          /\ \A m \in 1 .. n : /\ rows[m] = <<KeyHex(x.keys[lo + m - 1]), lo + m - 1>>
                               /\ CanShow(x, lo + m - 1)
      BY <2>7, LenProperties DEF AreRows
    <2> HIDE DEF lo, top
    <2>9. n \in Nat /\ lo + n = to /\ to <= top + 1
      BY <2>4, <2>6
    <2> HIDE DEF n, rows
    <2>10. ASSUME NEW m \in DOMAIN rows
           PROVE  /\ rows[m][1] = KeyHex(x.keys[rows[m][2]])
                  /\ CanMatch => Begins(x, rows[m][2])
                  /\ rows[m][2] < x.count \/ (rows[m][2] = x.count /\ keystr # NoKeyStr)
                  /\ m > 1 => rows[m][2] > rows[m - 1][2]
      <3>1. m \in 1 .. n /\ (m > 1 => m - 1 \in 1 .. n)
        BY <2>8, <2>9, <2>10
      <3>2. rows[m][1] = KeyHex(x.keys[lo + m - 1]) /\ rows[m][2] = lo + m - 1
            /\ CanShow(x, lo + m - 1)
            /\ (m > 1 => rows[m - 1][2] = lo + (m - 1) - 1)
        BY <2>8, <3>1
      <3>3. lo + m - 1 \in lo .. top /\ lo + m - 1 > lo + (m - 1) - 1
        BY <2>4, <2>9, <3>1
      <3>4. lo + m - 1 <= x.count
        BY <2>2, <2>4, <3>1, <3>2 DEF CanShow
      <3>5. CanMatch => Begins(x, lo + m - 1)
        BY <2>4, <3>3, <3>4
      <3> QED
        BY <3>2, <3>3, <3>5 DEF CanShow
    <2>11. ASSUME CanMatch, s < i, NEW p \in Wanted(x) PROVE \E m \in DOMAIN rows : rows[m][2] = p
      <3>1. p \in lo .. top /\ to = top + 1
        BY <2>4, <2>6, <2>11
      <3>2. p - lo + 1 \in 1 .. n /\ lo + (p - lo + 1) - 1 = p
        BY <2>4, <2>9, <3>1
      <3>3. rows[p - lo + 1][2] = p
        BY <2>8, <3>2
      <3> QED
        BY <2>8, <3>2, <3>3
    <2> QED
      BY <2>10, <2>11 DEF rows
  <1> QED
    BY <1>1, DinoinfoInvAlways, PTL
=============================================================================
