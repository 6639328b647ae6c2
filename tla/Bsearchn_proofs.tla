--------------------------- MODULE Bsearchn_proofs --------------------------
(***************************************************************************)
(* What the operators of Bsearchn compute, for arrays, keys and windows of *)
(* any size.  They are recursive functions: that there is a function as    *)
(* their definitions describe it, and that what holds of the smaller       *)
(* windows holds of all, is proved first, in terms of sets and functions.  *)
(***************************************************************************)
EXTENDS Bsearchn, FiniteSets, FiniteSetTheorems, TLAPS

(* Induction: adding one leads from 0 to every number.  Otherwise, up to a *)
(* number n that is not in P, it would lead from as many numbers to one    *)
(* less, and no two to the same.                                           *)
LEMMA Induction ==
    ASSUME NEW P \in SUBSET Nat, 0 \in P, \A n \in P : n + 1 \in P
    PROVE  P = Nat
  <1> SUFFICES ASSUME NEW n \in Nat, n \notin P PROVE FALSE
    OBVIOUS
  <1> DEFINE T == P \cap (0 .. n)
             next == [i \in T |-> i + 1]
  <1>1. IsFiniteSet(T)
    <2>1. IsFiniteSet(0 .. n) /\ T \in SUBSET (0 .. n)
      BY FS_Interval
    <2> HIDE DEF T
    <2> QED
      BY <2>1, FS_Subset
  <1>2. IsFiniteSet(T \ {0}) /\ Cardinality(T \ {0}) = Cardinality(T) - 1 /\ Cardinality(T) \in Nat
    <2>1. 0 \in T
      OBVIOUS
    <2> HIDE DEF T
    <2>2. Cardinality(T) \in Nat
      BY <1>1, FS_CardinalityType
    <2> QED
      BY <1>1, <2>1, <2>2, FS_RemoveElement
  <1>3. next \in [T -> T \ {0}]
    OBVIOUS
  <1>4. PICK x, y \in T : x # y /\ next[x] = next[y]
    <2> HIDE DEF T, next
    <2>1. Cardinality(T \ {0}) < Cardinality(T)
      BY <1>2
    <2> QED
      BY <1>1, <1>2, <1>3, <2>1, FS_PigeonHole
  <1> QED
    BY <1>4

(* Induction from all the smaller numbers. *)
LEMMA StrongInduction ==
    ASSUME NEW P \in SUBSET Nat,
           \A n \in Nat : (\A m \in 0 .. n - 1 : m \in P) => n \in P
    PROVE  P = Nat
  <1> DEFINE Q == {n \in Nat : \A m \in 0 .. n : m \in P}
  <1>1. 0 \in Q
    OBVIOUS
  <1>2. ASSUME NEW n \in Q PROVE n + 1 \in Q
    <2>1. n + 1 \in Nat /\ \A m \in 0 .. (n + 1) - 1 : m \in P
      OBVIOUS
    <2>2. n + 1 \in P
      BY <2>1
    <2> QED
      BY <2>1, <2>2
  <1>3. Q = Nat
    <2> HIDE DEF Q
    <2>1. Q \in SUBSET Nat
      BY DEF Q
    <2> QED
      BY <1>1, <1>2, <2>1, Induction
  <1>4. ASSUME NEW n \in Nat PROVE n \in P
    <2>1. n \in Q /\ n \in 0 .. n
      BY <1>3
    <2> QED
      BY <2>1
  <1> QED
    BY <1>4

(* There is a least number in a set that has one. *)
LEMMA HasLeast ==
    ASSUME NEW S \in SUBSET Nat, NEW n \in S
    PROVE  \E j \in S : \A k \in S : j <= k
  <1> SUFFICES ASSUME \A j \in S : \E k \in S : ~(j <= k) PROVE FALSE
    OBVIOUS
  <1> DEFINE P == Nat \ S
  <1>1. ASSUME NEW m \in Nat, \A l \in 0 .. m - 1 : l \in P PROVE m \in P
    <2> SUFFICES ASSUME m \in S PROVE FALSE
      OBVIOUS
    <2>1. PICK k \in S : ~(m <= k)
      OBVIOUS
    <2>2. k \in 0 .. m - 1
      BY <2>1
    <2> QED
      BY <1>1, <2>2
  <1>2. P = Nat
    <2>1. P \in SUBSET Nat
      OBVIOUS
    <2> HIDE DEF P
    <2> QED
      BY <1>1, <2>1, StrongInduction
  <1> QED
    BY <1>2

----------------------------------------------------------------------------
(* What a number divided by d leaves *)
LEMMA Division ==
    ASSUME NEW k \in Nat, NEW d \in Nat \ {0}
    PROVE  /\ k \div d \in Nat /\ k % d \in 0 .. d - 1
           /\ k = d * (k \div d) + (k % d)
           /\ d * (k \div d) \in Nat
           /\ d * (k \div d) <= k /\ k < d * (k \div d) + d
  <1> DEFINE q == k \div d
             r == k % d
             p == d * q
  <1>1. q \in Nat /\ r \in 0 .. d - 1 /\ k = p + r /\ p \in Nat
    OBVIOUS
  <1> HIDE DEF q, r, p
  <1>2. p <= k /\ k < p + d
    BY <1>1
  <1> QED
    BY <1>1, <1>2 DEF q, r, p

(* Multiples of d are at least d apart. *)
LEMMA Multiples ==
    ASSUME NEW d \in Nat, NEW x \in Nat, NEW y \in Nat, x < y
    PROVE  d * x \in Nat /\ d * y \in Nat /\ d * x + d <= d * y
  <1>1. PICK e \in Nat : y = x + 1 + e
    <2>1. y - x - 1 \in Nat /\ y = x + 1 + (y - x - 1)
      OBVIOUS
    <2> QED
      BY <2>1
  <1>2. d * e \in Nat /\ d * x \in Nat
    OBVIOUS
  <1>3. d * (x + 1 + e) = d * x + d + d * e
    OBVIOUS
  <1> HIDE <1>1
  <1>4. d * y = d * x + d + d * e
    BY <1>1, <1>3
  <1> QED
    BY <1>2, <1>4

(* Only one number leaves less than d. *)
LEMMA OneQuotient ==
    ASSUME NEW k \in Nat, NEW d \in Nat \ {0}, NEW x \in Nat, d * x <= k, k < d * x + d
    PROVE  k \div d = x
  <1> DEFINE q == k \div d
             p == d * q
             s == d * x
  <1>1. q \in Nat /\ p \in Nat /\ s \in Nat /\ p <= k /\ k < p + d /\ s <= k /\ k < s + d
    BY Division
  <1>2. (q < x => p + d <= s) /\ (x < q => s + d <= p)
    BY <1>1, Multiples
  <1> HIDE DEF q, p, s
  <1>3. q = x
    BY <1>1, <1>2
  <1> QED
    BY <1>3 DEF q

(* Numbers in order leave quotients in order. *)
LEMMA QuotientOrder ==
    ASSUME NEW k \in Nat, NEW l \in Nat, k <= l, NEW d \in Nat \ {0}
    PROVE  k \div d <= l \div d
  <1> DEFINE x == k \div d
             y == l \div d
             p == d * x
             s == d * y
  <1>1. x \in Nat /\ y \in Nat /\ p \in Nat /\ s \in Nat /\ p <= k /\ l < s + d
    BY Division
  <1>2. y < x => s + d <= p
    BY <1>1, Multiples
  <1> HIDE DEF x, y, p, s
  <1>3. x <= y
    BY <1>1, <1>2
  <1> QED
    BY <1>3 DEF x, y

(* A set of the first places has as many places as the first without it.   *)
LEMMA FirstPlaces ==
    ASSUME NEW n \in Nat, NEW S \in SUBSET (0 .. n - 1), NEW j \in 0 .. n - 1,
           \A k \in S : \A l \in 0 .. k : l \in S
    PROVE  j \in S <=> j < Cardinality(S)
  <1>1. IsFiniteSet(0 .. n - 1)
    BY FS_Interval
  <1>2. IsFiniteSet(S) /\ Cardinality(S) \in Nat
    BY <1>1, FS_Subset, FS_CardinalityType
  <1>3. CASE j \in S
    <2>1. 0 .. j \in SUBSET S
      BY <1>3
    <2>2. Cardinality(0 .. j) = j + 1
      BY FS_Interval
    <2>3. j + 1 <= Cardinality(S)
      BY <1>2, <2>1, <2>2, FS_Subset
    <2> QED
      BY <1>2, <1>3, <2>3
  <1>4. CASE j \notin S
    <2>1. ASSUME NEW k \in S PROVE k \in 0 .. j - 1
      <3>1. k \in Nat /\ j \in Nat
        OBVIOUS
      <3>2. ~(j <= k)
        BY <1>4, <3>1
      <3> QED
        BY <3>1, <3>2
    <2>2. S \in SUBSET (0 .. j - 1)
      BY <2>1
    <2>3. IsFiniteSet(0 .. j - 1) /\ Cardinality(0 .. j - 1) = j
      BY FS_Interval
    <2>4. Cardinality(S) <= j
      <3> DEFINE T == 0 .. j - 1
      <3>1. S \in SUBSET T /\ IsFiniteSet(T) /\ Cardinality(T) = j
        BY <2>2, <2>3
      <3> HIDE DEF T
      <3>2. Cardinality(S) <= Cardinality(T)
        BY <3>1, FS_Subset
      <3> QED
        BY <3>1, <3>2
    <2> QED
      BY <1>2, <1>4, <2>4
  <1> QED
    BY <1>3, <1>4

(* How many of n numbers are at most b, *)
UpToCount(f, n, b) == Cardinality({i \in 0 .. n - 1 : f[i] <= b})

(* which is where the others begin, if the numbers are in order. *)
LEMMA CountsSplit ==
    ASSUME NEW n \in Nat, NEW f \in [0 .. n - 1 -> Nat],
           \A i, j \in 0 .. n - 1 : i <= j => f[i] <= f[j], NEW b \in Nat
    PROVE  /\ UpToCount(f, n, b) \in Nat /\ UpToCount(f, n, b) <= n
           /\ \A c \in Nat : b <= c => UpToCount(f, n, b) <= UpToCount(f, n, c)
           /\ \A j \in 0 .. n - 1 : f[j] <= b <=> j < UpToCount(f, n, b)
  <1> DEFINE upto(c) == {i \in 0 .. n - 1 : f[i] <= c}
  <1>1. IsFiniteSet(0 .. n - 1) /\ Cardinality(0 .. n - 1) = n
    BY FS_Interval
  <1>2. \A c : UpToCount(f, n, c) = Cardinality(upto(c))
    BY DEF UpToCount
  <1>3. ASSUME NEW c PROVE /\ upto(c) \in SUBSET (0 .. n - 1) /\ IsFiniteSet(upto(c))
                           /\ Cardinality(upto(c)) \in Nat /\ Cardinality(upto(c)) <= n
    <2>1. upto(c) \in SUBSET (0 .. n - 1)
      OBVIOUS
    <2> QED
      BY <1>1, <2>1, FS_Subset, FS_CardinalityType
  <1>4. ASSUME NEW c \in Nat, b <= c PROVE Cardinality(upto(b)) <= Cardinality(upto(c))
    <2>1. ASSUME NEW i \in 0 .. n - 1, f[i] <= b PROVE f[i] <= c
      BY <1>4, <2>1
    <2>2. upto(b) \in SUBSET upto(c)
      BY <2>1
    <2> QED
      BY <1>3, <2>2, FS_Subset
  <1>5. ASSUME NEW j \in 0 .. n - 1 PROVE f[j] <= b <=> j < Cardinality(upto(b))
    <2>1. ASSUME NEW k \in upto(b), NEW l \in 0 .. k PROVE l \in upto(b)
      <3>1. k \in 0 .. n - 1 /\ l \in 0 .. n - 1 /\ f[k] <= b
        OBVIOUS
      <3>2. f[l] <= f[k] /\ f[l] \in Nat /\ f[k] \in Nat
        BY <3>1
      <3> QED
        BY <3>1, <3>2
    <2>2. j \in upto(b) <=> f[j] <= b
      OBVIOUS
    <2> HIDE DEF upto
    <2>3. j \in upto(b) <=> j < Cardinality(upto(b))
      BY <1>3, <2>1, FirstPlaces
    <2> QED
      BY <2>2, <2>3
  <1> HIDE DEF upto
  <1> QED
    BY <1>2, <1>3, <1>4, <1>5

----------------------------------------------------------------------------
(* A function that is defined by its first value and by a step to the next *)
(* is one.                                                                 *)
Accumulated(f, n, R, a, step) ==
    /\ f \in [0 .. n -> R]
    /\ \A k \in 0 .. n : f[k] = IF k = 0 THEN a ELSE step[<<f[k - 1], k - 1>>]

(* There is such a function, whatever the step. *)
LEMMA Accumulates ==
    ASSUME NEW n \in Nat, NEW R, NEW a \in R, NEW step \in [R \X (0 .. n - 1) -> R]
    PROVE  \E f : Accumulated(f, n, R, a, step)
  <1> DEFINE Fits(f, m) ==
                \A k \in 0 .. m : f[k] = IF k = 0 THEN a ELSE step[<<f[k - 1], k - 1>>]
             P == {m \in Nat : m <= n => \E f \in [0 .. m -> R] : Fits(f, m)}
  <1>1. 0 \in P
    <2> DEFINE f == [k \in 0 .. 0 |-> a]
    <2>1. f \in [0 .. 0 -> R] /\ Fits(f, 0)
      OBVIOUS
    <2> QED
      BY <2>1
  <1>2. ASSUME NEW m \in Nat, m + 1 <= n, NEW f \in [0 .. m -> R], Fits(f, m)
        PROVE  \E g \in [0 .. m + 1 -> R] : Fits(g, m + 1)
    <2> DEFINE next == step[<<f[m], m>>]
               g == [k \in 0 .. m + 1 |-> IF k <= m THEN f[k] ELSE next]
    <2>1. next \in R
      <3>1. f[m] \in R /\ m \in 0 .. n - 1
        BY <1>2
      <3> QED
        BY <3>1
    <2>2. g \in [0 .. m + 1 -> R] /\ (\A k \in 0 .. m : g[k] = f[k]) /\ g[m + 1] = next
      <3> HIDE DEF next
      <3> QED
        BY <2>1, <1>2
    <2> HIDE DEF g
    <2>3. ASSUME NEW k \in 0 .. m
          PROVE  g[k] = IF k = 0 THEN a ELSE step[<<g[k - 1], k - 1>>]
      <3>1. f[k] = IF k = 0 THEN a ELSE step[<<f[k - 1], k - 1>>]
        BY <1>2
      <3>2. k # 0 => g[k - 1] = f[k - 1]
        BY <1>2, <2>2
      <3> QED
        BY <2>2, <3>1, <3>2
    <2>4. g[m + 1] = step[<<g[(m + 1) - 1], (m + 1) - 1>>] /\ m + 1 # 0
      <3>1. (m + 1) - 1 = m /\ m \in 0 .. m /\ m + 1 # 0
        BY <1>2
      <3>2. g[m] = f[m] /\ g[m + 1] = step[<<f[m], m>>]
        BY <2>2, <3>1
      <3> QED
        BY <3>1, <3>2
    <2>5. \A k \in 0 .. m + 1 : k \in 0 .. m \/ k = m + 1
      BY <1>2
    <2>6. Fits(g, m + 1)
      BY <2>3, <2>4, <2>5
    <2> HIDE DEF Fits
    <2> QED
      BY <2>2, <2>6
  <1>3. ASSUME NEW m \in P PROVE m + 1 \in P
    <2> HIDE DEF Fits
    <2>1. m \in Nat /\ m + 1 \in Nat /\ (m + 1 <= n => m <= n)
      OBVIOUS
    <2> QED
      BY <1>2, <2>1
  <1>4. P = Nat
    <2>1. P \in SUBSET Nat
      OBVIOUS
    <2> HIDE DEF P
    <2> QED
      BY <1>1, <1>3, <2>1, Induction
  <1>5. PICK f \in [0 .. n -> R] : Fits(f, n)
    <2> HIDE DEF Fits
    <2> QED
      BY <1>4
  <1>6. Accumulated(f, n, R, a, step)
    BY <1>5 DEF Accumulated
  <1> QED
    BY <1>6

(* A function that is defined by its value at the next argument, outside   *)
(* of D, and the condition that makes it exist: the next argument is       *)
(* smaller.                                                                *)
GetsSmaller(S, D, next, size) ==
    /\ next \in [S -> S] /\ size \in [S -> Nat]
    /\ \A s \in S : s \notin D => size[next[s]] < size[s]

IsRecursive(S, R, D, next, res, f) ==
    /\ f \in [S -> R]
    /\ \A s \in S : f[s] = IF s \in D THEN res[s] ELSE f[next[s]]

(* It is put together from functions that fit the definition up to some    *)
(* size, which agree with each other.                                      *)
LEMMA Recursion ==
    ASSUME NEW S, NEW R, NEW D, NEW next, NEW res, NEW size,
           GetsSmaller(S, D, next, size), res \in [S -> R]
    PROVE  \E f : IsRecursive(S, R, D, next, res, f)
  <1> USE DEF GetsSmaller
  <1> DEFINE Body(f) == [s \in S |-> IF s \in D THEN res[s] ELSE f[next[s]]]
             Fits(f, n) == \A s \in S : size[s] <= n => f[s] = Body(f)[s]
             P == {n \in Nat : \E f \in [S -> R] : Fits(f, n)}
             Q == {n \in Nat : \A f, g \in [S -> R] :
                      Fits(f, n) /\ Fits(g, n) => \A s \in S : size[s] <= n => f[s] = g[s]}
             Fcn(n) == CHOOSE f \in [S -> R] : Fits(f, n)
             fix == [s \in S |-> Fcn(size[s])[s]]
  <1>1. \A f \in [S -> R] : Body(f) \in [S -> R]
    OBVIOUS
  <1>2. 0 \in P
    <2>1. Body(res) \in [S -> R]
      BY <1>1
    <2>2. \A s \in S : size[s] <= 0 => s \in D
      OBVIOUS
    <2> QED
      BY <2>1, <2>2
  <1>3. ASSUME NEW n \in P PROVE n + 1 \in P
    <2>1. PICK f \in [S -> R] : Fits(f, n)
      OBVIOUS
    <2>2. Body(f) \in [S -> R]
      BY <1>1
    <2>3. ASSUME NEW s \in S, size[s] <= n + 1
          PROVE  Body(f)[s] = Body(Body(f))[s]
      <3>1. CASE s \in D
        BY <3>1
      <3>2. CASE s \notin D
        <4>1. next[s] \in S /\ size[next[s]] <= n
          BY <3>2, <2>3
        <4>2. f[next[s]] = Body(f)[next[s]]
          BY <4>1, <2>1
        <4> QED
          BY <3>2, <4>1, <4>2
      <3> QED
        BY <3>1, <3>2
    <2>4. Fits(Body(f), n + 1)
      BY <2>3
    <2> HIDE DEF Fits, Body
    <2> QED
      BY <2>2, <2>4
  <1>4. ASSUME NEW n \in Nat, \A m \in 0 .. n - 1 : m \in Q PROVE n \in Q
    <2> SUFFICES ASSUME NEW f \in [S -> R], NEW g \in [S -> R], Fits(f, n), Fits(g, n),
                        NEW s \in S, size[s] <= n
                 PROVE  f[s] = g[s]
      OBVIOUS
    <2>1. CASE s \in D
      BY <2>1
    <2>2. CASE s \notin D
      <3>1. next[s] \in S /\ size[next[s]] \in 0 .. n - 1
        BY <2>2
      <3>2. Fits(f, size[next[s]]) /\ Fits(g, size[next[s]])
        BY <3>1
      <3>3. f[next[s]] = g[next[s]]
        BY <3>1, <3>2, <1>4
      <3> QED
        BY <2>2, <3>3
    <2> QED
      BY <2>1, <2>2
  <1>5. P = Nat /\ Q = Nat
    <2>1. P \in SUBSET Nat /\ Q \in SUBSET Nat
      OBVIOUS
    <2>2. P = Nat
      <3> HIDE DEF P
      <3> QED BY <1>2, <1>3, <2>1, Induction
    <2>3. Q = Nat
      <3> HIDE DEF Q
      <3> QED BY <1>4, <2>1, StrongInduction
    <2> QED
      BY <2>2, <2>3
  <1>6. \A n \in Nat : Fcn(n) \in [S -> R] /\ Fits(Fcn(n), n)
    BY <1>5
  <1>7. fix \in [S -> R]
    BY <1>6
  <1>8. ASSUME NEW s \in S PROVE fix[s] = Body(fix)[s]
    <2>1. CASE s \in D
      BY <1>6, <2>1
    <2>2. CASE s \notin D
      <3> DEFINE t == next[s]
      <3>1. t \in S /\ size[t] \in Nat /\ size[s] \in Nat /\ size[t] <= size[s]
        BY <2>2
      <3>2. fix[s] = Fcn(size[s])[t]
        BY <1>6, <2>2, <3>1
      <3>3. Fits(Fcn(size[s]), size[t])
        BY <1>6, <3>1
      <3>4. Fcn(size[s])[t] = Fcn(size[t])[t]
        <4>1. size[t] \in Q /\ size[t] <= size[t]
          <5> HIDE DEF Q, t
          <5> QED
            BY <1>5, <3>1
        <4> HIDE DEF Fcn, Fits, t
        <4>2. Fcn(size[s]) \in [S -> R] /\ Fcn(size[t]) \in [S -> R] /\ Fits(Fcn(size[t]), size[t])
          BY <1>6, <3>1
        <4> QED
          BY <3>1, <3>3, <4>1, <4>2
      <3> QED
        BY <2>2, <3>1, <3>2, <3>4
    <2> QED
      BY <2>1, <2>2
  <1> HIDE DEF fix
  <1> QED
    BY <1>7, <1>8 DEF IsRecursive

----------------------------------------------------------------------------
(* How the window shrinks. *)
LEMMA Shrinks ==
    ASSUME NEW w \in Windows, w[2] # 0
    PROVE  /\ RightOf(w) \in Windows /\ RightOf(w)[2] < w[2]
           /\ LeftOf(w) \in Windows /\ LeftOf(w)[2] < w[2]
           /\ Mid(w[1], w[2]) \in w[1] .. w[1] + w[2] - 1
           /\ LeftOf(w)[1] = w[1] /\ LeftOf(w)[1] + LeftOf(w)[2] = Mid(w[1], w[2])
           /\ RightOf(w)[1] = Mid(w[1], w[2]) + 1
           /\ RightOf(w)[1] + RightOf(w)[2] = w[1] + w[2]
  <1>1. w[1] \in Nat /\ w[2] \in Nat \ {0}
    BY DEF Windows
  <1> DEFINE h == w[2] \div 2
             g == (w[2] - 1) \div 2
  <1>2. h \in Nat /\ g \in Nat /\ h < w[2] /\ g < w[2] /\ h + 1 + g = w[2]
    <2> DEFINE n == w[2]
    <2>1. n \in Nat \ {0}
      BY <1>1
    <2> HIDE DEF n
    <2>2. n \div 2 \in Nat /\ n \div 2 < n
      BY <2>1
    <2>3. (n - 1) \div 2 \in Nat /\ (n - 1) \div 2 < n
      BY <2>1
    <2>4. n \div 2 + 1 + (n - 1) \div 2 = n
      BY <2>1
    <2> QED
      BY <2>2, <2>3, <2>4 DEF n
  <1>3. /\ Mid(w[1], w[2]) = w[1] + h
        /\ RightOf(w) = <<w[1] + h + 1, g>> /\ LeftOf(w) = <<w[1], h>>
    BY DEF RightOf, LeftOf, Mid, RightNum, LeftNum
  <1> HIDE DEF h, g
  <1>4. RightOf(w) \in Windows /\ LeftOf(w) \in Windows
    BY <1>1, <1>2, <1>3 DEF Windows
  <1> QED
    BY <1>1, <1>2, <1>3, <1>4

(* bisect_cmp() as a function of the window. *)
LEMMA BisectRecurs ==
    ASSUME NEW key, NEW array, NEW w \in Windows
    PROVE  BisectSearch(key, array)[w] =
             IF w[2] = 0 THEN w[1]
             ELSE IF key > array[Mid(w[1], w[2])] THEN BisectSearch(key, array)[RightOf(w)]
             ELSE BisectSearch(key, array)[LeftOf(w)]
  <1> DEFINE D == {v \in Windows : v[2] = 0}
             next == [v \in Windows |->
                         IF v[2] = 0 THEN v
                         ELSE IF key > array[Mid(v[1], v[2])] THEN RightOf(v) ELSE LeftOf(v)]
             res == [v \in Windows |-> v[1]]
             size == [v \in Windows |-> v[2]]
             Body(f) == [v \in Windows |->
                            IF v[2] = 0 THEN v[1]
                            ELSE IF key > array[Mid(v[1], v[2])] THEN f[RightOf(v)]
                            ELSE f[LeftOf(v)]]
  <1>1. next \in [Windows -> Windows]
    BY Shrinks
  <1>2. res \in [Windows -> Nat] /\ size \in [Windows -> Nat]
    BY DEF Windows
  <1>3. GetsSmaller(Windows, D, next, size)
    BY <1>1, <1>2, Shrinks DEF GetsSmaller
  <1>4. PICK f : IsRecursive(Windows, Nat, D, next, res, f)
    <2> HIDE DEF D, next, res, size
    <2> QED
      BY <1>2, <1>3, Recursion
  <1>5. ASSUME NEW v \in Windows
        PROVE  (IF v \in D THEN res[v] ELSE f[next[v]]) = Body(f)[v]
    OBVIOUS
  <1>6. f = Body(f)
    <2>1. f \in [Windows -> Nat] /\ \A v \in Windows : f[v] = Body(f)[v]
      BY <1>4, <1>5 DEF IsRecursive
    <2> QED
      BY <2>1
  <1>7. BisectSearch(key, array) = Body(BisectSearch(key, array))
    BY <1>6 DEF BisectSearch
  <1> QED
    BY <1>7

(* bsearchir_cmp() as a function of the window. *)
LEMMA IrRecurs ==
    ASSUME NEW key, NEW array, NEW w \in Windows
    PROVE  /\ w[2] = 0 => IrSearch(key, array)[w] = Complement(w[1])
           /\ w[2] # 0 /\ key = array[Mid(w[1], w[2])]
                 => IrSearch(key, array)[w] = Mid(w[1], w[2])
           /\ w[2] # 0 /\ key # array[Mid(w[1], w[2])]
                 => IrSearch(key, array)[w] =
                       IF key > array[Mid(w[1], w[2])] THEN IrSearch(key, array)[RightOf(w)]
                       ELSE IrSearch(key, array)[LeftOf(w)]
  <1> DEFINE D == {v \in Windows : v[2] = 0 \/ key = array[Mid(v[1], v[2])]}
             next == [v \in Windows |->
                         IF v[2] = 0 THEN v
                         ELSE IF key > array[Mid(v[1], v[2])] THEN RightOf(v) ELSE LeftOf(v)]
             res == [v \in Windows |->
                        IF v[2] = 0 THEN Complement(v[1]) ELSE Mid(v[1], v[2])]
             size == [v \in Windows |-> v[2]]
             Body(f) == [v \in Windows |->
                            IF v[2] = 0 THEN Complement(v[1])
                            ELSE IF key = array[Mid(v[1], v[2])] THEN Mid(v[1], v[2])
                            ELSE IF key > array[Mid(v[1], v[2])] THEN f[RightOf(v)]
                            ELSE f[LeftOf(v)]]
  <1>1. next \in [Windows -> Windows]
    BY Shrinks
  <1>2. res \in [Windows -> Int] /\ size \in [Windows -> Nat]
    BY DEF Windows, Complement, Mid
  <1>3. GetsSmaller(Windows, D, next, size)
    BY <1>1, <1>2, Shrinks DEF GetsSmaller
  <1>4. PICK f : IsRecursive(Windows, Int, D, next, res, f)
    <2> HIDE DEF D, next, res, size
    <2> QED
      BY <1>2, <1>3, Recursion
  <1>5. ASSUME NEW v \in Windows
        PROVE  (IF v \in D THEN res[v] ELSE f[next[v]]) = Body(f)[v]
    OBVIOUS
  <1>6. f = Body(f)
    <2>1. f \in [Windows -> Int] /\ \A v \in Windows : f[v] = Body(f)[v]
      BY <1>4, <1>5 DEF IsRecursive
    <2> QED
      BY <2>1
  <1>7. IrSearch(key, array) = Body(IrSearch(key, array))
    BY <1>6 DEF IrSearch
  <1> QED
    BY <1>7

(* bsearchpkr_cmp()'s bisection, and its two scans from a matching item. *)
LEMMA PkrRecurs ==
    ASSUME NEW lokey, NEW hikey, NEW array, NEW w \in Windows
    PROVE  /\ w[2] = 0 => PkrSearch(lokey, hikey, array)[w] = w
           /\ w[2] # 0 /\ Within(lokey, hikey, array[Mid(w[1], w[2])]) /\ lokey < hikey
                 => PkrSearch(lokey, hikey, array)[w] = w
           /\ w[2] # 0 /\ ~(Within(lokey, hikey, array[Mid(w[1], w[2])]) /\ lokey < hikey)
                 => PkrSearch(lokey, hikey, array)[w] =
                       IF lokey > array[Mid(w[1], w[2])]
                       THEN PkrSearch(lokey, hikey, array)[RightOf(w)]
                       ELSE PkrSearch(lokey, hikey, array)[LeftOf(w)]
  <1> DEFINE Stops(v) == v[2] = 0 \/ (/\ Within(lokey, hikey, array[Mid(v[1], v[2])])
                                     /\ lokey < hikey)
             D == {v \in Windows : Stops(v)}
             next == [v \in Windows |->
                         IF v[2] = 0 THEN v
                         ELSE IF lokey > array[Mid(v[1], v[2])] THEN RightOf(v) ELSE LeftOf(v)]
             res == [v \in Windows |-> v]
             size == [v \in Windows |-> v[2]]
             Body(f) == [v \in Windows |->
                            IF Stops(v) THEN v
                            ELSE IF lokey > array[Mid(v[1], v[2])] THEN f[RightOf(v)]
                            ELSE f[LeftOf(v)]]
  <1>1. next \in [Windows -> Windows]
    BY Shrinks
  <1>2. res \in [Windows -> Windows] /\ size \in [Windows -> Nat]
    BY DEF Windows
  <1>3. GetsSmaller(Windows, D, next, size)
    BY <1>1, <1>2, Shrinks DEF GetsSmaller
  <1>4. PICK f : IsRecursive(Windows, Windows, D, next, res, f)
    <2> HIDE DEF D, next, res, size
    <2> QED
      BY <1>2, <1>3, Recursion
  <1>5. ASSUME NEW v \in Windows
        PROVE  (IF v \in D THEN res[v] ELSE f[next[v]]) = Body(f)[v]
    OBVIOUS
  <1>6. f = Body(f)
    <2>1. f \in [Windows -> Windows] /\ \A v \in Windows : f[v] = Body(f)[v]
      BY <1>4, <1>5 DEF IsRecursive
    <2> QED
      BY <2>1
  <1>7. PkrSearch(lokey, hikey, array) = Body(PkrSearch(lokey, hikey, array))
    BY <1>6 DEF PkrSearch
  <1> QED
    BY <1>7

(* The scan downwards, by the number of items below. *)
LEMMA DownRecurs ==
    ASSUME NEW lokey, NEW hikey, NEW array, NEW b \in Nat, NEW i \in Nat
    PROVE  DownFrom(lokey, hikey, array, b)[i] =
              IF i > b /\ Within(lokey, hikey, array[i - 1])
              THEN DownFrom(lokey, hikey, array, b)[i - 1] ELSE i
  <1> DEFINE More(j) == j > b /\ Within(lokey, hikey, array[j - 1])
             D == {j \in Nat : ~More(j)}
             next == [j \in Nat |-> IF j > b THEN j - 1 ELSE j]
             res == [j \in Nat |-> j]
             Body(f) == [j \in Nat |-> IF More(j) THEN f[j - 1] ELSE j]
  <1>1. next \in [Nat -> Nat] /\ res \in [Nat -> Nat]
    OBVIOUS
  <1>2. GetsSmaller(Nat, D, next, res)
    BY <1>1 DEF GetsSmaller
  <1>3. PICK f : IsRecursive(Nat, Nat, D, next, res, f)
    <2> HIDE DEF D, next, res
    <2> QED
      BY <1>1, <1>2, Recursion
  <1>4. ASSUME NEW j \in Nat
        PROVE  (IF j \in D THEN res[j] ELSE f[next[j]]) = Body(f)[j]
    OBVIOUS
  <1>5. f = Body(f)
    <2>1. f \in [Nat -> Nat] /\ \A j \in Nat : f[j] = Body(f)[j]
      BY <1>3, <1>4 DEF IsRecursive
    <2> QED
      BY <2>1
  <1>6. DownFrom(lokey, hikey, array, b) = Body(DownFrom(lokey, hikey, array, b))
    BY <1>5 DEF DownFrom
  <1> QED
    BY <1>6

(* The scan upwards, by the number of items above. *)
LEMMA UpRecurs ==
    ASSUME NEW lokey, NEW hikey, NEW array, NEW top \in Nat, NEW i \in Nat
    PROVE  UpFrom(lokey, hikey, array, top)[i] =
              IF i < top /\ Within(lokey, hikey, array[i + 1])
              THEN UpFrom(lokey, hikey, array, top)[i + 1] ELSE i
  <1> DEFINE More(j) == j < top /\ Within(lokey, hikey, array[j + 1])
             D == {j \in Nat : ~More(j)}
             next == [j \in Nat |-> j + 1]
             res == [j \in Nat |-> j]
             size == [j \in Nat |-> IF j < top THEN top - j ELSE 0]
             Body(f) == [j \in Nat |-> IF More(j) THEN f[j + 1] ELSE j]
  <1>1. next \in [Nat -> Nat] /\ res \in [Nat -> Nat] /\ size \in [Nat -> Nat]
    OBVIOUS
  <1>2. GetsSmaller(Nat, D, next, size)
    BY <1>1 DEF GetsSmaller
  <1>3. PICK f : IsRecursive(Nat, Nat, D, next, res, f)
    <2> HIDE DEF D, next, res, size
    <2> QED
      BY <1>1, <1>2, Recursion
  <1>4. ASSUME NEW j \in Nat
        PROVE  (IF j \in D THEN res[j] ELSE f[next[j]]) = Body(f)[j]
    OBVIOUS
  <1>5. f = Body(f)
    <2>1. f \in [Nat -> Nat] /\ \A j \in Nat : f[j] = Body(f)[j]
      BY <1>3, <1>4 DEF IsRecursive
    <2> QED
      BY <2>1
  <1>6. UpFrom(lokey, hikey, array, top) = Body(UpFrom(lokey, hikey, array, top))
    BY <1>5 DEF UpFrom
  <1> QED
    BY <1>6

----------------------------------------------------------------------------
(* What the searches return, of any array, and of one that is in order.    *)
InWindow(w) == w[1] .. w[1] + w[2] - 1

Ordered(array, w) ==
    \A i, j \in InWindow(w) : array[i] \in Int /\ (i <= j => array[i] <= array[j])

Leftmost(key, array, w, r) ==
    /\ r \in w[1] .. w[1] + w[2]
    /\ Ordered(array, w) => \A i \in InWindow(w) :
          IF i < r THEN array[i] < key ELSE array[i] >= key

IrFound(key, array, w, r) ==
    /\ r \in Int
    /\ r >= 0 => r \in InWindow(w) /\ array[r] = key
    /\ r < 0 =>
         /\ Complement(r) \in w[1] .. w[1] + w[2]
         /\ Ordered(array, w) => \A i \in InWindow(w) :
               IF i < Complement(r) THEN array[i] < key ELSE array[i] > key

(* The two parts of a window, left and right of its midpoint. *)
LEMMA SubWindows ==
    ASSUME NEW w \in Windows, w[2] # 0
    PROVE  /\ InWindow(LeftOf(w)) = w[1] .. Mid(w[1], w[2]) - 1
           /\ InWindow(RightOf(w)) = Mid(w[1], w[2]) + 1 .. w[1] + w[2] - 1
           /\ InWindow(LeftOf(w)) \subseteq InWindow(w)
           /\ InWindow(RightOf(w)) \subseteq InWindow(w)
  <1> DEFINE mid == Mid(w[1], w[2])
             a == LeftOf(w)[1]
             b == LeftOf(w)[2]
             c == RightOf(w)[1]
             d == RightOf(w)[2]
  <1>1. w[1] \in Nat /\ w[2] \in Nat /\ mid \in w[1] .. w[1] + w[2] - 1
    BY Shrinks DEF Windows
  <1>2. a \in Nat /\ b \in Nat /\ a = w[1] /\ a + b = mid
    BY Shrinks DEF Windows
  <1>3. c \in Nat /\ d \in Nat /\ c = mid + 1 /\ c + d = w[1] + w[2]
    BY Shrinks DEF Windows
  <1>4. InWindow(LeftOf(w)) = a .. a + b - 1 /\ InWindow(RightOf(w)) = c .. c + d - 1
    BY DEF InWindow
  <1>5. InWindow(w) = w[1] .. w[1] + w[2] - 1
    BY DEF InWindow
  <1> HIDE DEF mid, a, b, c, d
  <1>6. a .. a + b - 1 = w[1] .. mid - 1
    BY <1>2
  <1>7. c .. c + d - 1 = mid + 1 .. w[1] + w[2] - 1
    BY <1>1, <1>3
  <1>8. w[1] .. mid - 1 \subseteq w[1] .. w[1] + w[2] - 1
    BY <1>1
  <1>9. mid + 1 .. w[1] + w[2] - 1 \subseteq w[1] .. w[1] + w[2] - 1
    BY <1>1
  <1> QED
    BY <1>4, <1>5, <1>6, <1>7, <1>8, <1>9 DEF mid

(* The items of a window in order: those of the two parts are, too, and    *)
(* are on the right side of the midpoint.                                  *)
LEMMA Parts ==
    ASSUME NEW array, NEW w \in Windows, w[2] # 0, Ordered(array, w)
    PROVE  /\ Ordered(array, RightOf(w)) /\ Ordered(array, LeftOf(w))
           /\ array[Mid(w[1], w[2])] \in Int
           /\ \A i \in InWindow(w) :
                 /\ array[i] \in Int
                 /\ i <= Mid(w[1], w[2]) => array[i] <= array[Mid(w[1], w[2])]
                 /\ i >= Mid(w[1], w[2]) => array[i] >= array[Mid(w[1], w[2])]
                 /\ i < Mid(w[1], w[2]) => i \in InWindow(LeftOf(w))
                 /\ i > Mid(w[1], w[2]) => i \in InWindow(RightOf(w))
  <1>1. w[1] \in Nat /\ w[2] \in Nat
    BY DEF Windows
  <1> DEFINE mid == Mid(w[1], w[2])
  <1>2. mid \in InWindow(w) /\ mid \in Int
    BY <1>1, Shrinks DEF InWindow
  <1>3. InWindow(LeftOf(w)) = w[1] .. mid - 1 /\ InWindow(RightOf(w)) = mid + 1 .. w[1] + w[2] - 1
    BY SubWindows
  <1> HIDE DEF mid
  <1>4. InWindow(LeftOf(w)) \subseteq InWindow(w) /\ InWindow(RightOf(w)) \subseteq InWindow(w)
    BY SubWindows
  <1>5. Ordered(array, RightOf(w)) /\ Ordered(array, LeftOf(w))
    BY <1>4 DEF Ordered
  <1>6. array[mid] \in Int
    BY <1>2 DEF Ordered
  <1>7. ASSUME NEW i \in InWindow(w)
        PROVE  /\ array[i] \in Int
               /\ i <= mid => array[i] <= array[mid]
               /\ i >= mid => array[i] >= array[mid]
               /\ i < mid => i \in InWindow(LeftOf(w))
               /\ i > mid => i \in InWindow(RightOf(w))
    <2>1. array[i] \in Int /\ (i <= mid => array[i] <= array[mid])
          /\ (mid <= i => array[mid] <= array[i])
      BY <1>2 DEF Ordered
    <2>2. i \in w[1] .. w[1] + w[2] - 1
      BY DEF InWindow
    <2> QED
      BY <1>1, <1>2, <1>3, <1>6, <2>1, <2>2
  <1> QED
    BY <1>5, <1>6, <1>7 DEF mid

(* bisect_cmp() returns the leftmost place where the key keeps an array in *)
(* order, and a place in the range or at its end whatever the array holds. *)
THEOREM BisectIsExact ==
    ASSUME NEW key \in Int, NEW array, NEW w \in Windows
    PROVE  Leftmost(key, array, w, BisectSearch(key, array)[w])
  <1> DEFINE f == BisectSearch(key, array)
             P == {n \in Nat : \A v \in Windows : v[2] = n => Leftmost(key, array, v, f[v])}
  <1>1. ASSUME NEW n \in Nat, \A m \in 0 .. n - 1 : m \in P
        PROVE  n \in P
    <2> SUFFICES ASSUME NEW v \in Windows, v[2] = n
                 PROVE  Leftmost(key, array, v, f[v])
      OBVIOUS
    <2> DEFINE mid == Mid(v[1], v[2])
    <2>1. v[1] \in Nat /\ v[2] \in Nat
      BY DEF Windows
    <2>2. CASE v[2] = 0
      <3>1. f[v] = v[1]
        BY <2>2, BisectRecurs
      <3> QED
        BY <2>1, <2>2, <3>1 DEF Leftmost, InWindow
    <2>3. CASE v[2] # 0 /\ key > array[mid]
      <3>1. f[v] = f[RightOf(v)]
        BY <2>3, BisectRecurs
      <3>2. Leftmost(key, array, RightOf(v), f[RightOf(v)])
        BY <1>1, <2>1, <2>3, Shrinks DEF Windows
      <3> QED
        <4>1. f[v] \in mid + 1 .. v[1] + v[2]
          <5>1. f[v] \in RightOf(v)[1] .. RightOf(v)[1] + RightOf(v)[2]
            BY <3>1, <3>2 DEF Leftmost
          <5>2. RightOf(v)[1] = mid + 1 /\ RightOf(v)[1] + RightOf(v)[2] = v[1] + v[2]
            BY <2>3, Shrinks
          <5> QED
            BY <5>1, <5>2
        <4>2. mid \in v[1] .. v[1] + v[2] - 1
          BY <2>3, Shrinks
        <4>3. ASSUME Ordered(array, v), NEW i \in InWindow(v)
              PROVE  IF i < f[v] THEN array[i] < key ELSE array[i] >= key
          <5>1. /\ array[mid] \in Int /\ array[i] \in Int
                /\ i <= mid => array[i] <= array[mid]
                /\ i >= mid => array[i] >= array[mid]
            BY <2>3, <4>3, Parts
          <5>2. i \in InWindow(RightOf(v)) => IF i < f[v] THEN array[i] < key ELSE array[i] >= key
            BY <2>3, <3>1, <3>2, <4>3, Parts DEF Leftmost
          <5>3. i > mid => i \in InWindow(RightOf(v))
            BY <2>3, <4>3, Parts
          <5>4. i \in Int
            BY <2>1 DEF InWindow
          <5> HIDE DEF f, mid
          <5> QED
            BY <2>3, <4>1, <4>2, <5>1, <5>2, <5>3, <5>4, <2>1
        <4>4. f[v] \in v[1] .. v[1] + v[2]
          BY <2>1, <4>1, <4>2
        <4> QED
          BY <4>3, <4>4 DEF Leftmost
    <2>4. CASE v[2] # 0 /\ ~(key > array[mid])
      <3>1. f[v] = f[LeftOf(v)]
        BY <2>4, BisectRecurs
      <3>2. Leftmost(key, array, LeftOf(v), f[LeftOf(v)])
        BY <1>1, <2>1, <2>4, Shrinks DEF Windows
      <3> QED
        <4>1. f[v] \in v[1] .. mid
          <5>1. f[v] \in LeftOf(v)[1] .. LeftOf(v)[1] + LeftOf(v)[2]
            BY <3>1, <3>2 DEF Leftmost
          <5>2. LeftOf(v)[1] = v[1] /\ LeftOf(v)[1] + LeftOf(v)[2] = mid
            BY <2>4, Shrinks
          <5> QED
            BY <5>1, <5>2
        <4>2. mid \in v[1] .. v[1] + v[2] - 1
          BY <2>4, Shrinks
        <4>3. ASSUME Ordered(array, v), NEW i \in InWindow(v)
              PROVE  IF i < f[v] THEN array[i] < key ELSE array[i] >= key
          <5>1. /\ array[mid] \in Int /\ array[i] \in Int
                /\ i <= mid => array[i] <= array[mid]
                /\ i >= mid => array[i] >= array[mid]
            BY <2>4, <4>3, Parts
          <5>2. i \in InWindow(LeftOf(v)) => IF i < f[v] THEN array[i] < key ELSE array[i] >= key
            BY <2>4, <3>1, <3>2, <4>3, Parts DEF Leftmost
          <5>3. i < mid => i \in InWindow(LeftOf(v))
            BY <2>4, <4>3, Parts
          <5>4. i \in Int
            BY <2>1 DEF InWindow
          <5> HIDE DEF f, mid
          <5> QED
            BY <2>4, <4>1, <4>2, <5>1, <5>2, <5>3, <5>4, <2>1
        <4>4. f[v] \in v[1] .. v[1] + v[2]
          BY <2>1, <4>1, <4>2
        <4> QED
          BY <4>3, <4>4 DEF Leftmost
    <2> QED
      BY <2>2, <2>3, <2>4
  <1>2. P = Nat
    <2>1. P \in SUBSET Nat
      OBVIOUS
    <2> HIDE DEF P
    <2> QED
      BY <1>1, <2>1, StrongInduction
  <1>3. w[2] \in P
    BY <1>2 DEF Windows
  <1> QED
    BY <1>3

(* bsearchir_cmp() returns a place of the key, or the complement of the    *)
(* place where it would go: if the array is in order, it is not there.     *)
THEOREM IrIsExact ==
    ASSUME NEW key \in Int, NEW array, NEW w \in Windows
    PROVE  IrFound(key, array, w, IrSearch(key, array)[w])
  <1> DEFINE f == IrSearch(key, array)
             P == {n \in Nat : \A v \in Windows : v[2] = n => IrFound(key, array, v, f[v])}
  <1>1. ASSUME NEW n \in Nat, \A m \in 0 .. n - 1 : m \in P
        PROVE  n \in P
    <2> SUFFICES ASSUME NEW v \in Windows, v[2] = n
                 PROVE  IrFound(key, array, v, f[v])
      OBVIOUS
    <2> DEFINE mid == Mid(v[1], v[2])
    <2>1. v[1] \in Nat /\ v[2] \in Nat
      BY DEF Windows
    <2>2. CASE v[2] = 0
      <3> HIDE DEF P, mid
      <3>1. f[v] = Complement(v[1])
        BY <2>2, IrRecurs, ZenonT(60)
      <3> HIDE DEF f
      <3> QED
        BY <2>1, <2>2, <3>1 DEF IrFound, InWindow, Complement
    <2>3. CASE v[2] # 0 /\ key = array[mid]
      <3>1. f[v] = mid
        BY <2>3, IrRecurs
      <3>2. mid \in InWindow(v) /\ mid \in Nat
        BY <2>1, <2>3, Shrinks DEF InWindow
      <3> HIDE DEF f, mid
      <3> QED
        BY <2>3, <3>1, <3>2 DEF IrFound
    <2>4. ASSUME v[2] # 0, key # array[mid], NEW u \in Windows, u[2] < v[2], f[v] = f[u],
                 InWindow(u) \subseteq InWindow(v),
                 u[1] .. u[1] + u[2] \subseteq v[1] .. v[1] + v[2],
                 Ordered(array, v) =>
                    /\ Ordered(array, u)
                    /\ \A i \in InWindow(v) : \/ i \in InWindow(u)
                                              \/ i < u[1] /\ array[i] < key
                                              \/ i >= u[1] + u[2] /\ array[i] > key
          PROVE  IrFound(key, array, v, f[v])
      <3>1. IrFound(key, array, u, f[u])
        BY <1>1, <2>1, <2>4 DEF Windows
      <3>2. f[v] >= 0 => f[v] \in InWindow(v) /\ array[f[v]] = key
        BY <2>4, <3>1 DEF IrFound
      <3>3. ASSUME f[v] < 0
            PROVE  /\ Complement(f[v]) \in v[1] .. v[1] + v[2]
                   /\ Complement(f[v]) \in u[1] .. u[1] + u[2]
        BY <2>4, <3>1, <3>3 DEF IrFound
      <3>4. ASSUME f[v] < 0, Ordered(array, v), NEW i \in InWindow(v)
            PROVE  IF i < Complement(f[v]) THEN array[i] < key ELSE array[i] > key
        <4>1. CASE i \in InWindow(u)
          BY <2>4, <3>1, <3>4, <4>1 DEF IrFound
        <4>2. CASE i \notin InWindow(u)
          <5>1. \/ i < u[1] /\ array[i] < key
                \/ i >= u[1] + u[2] /\ array[i] > key
            BY <2>4, <3>4, <4>2
          <5>2. Complement(f[v]) \in u[1] .. u[1] + u[2] /\ i \in Int
            BY <2>1, <3>3, <3>4 DEF InWindow
          <5>3. u[1] \in Nat /\ u[2] \in Nat
            BY DEF Windows
          <5> HIDE DEF f
          <5> QED
            BY <5>1, <5>2, <5>3
        <4> QED
          BY <4>1, <4>2
      <3> QED
        BY <2>4, <3>1, <3>2, <3>3, <3>4 DEF IrFound
    <2>5. v[2] # 0 => mid \in v[1] .. v[1] + v[2] - 1
      BY Shrinks
    <2>6. CASE v[2] # 0 /\ key # array[mid] /\ key > array[mid]
      <3> DEFINE u == RightOf(v)
      <3>1. f[v] = f[u]
        BY <2>6, IrRecurs
      <3>2. u \in Windows /\ u[2] < v[2] /\ u[1] = mid + 1 /\ u[1] + u[2] = v[1] + v[2]
        BY <2>6, Shrinks
      <3>3. InWindow(u) \subseteq InWindow(v)
        BY <2>6, SubWindows
      <3> HIDE DEF u
      <3>4. u[1] .. u[1] + u[2] \subseteq v[1] .. v[1] + v[2]
        <4>1. mid \in Nat
          BY <2>1, <2>5, <2>6
        <4> HIDE DEF mid
        <4> QED
          BY <2>1, <2>5, <2>6, <3>2, <4>1
      <3>5. ASSUME Ordered(array, v)
            PROVE  /\ Ordered(array, u)
                   /\ \A i \in InWindow(v) : i \in InWindow(u) \/ (i < u[1] /\ array[i] < key)
        <4>1. /\ Ordered(array, u) /\ array[mid] \in Int
              /\ \A i \in InWindow(v) : /\ array[i] \in Int
                                        /\ i <= mid => array[i] <= array[mid]
                                        /\ i > mid => i \in InWindow(u)
          BY <2>6, <3>5, Parts DEF u
        <4>2. \A i \in InWindow(v) : i \in Int
          BY <2>1 DEF InWindow
        <4>3. mid \in Int
          BY <2>1, <2>5, <2>6
        <4> HIDE DEF mid
        <4> QED
          BY <2>6, <3>2, <4>1, <4>2, <4>3
      <3> QED
        BY <2>4, <2>6, <3>1, <3>2, <3>3, <3>4, <3>5
    <2>7. CASE v[2] # 0 /\ key # array[mid] /\ ~(key > array[mid])
      <3> DEFINE u == LeftOf(v)
      <3>1. f[v] = f[u]
        BY <2>7, IrRecurs
      <3>2. u \in Windows /\ u[2] < v[2] /\ u[1] = v[1] /\ u[1] + u[2] = mid
        BY <2>7, Shrinks
      <3>3. InWindow(u) \subseteq InWindow(v)
        BY <2>7, SubWindows
      <3> HIDE DEF u
      <3>4. u[1] .. u[1] + u[2] \subseteq v[1] .. v[1] + v[2]
        <4>1. mid \in Nat
          BY <2>1, <2>5, <2>7
        <4> HIDE DEF mid
        <4> QED
          BY <2>1, <2>5, <2>7, <3>2, <4>1
      <3>5. ASSUME Ordered(array, v)
            PROVE  /\ Ordered(array, u)
                   /\ \A i \in InWindow(v) : i \in InWindow(u) \/ (i >= u[1] + u[2] /\ array[i] > key)
        <4>1. /\ Ordered(array, u) /\ array[mid] \in Int
              /\ \A i \in InWindow(v) : /\ array[i] \in Int
                                        /\ i >= mid => array[i] >= array[mid]
                                        /\ i < mid => i \in InWindow(u)
          BY <2>7, <3>5, Parts DEF u
        <4>2. \A i \in InWindow(v) : i \in Int
          BY <2>1 DEF InWindow
        <4>3. mid \in Int
          BY <2>1, <2>5, <2>7
        <4> HIDE DEF mid
        <4> QED
          BY <2>7, <3>2, <4>1, <4>2, <4>3
      <3> QED
        BY <2>4, <2>7, <3>1, <3>2, <3>3, <3>4, <3>5
    <2> QED
      BY <2>2, <2>3, <2>6, <2>7
  <1>2. P = Nat
    <2>1. P \in SUBSET Nat
      OBVIOUS
    <2> HIDE DEF P
    <2> QED
      BY <1>1, <2>1, StrongInduction
  <1>3. w[2] \in P
    BY <1>2 DEF Windows
  <1> QED
    BY <1>3

(* The same of the operators that take the arguments of the functions. *)
LEMMA Calls ==
    ASSUME NEW key, NEW array, NEW baseidx \in Nat, NEW num \in Nat
    PROVE  /\ <<baseidx, num>> \in Windows
           /\ InWindow(<<baseidx, num>>) = baseidx .. baseidx + num - 1
           /\ BsearchIr(key, array, baseidx, num) = IrSearch(key, array)[<<baseidx, num>>]
           /\ Bisect(key, array, baseidx, baseidx + num)
                 = BisectSearch(key, array)[<<baseidx, num>>]
  <1>1. (IF baseidx < baseidx + num THEN (baseidx + num) - baseidx ELSE 0) = num
    OBVIOUS
  <1> QED
    BY <1>1 DEF Windows, InWindow, BsearchIr, Bisect
----------------------------------------------------------------------------
(* bsearchpkr_cmp(): its bisection narrows the window to u without losing  *)
(* an item of the prefix, and stops when the midpoint is one.              *)
Narrowed(lokey, hikey, array, w, u) ==
    /\ u \in Windows /\ InWindow(u) \subseteq InWindow(w)
    /\ w[1] <= u[1] /\ u[1] + u[2] <= w[1] + w[2]
    /\ u[2] # 0 => Within(lokey, hikey, array[Mid(u[1], u[2])])
    /\ Ordered(array, w) => \A i \in InWindow(w) :
          Within(lokey, hikey, array[i]) => i \in InWindow(u)

(* The loop ends in such a window.                                         *)
LEMMA PkrNarrows ==
    ASSUME NEW lokey \in Int, NEW hikey \in Int, lokey < hikey, NEW array, NEW w \in Windows
    PROVE  Narrowed(lokey, hikey, array, w, PkrSearch(lokey, hikey, array)[w])
  <1> DEFINE f == PkrSearch(lokey, hikey, array)
             P == {n \in Nat : \A v \in Windows :
                                  v[2] = n => Narrowed(lokey, hikey, array, v, f[v])}
  <1>1. ASSUME NEW n \in Nat, \A m \in 0 .. n - 1 : m \in P
        PROVE  n \in P
    <2> SUFFICES ASSUME NEW v \in Windows, v[2] = n
                 PROVE  Narrowed(lokey, hikey, array, v, f[v])
      OBVIOUS
    <2> DEFINE mid == Mid(v[1], v[2])
    <2>1. v[1] \in Nat /\ v[2] \in Nat
      BY DEF Windows
    <2>2. CASE v[2] = 0 \/ Within(lokey, hikey, array[mid])
      <3>1. f[v] = v
        <4>1. CASE v[2] = 0
          <5>1. RightOf(v)[1] = mid + 1
            BY DEF RightOf
          <5> HIDE DEF mid
          <5> QED
            BY <4>1, <5>1, PkrRecurs
        <4>2. CASE v[2] # 0
          BY <2>2, <4>2, PkrRecurs
        <4> QED
          BY <4>1, <4>2
      <3> HIDE DEF f
      <3> QED
        BY <2>1, <2>2, <3>1 DEF Narrowed
    <2>3. ASSUME v[2] # 0, ~Within(lokey, hikey, array[mid]),
                 NEW u \in Windows, u[2] < v[2], f[v] = f[u],
                 InWindow(u) \subseteq InWindow(v), v[1] <= u[1], u[1] + u[2] <= v[1] + v[2],
                 Ordered(array, v) =>
                    /\ Ordered(array, u)
                    /\ \A i \in InWindow(v) :
                          Within(lokey, hikey, array[i]) => i \in InWindow(u)
          PROVE  Narrowed(lokey, hikey, array, v, f[v])
      <3>1. Narrowed(lokey, hikey, array, u, f[u])
        BY <1>1, <2>1, <2>3 DEF Windows
      <3> HIDE DEF f
      <3>2. /\ f[v] \in Windows /\ InWindow(f[v]) \subseteq InWindow(v)
            /\ f[v][2] # 0 => Within(lokey, hikey, array[Mid(f[v][1], f[v][2])])
        BY <2>3, <3>1 DEF Narrowed
      <3>3. v[1] <= f[v][1] /\ f[v][1] + f[v][2] <= v[1] + v[2]
        <4>1. u[1] <= f[v][1] /\ f[v][1] + f[v][2] <= u[1] + u[2]
          BY <2>3, <3>1 DEF Narrowed
        <4>2. f[v][1] \in Nat /\ f[v][2] \in Nat /\ u[1] \in Nat /\ u[2] \in Nat
          BY <3>2 DEF Windows
        <4> QED
          BY <2>1, <2>3, <4>1, <4>2
      <3>4. Ordered(array, v) => \A i \in InWindow(v) :
               Within(lokey, hikey, array[i]) => i \in InWindow(f[v])
        BY <2>3, <3>1 DEF Narrowed
      <3> QED
        BY <3>2, <3>3, <3>4 DEF Narrowed
    <2>4. v[2] # 0 => mid \in v[1] .. v[1] + v[2] - 1
      BY Shrinks
    <2>5. CASE v[2] # 0 /\ ~Within(lokey, hikey, array[mid]) /\ lokey > array[mid]
      <3> DEFINE u == RightOf(v)
      <3>1. f[v] = f[u]
        BY <2>5, PkrRecurs
      <3>2. u \in Windows /\ u[2] < v[2] /\ u[1] = mid + 1 /\ u[1] + u[2] = v[1] + v[2]
        BY <2>5, Shrinks
      <3>3. InWindow(u) \subseteq InWindow(v)
        BY <2>5, SubWindows
      <3> HIDE DEF u, f
      <3>4. v[1] <= u[1]
        <4> HIDE DEF mid
        <4> QED
          BY <2>1, <2>4, <2>5, <3>2
      <3>5. ASSUME Ordered(array, v)
            PROVE  /\ Ordered(array, u)
                   /\ \A i \in InWindow(v) : Within(lokey, hikey, array[i]) => i \in InWindow(u)
        <4>1. /\ Ordered(array, u) /\ array[mid] \in Int
              /\ \A i \in InWindow(v) : /\ array[i] \in Int
                                        /\ i <= mid => array[i] <= array[mid]
                                        /\ i > mid => i \in InWindow(u)
          BY <2>5, <3>5, Parts DEF u
        <4>2. \A i \in InWindow(v) : i \in Int
          BY <2>1 DEF InWindow
        <4>3. mid \in Int
          BY <2>1, <2>4, <2>5
        <4> HIDE DEF mid
        <4> QED
          BY <2>5, <4>1, <4>2, <4>3 DEF Within
      <3>6. v[2] # 0 /\ ~Within(lokey, hikey, array[mid])
        BY <2>5
      <3>7. u[1] + u[2] <= v[1] + v[2]
        BY <2>1, <3>2
      <3> QED
        BY <2>3, <3>1, <3>2, <3>3, <3>4, <3>5, <3>6, <3>7
    <2>6. CASE v[2] # 0 /\ ~Within(lokey, hikey, array[mid]) /\ ~(lokey > array[mid])
      <3> DEFINE u == LeftOf(v)
      <3>1. f[v] = f[u]
        BY <2>6, PkrRecurs
      <3>2. u \in Windows /\ u[2] < v[2] /\ u[1] = v[1] /\ u[1] + u[2] = mid
        BY <2>6, Shrinks
      <3>3. InWindow(u) \subseteq InWindow(v)
        BY <2>6, SubWindows
      <3> HIDE DEF u, f
      <3>4. v[1] <= u[1] /\ u[1] + u[2] <= v[1] + v[2]
        <4> HIDE DEF mid
        <4> QED
          BY <2>1, <2>4, <2>6, <3>2
      <3>5. ASSUME Ordered(array, v)
            PROVE  /\ Ordered(array, u)
                   /\ \A i \in InWindow(v) : Within(lokey, hikey, array[i]) => i \in InWindow(u)
        <4>1. /\ Ordered(array, u) /\ array[mid] \in Int
              /\ \A i \in InWindow(v) : /\ array[i] \in Int
                                        /\ i >= mid => array[i] >= array[mid]
                                        /\ i < mid => i \in InWindow(u)
          BY <2>6, <3>5, Parts DEF u
        <4>2. \A i \in InWindow(v) : i \in Int
          BY <2>1 DEF InWindow
        <4>3. mid \in Int
          BY <2>1, <2>4, <2>6
        <4> HIDE DEF mid
        <4> QED
          BY <2>6, <4>1, <4>2, <4>3 DEF Within
      <3>6. v[2] # 0 /\ ~Within(lokey, hikey, array[mid])
        BY <2>6
      <3> QED
        BY <2>3, <3>1, <3>2, <3>3, <3>4, <3>5, <3>6
    <2> QED
      BY <2>2, <2>5, <2>6
  <1>2. P = Nat
    <2>1. P \in SUBSET Nat
      OBVIOUS
    <2> HIDE DEF P
    <2> QED
      BY <1>1, <2>1, StrongInduction
  <1>3. w[2] \in P
    BY <1>2 DEF Windows
  <1> QED
    BY <1>3

(* Where its scan down from i ends *)
DownEnds(lokey, hikey, array, b, i, d) ==
    /\ d \in b .. i
    /\ \A k \in d .. i - 1 : Within(lokey, hikey, array[k])
    /\ d > b => ~Within(lokey, hikey, array[d - 1])

(* The lowest index that matching items lead to                            *)
LEMMA DownIsExact ==
    ASSUME NEW lokey, NEW hikey, NEW array, NEW b \in Nat, NEW i \in Nat, b <= i
    PROVE  DownEnds(lokey, hikey, array, b, i, DownFrom(lokey, hikey, array, b)[i])
  <1> DEFINE f == DownFrom(lokey, hikey, array, b)
             Ends(j) == DownEnds(lokey, hikey, array, b, j, f[j])
             P == {j \in Nat : b <= j => Ends(j)}
  <1>1. ASSUME NEW j \in Nat, b <= j, ~(j > b /\ Within(lokey, hikey, array[j - 1]))
        PROVE  Ends(j)
    <2>1. f[j] = j
      BY <1>1, DownRecurs
    <2> HIDE DEF f
    <2> QED
      BY <1>1, <2>1 DEF DownEnds
  <1>2. ASSUME NEW j \in Nat, b <= j, Ends(j) PROVE Ends(j + 1)
    <2>1. CASE ~Within(lokey, hikey, array[(j + 1) - 1])
      <3>1. j + 1 \in Nat /\ b <= j + 1
        BY <1>2
      <3> QED
        BY <1>1, <2>1, <3>1
    <2>2. CASE Within(lokey, hikey, array[(j + 1) - 1])
      <3>1. (j + 1) - 1 = j /\ j + 1 > b /\ j + 1 \in Nat
        BY <1>2
      <3>2. f[j + 1] = f[j]
        BY <2>2, <3>1, DownRecurs
      <3> HIDE DEF f
      <3>3. /\ f[j] \in b .. j
            /\ \A k \in f[j] .. j - 1 : Within(lokey, hikey, array[k])
            /\ f[j] > b => ~Within(lokey, hikey, array[f[j] - 1])
        BY <1>2 DEF DownEnds
      <3>4. ASSUME NEW k \in f[j] .. (j + 1) - 1 PROVE Within(lokey, hikey, array[k])
        <4>1. k \in f[j] .. j - 1 \/ k = j
          BY <3>3
        <4> QED
          BY <2>2, <3>1, <3>3, <4>1
      <3> QED
        BY <3>2, <3>3, <3>4 DEF DownEnds
    <2> QED
      BY <2>1, <2>2
  <1>3. 0 \in P
    BY <1>1
  <1>4. ASSUME NEW j \in Nat, j \in P PROVE j + 1 \in P
    <2>1. CASE b <= j
      BY <1>2, <1>4, <2>1
    <2>2. CASE ~(b <= j)
      <3>1. b <= j + 1 => ~(j + 1 > b)
        BY <2>2
      <3> QED
        BY <1>1, <3>1
    <2> QED
      BY <2>1, <2>2
  <1>5. P \in SUBSET Nat
    OBVIOUS
  <1>6. P = Nat
    <2> HIDE DEF P
    <2> QED
      BY <1>3, <1>4, <1>5, Induction
  <1> QED
    BY <1>6

(* Where its scan up from i ends *)
UpEnds(lokey, hikey, array, top, i, u) ==
    /\ u \in i .. top
    /\ \A k \in i + 1 .. u : Within(lokey, hikey, array[k])
    /\ u < top => ~Within(lokey, hikey, array[u + 1])

(* The highest                                                             *)
LEMMA UpIsExact ==
    ASSUME NEW lokey, NEW hikey, NEW array, NEW top \in Nat, NEW i \in Nat, i <= top
    PROVE  UpEnds(lokey, hikey, array, top, i, UpFrom(lokey, hikey, array, top)[i])
  <1> DEFINE f == UpFrom(lokey, hikey, array, top)
             Ends(j) == UpEnds(lokey, hikey, array, top, j, f[j])
             P == {n \in Nat : \A j \in Nat : j + n = top => Ends(j)}
  <1>1. ASSUME NEW j \in Nat, j <= top, ~(j < top /\ Within(lokey, hikey, array[j + 1]))
        PROVE  Ends(j)
    <2>1. f[j] = j
      BY <1>1, UpRecurs
    <2> HIDE DEF f
    <2> QED
      BY <1>1, <2>1 DEF UpEnds
  <1>2. ASSUME NEW j \in Nat, j < top, Ends(j + 1) PROVE Ends(j)
    <2>1. CASE ~Within(lokey, hikey, array[j + 1])
      BY <1>1, <1>2, <2>1
    <2>2. CASE Within(lokey, hikey, array[j + 1])
      <3>1. f[j] = f[j + 1]
        BY <1>2, <2>2, UpRecurs
      <3> DEFINE u == f[j + 1]
      <3>2. /\ u \in j + 1 .. top
            /\ \A k \in (j + 1) + 1 .. u : Within(lokey, hikey, array[k])
            /\ u < top => ~Within(lokey, hikey, array[u + 1])
        BY <1>2 DEF UpEnds
      <3> HIDE DEF u
      <3>3. ASSUME NEW k \in j + 1 .. u PROVE Within(lokey, hikey, array[k])
        <4>1. k \in (j + 1) + 1 .. u \/ k = j + 1
          BY <3>2
        <4> QED
          BY <2>2, <3>2, <4>1
      <3>4. u \in j .. top
        BY <3>2
      <3>5. f[j] = u
        BY <3>1 DEF u
      <3> HIDE DEF f
      <3> QED
        BY <3>2, <3>3, <3>4, <3>5 DEF UpEnds
    <2> QED
      BY <2>1, <2>2
  <1>3. 0 \in P
    BY <1>1
  <1>4. ASSUME NEW n \in Nat, n \in P PROVE n + 1 \in P
    <2>1. ASSUME NEW j \in Nat, j + (n + 1) = top PROVE Ends(j)
      <3>1. j < top /\ j + 1 \in Nat /\ (j + 1) + n = top
        BY <2>1
      <3>2. Ends(j + 1)
        BY <1>4, <3>1
      <3> QED
        BY <1>2, <3>1, <3>2
    <2> QED
      BY <2>1
  <1>5. P \in SUBSET Nat
    OBVIOUS
  <1>6. P = Nat
    <2> HIDE DEF P
    <2> QED
      BY <1>3, <1>4, <1>5, Induction
  <1>7. top - i \in Nat /\ i + (top - i) = top
    OBVIOUS
  <1> QED
    BY <1>6, <1>7

(* bsearchpkr_cmp() of keys in order returns the range of the items of the *)
(* prefix, and at most the one after its window that follows them.         *)
THEOREM PkrIsExact ==
    ASSUME NEW lokey \in Int, NEW hikey \in Int, lokey < hikey, NEW array,
           NEW baseidx \in Nat, NEW num \in Nat,
           \A i, j \in baseidx .. baseidx + num - 1 :
               array[i] \in Int /\ (i < j => array[i] < array[j])
    PROVE  LET r == BsearchPkr(lokey, hikey, array, baseidx, num)
           IN  /\ \A i \in r.lo .. r.hi :
                     i \in baseidx .. baseidx + num /\ Within(lokey, hikey, array[i])
               /\ \A i \in baseidx .. baseidx + num - 1 :
                     Within(lokey, hikey, array[i]) => i \in r.lo .. r.hi
  <1> DEFINE w == <<baseidx, num>>
             u == PkrSearch(lokey, hikey, array)[w]
             b == u[1]
             n == u[2]
             idx == Mid(b, n)
             top == idx + n \div 2
             down == DownFrom(lokey, hikey, array, b)[idx]
             up == UpFrom(lokey, hikey, array, top)[idx]
             lo == IF array[idx] = lokey THEN idx ELSE down
             hi == IF array[idx] = hikey THEN idx ELSE up
             r == BsearchPkr(lokey, hikey, array, baseidx, num)
             In(i) == Within(lokey, hikey, array[i])
             Window == baseidx .. baseidx + num - 1
  <1>1. w \in Windows /\ InWindow(w) = Window /\ w[1] = baseidx /\ w[2] = num
    BY Calls
  <1>2. Narrowed(lokey, hikey, array, w, u)
    BY <1>1, PkrNarrows
  <1>3. r = IF n = 0 THEN [lo |-> b + 1, hi |-> b] ELSE [lo |-> lo, hi |-> hi]
    BY DEF BsearchPkr
  <1>4. Ordered(array, w)
    <2>1. ASSUME NEW i \in Window, NEW j \in Window
          PROVE  array[i] \in Int /\ (i <= j => array[i] <= array[j])
      <3>1. i \in Int /\ j \in Int /\ array[i] \in Int /\ array[j] \in Int
            /\ (i < j => array[i] < array[j])
        OBVIOUS
      <3> QED
        BY <3>1
    <2> QED
      BY <1>1, <2>1 DEF Ordered
  <1> HIDE DEF u, w, r
  <1>5. /\ b \in Nat /\ n \in Nat /\ baseidx <= b /\ b + n <= baseidx + num
        /\ n # 0 => In(idx)
        /\ \A i \in Window : In(i) => i \in b .. b + n - 1
    <2>1. InWindow(u) = b .. b + n - 1
      BY DEF InWindow
    <2>2. b \in Nat /\ n \in Nat
      BY <1>2 DEF Narrowed, Windows
    <2> QED
      BY <1>1, <1>2, <1>4, <2>1, <2>2 DEF Narrowed
  <1>6. CASE n = 0
    <2>1. r.lo = b + 1 /\ r.hi = b
      BY <1>3, <1>6
    <2> HIDE DEF b, n
    <2>2. r.lo .. r.hi = {}
      BY <1>5, <2>1
    <2>3. \A i \in Window : ~In(i)
      BY <1>5, <1>6
    <2> QED
      BY <2>2, <2>3 DEF r
  <1>7. CASE n # 0
    <2>1. /\ idx \in b .. b + n - 1 /\ idx \in Nat /\ top \in Nat
          /\ idx <= top /\ top <= b + n /\ b + n - 1 <= top
      <3> HIDE DEF b, n
      <3> QED
        BY <1>5, <1>7 DEF Mid
    <2>2. DownEnds(lokey, hikey, array, b, idx, down)
      <3> HIDE DEF b, idx
      <3> QED
        BY <1>5, <2>1, DownIsExact
    <2>3. UpEnds(lokey, hikey, array, top, idx, up)
      <3> HIDE DEF top, idx
      <3> QED
        BY <2>1, UpIsExact
    <2> HIDE DEF b, n, idx, top, down, up
    <2>4. \A i \in b .. b + n - 1 : i \in Window /\ i \in Int /\ array[i] \in Int
      BY <1>5
    <2>5. \A i, j \in b .. b + n - 1 : i < j => array[i] < array[j]
      BY <2>4
    <2>6. In(idx) /\ array[idx] \in Int
      BY <1>5, <1>7, <2>1, <2>4
    <2>7. /\ lo \in b .. idx
          /\ \A k \in lo .. idx - 1 : In(k)
          /\ \A k \in b .. idx : In(k) => k >= lo
      <3>1. CASE array[idx] = lokey
        <4>1. lo = idx
          BY <3>1
        <4> HIDE DEF lo
        <4>2. ASSUME NEW k \in b .. idx, k < idx PROVE ~In(k)
          <5>1. k \in b .. b + n - 1
            BY <1>5, <2>1
          <5>2. array[k] < array[idx] /\ array[k] \in Int
            BY <2>1, <2>4, <2>5, <4>2, <5>1
          <5> QED
            BY <3>1, <5>2 DEF Within
        <4> QED
          BY <1>5, <2>1, <4>1, <4>2
      <3>2. CASE array[idx] # lokey
        <4>1. lo = down
          BY <3>2
        <4> HIDE DEF lo
        <4>2. lo \in b .. idx /\ (\A k \in lo .. idx - 1 : In(k)) /\ (lo > b => ~In(lo - 1))
          BY <2>2, <4>1 DEF DownEnds
        <4>3. ASSUME NEW k \in b .. idx, In(k), k < lo PROVE FALSE
          <5> DEFINE l == lo - 1
          <5>1. l \in b .. b + n - 1 /\ k \in b .. b + n - 1 /\ k <= l /\ l < idx /\ lo > b
            BY <1>5, <2>1, <4>2, <4>3
          <5>2. ~In(l)
            BY <4>2, <5>1
          <5> HIDE DEF l
          <5>3. array[k] <= array[l] /\ array[l] < array[idx]
            <6>1. k < l \/ k = l
              BY <2>4, <5>1
            <6> QED
              BY <2>1, <2>4, <2>5, <5>1, <6>1
          <5> QED
            BY <2>4, <2>6, <4>3, <5>1, <5>2, <5>3 DEF Within
        <4>4. \A k \in b .. idx : In(k) => k >= lo
          BY <1>5, <2>1, <4>2, <4>3
        <4> QED
          BY <4>2, <4>4
      <3> QED
        BY <3>1, <3>2
    <2>8. /\ hi \in idx .. top
          /\ \A k \in idx + 1 .. hi : In(k)
          /\ \A k \in idx .. b + n - 1 : In(k) => k <= hi
      <3>1. CASE array[idx] = hikey
        <4>1. hi = idx
          BY <3>1
        <4> HIDE DEF hi
        <4>2. ASSUME NEW k \in idx .. b + n - 1, idx < k PROVE ~In(k)
          <5>1. k \in b .. b + n - 1
            BY <1>5, <2>1
          <5>2. array[idx] < array[k] /\ array[k] \in Int
            BY <2>1, <2>4, <2>5, <4>2, <5>1
          <5> QED
            BY <3>1, <5>2 DEF Within
        <4> QED
          BY <1>5, <2>1, <4>1, <4>2
      <3>2. CASE array[idx] # hikey
        <4>1. hi = up
          BY <3>2
        <4> HIDE DEF hi
        <4>2. hi \in idx .. top /\ (\A k \in idx + 1 .. hi : In(k)) /\ (hi < top => ~In(hi + 1))
          BY <2>3, <4>1 DEF UpEnds
        <4>3. ASSUME NEW k \in idx .. b + n - 1, In(k), k > hi PROVE FALSE
          <5> DEFINE l == hi + 1
          <5>1. l \in b .. b + n - 1 /\ k \in b .. b + n - 1 /\ l <= k /\ idx < l /\ hi < top
            BY <1>5, <2>1, <4>2, <4>3
          <5>2. ~In(l)
            BY <4>2, <5>1
          <5> HIDE DEF l
          <5>3. array[l] <= array[k] /\ array[idx] < array[l]
            <6>1. l < k \/ k = l
              BY <2>4, <5>1
            <6> QED
              BY <2>1, <2>4, <2>5, <5>1, <6>1
          <5> QED
            BY <2>4, <2>6, <4>3, <5>1, <5>2, <5>3 DEF Within
        <4>4. \A k \in idx .. b + n - 1 : In(k) => k <= hi
          BY <1>5, <2>1, <4>2, <4>3
        <4> QED
          BY <4>2, <4>4
      <3> QED
        BY <3>1, <3>2
    <2>9. r.lo = lo /\ r.hi = hi
      BY <1>3, <1>7
    <2> HIDE DEF lo, hi, In
    <2>10. ASSUME NEW i \in lo .. hi PROVE i \in baseidx .. baseidx + num /\ In(i)
      <3>1. i \in lo .. idx - 1 \/ i = idx \/ i \in idx + 1 .. hi
        BY <2>1, <2>7, <2>8
      <3>2. i \in baseidx .. baseidx + num
        BY <1>5, <2>1, <2>7, <2>8
      <3> QED
        BY <2>6, <2>7, <2>8, <3>1, <3>2
    <2>11. ASSUME NEW i \in Window, In(i) PROVE i \in lo .. hi
      <3>1. i \in b .. b + n - 1
        BY <1>5, <2>11
      <3>2. CASE i <= idx
        <4>1. i \in b .. idx
          BY <1>5, <2>1, <3>1, <3>2
        <4> QED
          BY <1>5, <2>1, <2>7, <2>8, <2>11, <4>1
      <3>3. CASE ~(i <= idx)
        <4>1. i \in idx .. b + n - 1
          BY <1>5, <2>1, <3>1, <3>3
        <4> QED
          BY <1>5, <2>1, <2>7, <2>8, <2>11, <4>1
      <3> QED
        BY <3>2, <3>3
    <2> QED
      BY <2>9, <2>10, <2>11 DEF r, In
  <1> QED
    BY <1>6, <1>7
(* Whatever the items are, and whether a prefix or a whole key is looked   *)
(* for: the range is one of places, and may be empty.                      *)
LEMMA PkrIsRange ==
    ASSUME NEW lokey \in Int, NEW hikey \in Int, NEW array, NEW baseidx \in Nat, NEW num \in Nat
    PROVE  LET r == BsearchPkr(lokey, hikey, array, baseidx, num)
           IN  r.lo \in Nat /\ r.hi \in Nat /\ r.lo <= r.hi + 1
  <1> DEFINE f == PkrSearch(lokey, hikey, array)
             P == {n \in Nat : \A v \in Windows : v[2] = n => f[v] \in Windows}
  <1>1. ASSUME NEW n \in Nat, \A m \in 0 .. n - 1 : m \in P
        PROVE  n \in P
    <2> SUFFICES ASSUME NEW v \in Windows, v[2] = n PROVE f[v] \in Windows
      OBVIOUS
    <2> HIDE DEF P
    <2>1. CASE v[2] = 0
      <3>1. f[v] = v
        <4>1. RightOf(v)[1] = Mid(v[1], v[2]) + 1
          BY DEF RightOf
        <4> QED
          BY <2>1, <4>1, PkrRecurs
      <3> QED
        BY <3>1
    <2>2. CASE v[2] # 0
      <3>1. /\ RightOf(v) \in Windows /\ RightOf(v)[2] < v[2]
            /\ LeftOf(v) \in Windows /\ LeftOf(v)[2] < v[2]
        BY <2>2, Shrinks
      <3>2. RightOf(v)[2] \in 0 .. n - 1 /\ LeftOf(v)[2] \in 0 .. n - 1
        BY <3>1 DEF Windows
      <3>3. f[RightOf(v)] \in Windows /\ f[LeftOf(v)] \in Windows
        BY <1>1, <3>1, <3>2 DEF P
      <3>4. f[v] \in {v, f[RightOf(v)], f[LeftOf(v)]}
        <4> HIDE DEF f
        <4>1. f[v] = v \/ f[v] = f[RightOf(v)] \/ f[v] = f[LeftOf(v)]
          BY <2>2, PkrRecurs DEF f
        <4> QED
          BY <4>1
      <3> HIDE DEF f
      <3> QED
        BY <3>3, <3>4
    <2> QED
      BY <2>1, <2>2
  <1>2. P = Nat
    <2>1. P \in SUBSET Nat
      OBVIOUS
    <2> HIDE DEF P
    <2> QED
      BY <1>1, <2>1, StrongInduction
  <1> DEFINE w == <<baseidx, num>>
             b == f[w][1]
             n == f[w][2]
             idx == Mid(b, n)
             top == idx + n \div 2
             down == DownFrom(lokey, hikey, array, b)[idx]
             up == UpFrom(lokey, hikey, array, top)[idx]
             r == BsearchPkr(lokey, hikey, array, baseidx, num)
  <1>3. b \in Nat /\ n \in Nat
    <2>1. w \in Windows /\ w[2] = num /\ num \in P
      BY <1>2 DEF Windows
    <2>2. f[w] \in Windows
      BY <2>1
    <2> QED
      BY <2>2 DEF Windows
  <1>4. r = IF n = 0 THEN [lo |-> b + 1, hi |-> b]
            ELSE [lo |-> IF array[idx] = lokey THEN idx ELSE down,
                  hi |-> IF array[idx] = hikey THEN idx ELSE up]
    BY DEF BsearchPkr
  <1> HIDE DEF b, n, r
  <1>5. CASE n = 0
    BY <1>3, <1>4, <1>5 DEF r
  <1>6. CASE n # 0
    <2>1. idx \in Nat /\ top \in Nat /\ b <= idx /\ idx <= top
      BY <1>3 DEF Mid
    <2> HIDE DEF idx, top
    <2>2. down \in b .. idx
      BY <1>3, <2>1, DownIsExact DEF DownEnds
    <2>3. up \in idx .. top
      BY <2>1, UpIsExact DEF UpEnds
    <2> HIDE DEF down, up
    <2>4. r.lo \in b .. idx /\ r.hi \in idx .. top
      BY <1>3, <1>4, <1>6, <2>1, <2>2, <2>3
    <2> HIDE DEF r
    <2>5. r.lo \in Nat /\ r.hi \in Nat /\ r.lo <= r.hi + 1
      BY <1>3, <2>1, <2>4
    <2> QED
      BY <2>5 DEF r
  <1> QED
    BY <1>5, <1>6
=============================================================================
