---------------------------- MODULE RingArithmetic ----------------------------
(***************************************************************************)
(* Positions and the cells of a ring.  Both queues use the remainder of a  *)
(* position that only grows as the index of a cell, and the tables probe   *)
(* round their slots; the proofs rest on the facts below, for a ring of    *)
(* any number n of cells.  Then least elements, which stand in for         *)
(* induction, functions that are defined by themselves, and the capacities *)
(* that bit_ceil makes.                                                    *)
(***************************************************************************)
EXTENDS Rounding, WellFoundedInduction, TLAPS

(* Division with remainder is unique.                                      *)
LEMMA Remainder ==
    ASSUME NEW n \in Nat, n > 0, NEW a \in Int, NEW b \in Int,
           NEW r \in 0..n - 1, NEW s \in 0..n - 1, n * a + r = n * b + s
    PROVE  a = b /\ r = s
<1>1. CASE a < b
  <2>1. n * (b - a) >= n
    BY <1>1
  <2> QED
    BY <2>1
<1>2. CASE b < a
  <2>1. n * (a - b) >= n
    BY <1>2
  <2> QED
    BY <2>1
<1> QED
  BY <1>1, <1>2

(* Positions that are less than a lap apart have different cells, and a    *)
(* cell comes round after one lap.                                         *)
LEMMA Laps ==
    ASSUME NEW n \in Nat, n > 1
    PROVE  /\ \A p \in Nat : p % n \in 0..n - 1 /\ (p + n) % n = p % n
           /\ \A i \in 0..n - 1 : i % n = i
           /\ \A p, q \in Nat : p < q /\ q < p + n => p % n # q % n
<1>1. ASSUME NEW p \in Nat
      PROVE  p = n * (p \div n) + (p % n) /\ p \div n \in Int /\ p % n \in 0..n - 1
  OBVIOUS
<1>2. \A i \in 0..n - 1 : i % n = i
  OBVIOUS
<1>3. ASSUME NEW p \in Nat PROVE (p + n) % n = p % n
  <2> DEFINE a == (p \div n) + 1
             b == (p + n) \div n
  <2>1. p + n \in Nat
    OBVIOUS
  <2>2. n * a + (p % n) = n * b + ((p + n) % n)
    BY <1>1, <2>1, SMTT(30)
  <2>3. a \in Int /\ b \in Int /\ p % n \in 0..n - 1 /\ (p + n) % n \in 0..n - 1
    BY <1>1, <2>1
  <2>4. n \in Nat /\ n > 0
    OBVIOUS
  <2> HIDE DEF a, b
  <2> QED
    BY ONLY <2>2, <2>3, <2>4, Remainder
<1>4. ASSUME NEW p \in Nat, NEW q \in Nat, p < q, q < p + n PROVE p % n # q % n
  <2> DEFINE a == p \div n
             b == q \div n
  <2>1. p = n * a + (p % n) /\ q = n * b + (q % n) /\ a \in Int /\ b \in Int
    BY <1>1
  <2> HIDE DEF a, b
  <2>2. SUFFICES ASSUME p % n = q % n PROVE FALSE
    OBVIOUS
  <2>3. q - p = n * (b - a)
    BY <1>1, <2>1, <2>2
  <2>4. CASE b - a >= 1
    <3>1. n * (b - a) >= n
      BY <2>1, <2>4
    <3> QED
      BY <1>4, <2>3, <3>1
  <2>5. CASE b - a <= 0
    <3>1. n * (b - a) <= 0
      BY <2>1, <2>5
    <3> QED
      BY <1>4, <2>3, <3>1
  <2> QED
    BY <2>1, <2>4, <2>5
<1> QED
  BY <1>1, <1>2, <1>3, <1>4

(* Steps round the ring reach every cell.                                  *)
LEMMA RoundTheRing ==
    ASSUME NEW n \in Nat, n > 0, NEW h \in Nat
    PROVE  /\ \A d \in Nat : (h + d) % n \in 0..n - 1
           /\ \A j \in 0..n - 1 : \E d \in 0..n - 1 : (h + d) % n = j
<1>1. ASSUME NEW p \in Nat
      PROVE  p = n * (p \div n) + (p % n) /\ p \div n \in Int /\ p % n \in 0..n - 1
  OBVIOUS
<1>2. ASSUME NEW j \in 0..n - 1 PROVE \E d \in 0..n - 1 : (h + d) % n = j
  <2> DEFINE q == h \div n
             r == h % n
             d == IF r <= j THEN j - r ELSE j + n - r
             a == IF r <= j THEN q ELSE q + 1
             b == (h + d) \div n
             s == (h + d) % n
  <2>1. h = n * q + r /\ q \in Int /\ r \in 0..n - 1
    BY <1>1
  <2> HIDE DEF q, r
  <2>2. d \in 0..n - 1 /\ a \in Int
    BY <2>1
  <2>3. h + d = n * a + j
    <3>1. CASE r <= j
      BY <2>1, <3>1
    <3>2. CASE ~(r <= j)
      <4>1. n * (q + 1) = n * q + n
        BY <2>1
      <4> QED
        BY <2>1, <3>2, <4>1
    <3> QED
      BY <3>1, <3>2
  <2> HIDE DEF d, a
  <2>4. h + d \in Nat
    BY <2>2
  <2>5. h + d = n * b + s /\ b \in Int /\ s \in 0..n - 1
    BY <1>1, <2>4
  <2> HIDE DEF b, s
  <2>6. n * a + j = n * b + s
    BY <2>3, <2>5
  <2>7. a \in Int /\ b \in Int /\ j \in 0..n - 1 /\ s \in 0..n - 1
    BY <2>2, <2>5
  <2>8. n \in Nat /\ n > 0
    OBVIOUS
  <2>9. j = s
    BY ONLY <2>6, <2>7, <2>8, Remainder, SMTT(60)
  <2> QED
    BY <2>2, <2>9 DEF s
<1>3. \A d \in Nat : (h + d) % n \in 0..n - 1
  BY <1>1
<1> QED
  BY <1>2, <1>3

(* A set of natural numbers that is not empty has a least element, which   *)
(* is what proofs by induction come to here.                               *)
LEMMA LeastNumber ==
    ASSUME NEW S, S \subseteq Nat, S # {}
    PROVE  \E x \in S : \A y \in S : x <= y
<1> DEFINE R == {ss \in Nat \X Nat : ss[1] < ss[2]}
<1>1. IsWellFoundedOn(R, Nat)
  BY NatLessThanWellFounded DEF OpToRel
<1>2. PICK x \in S : \A y \in S : <<y, x>> \notin R
  <2> HIDE DEF R
  <2> QED
    BY <1>1, WFMin
<1>3. \A y \in S : ~(y < x)
  BY <1>2
<1> QED
  BY <1>3

-----------------------------------------------------------------------------
(***************************************************************************)
(* Functions that are defined by themselves.                               *)
(***************************************************************************)
(* What holds at an argument when it holds at all those of lower rank      *)
(* holds everywhere.                                                       *)
LEMMA RankInduction ==
    ASSUME NEW D, NEW rank \in [D -> Nat], NEW G,
           \A x \in D : (\A y \in D : rank[y] < rank[x] => y \in G) => x \in G
    PROVE  D \subseteq G
<1> DEFINE S == {r \in Nat : \E x \in D : rank[x] = r /\ x \notin G}
<1> SUFFICES ASSUME S # {} PROVE FALSE
  OBVIOUS
<1>1. PICK r \in S : \A q \in S : r <= q
  <2>1. S \subseteq Nat
    OBVIOUS
  <2> HIDE DEF S
  <2> QED
    BY <2>1, LeastNumber
<1>2. PICK x \in D : rank[x] = r /\ x \notin G
  BY <1>1
<1>3. ASSUME NEW y \in D, rank[y] < rank[x] PROVE y \in G
  <2>1. rank[y] \in Nat /\ rank[x] \in Nat
    OBVIOUS
  <2> QED
    BY <1>1, <1>2, <1>3, <2>1
<1> QED
  BY <1>2, <1>3

(* One that makes its value of the one at an argument of lower rank, and   *)
(* the arguments below a rank.                                             *)
Below(D, rank, n) == {x \in D : rank[x] < n}
Turns(f, D, go, succ, step, value) ==
    f = [x \in D |-> IF go[x] THEN step[<<x, f[succ[x]]>>] ELSE value[x]]

(* There is one.                                                           *)
LEMMA TurnsExist ==
    ASSUME NEW D, NEW V, NEW rank \in [D -> Nat], NEW go, NEW succ, NEW step, NEW value,
           \A x \in D : go[x] => /\ succ[x] \in D /\ rank[succ[x]] < rank[x]
                               /\ \A v \in V : step[<<x, v>>] \in V,
           \A x \in D : ~go[x] => value[x] \in V
    PROVE  \E f \in [D -> V] : Turns(f, D, go, succ, step, value)
<1> DEFINE B(n) == Below(D, rank, n)
           L(f, n) == Turns(f, B(n), go, succ, step, value)
<1>1. \A n : \A x : x \in B(n) <=> x \in D /\ rank[x] < n
  BY DEF Below
<1>2. \A n \in Nat : \A x \in B(n) : go[x] => succ[x] \in B(n)
  BY <1>1
<1>3. \A n : \A f : L(f, n) => \A x \in B(n) : f[x] = IF go[x] THEN step[<<x, f[succ[x]]>>] ELSE value[x]
  BY DEF Turns
<1> HIDE DEF B
<1>4. ASSUME NEW m \in Nat, NEW n \in Nat, NEW f, NEW g, L(f, m), L(g, n), m <= n
      PROVE  \A x \in B(m) : f[x] = g[x]
  <2> DEFINE S == {r \in Nat : \E x \in B(m) : rank[x] = r /\ f[x] # g[x]}
  <2>1. S = {}
    <3> SUFFICES ASSUME S # {} PROVE FALSE
      OBVIOUS
    <3>1. PICK r \in S : \A q \in S : r <= q
      <4>1. S \subseteq Nat
        OBVIOUS
      <4> HIDE DEF S
      <4> QED
        BY <4>1, LeastNumber
    <3>2. PICK x \in B(m) : rank[x] = r /\ f[x] # g[x]
      BY <3>1
    <3>3. x \in D /\ x \in B(n) /\ rank[x] \in Nat
      BY <1>1, <1>4, <3>2
    <3>a. /\ f[x] = IF go[x] THEN step[<<x, f[succ[x]]>>] ELSE value[x]
          /\ g[x] = IF go[x] THEN step[<<x, g[succ[x]]>>] ELSE value[x]
      BY <1>3, <1>4, <3>2, <3>3
    <3>4. go[x]
      BY ONLY <3>2, <3>a
    <3>5. succ[x] \in B(m) /\ succ[x] \in D /\ rank[succ[x]] < rank[x] /\ rank[succ[x]] \in Nat
      BY <1>2, <3>2, <3>3, <3>4
    <3>6. f[succ[x]] = g[succ[x]]
      BY <3>1, <3>2, <3>3, <3>5
    <3>7. f[x] = step[<<x, f[succ[x]]>>] /\ g[x] = step[<<x, g[succ[x]]>>]
      BY <3>4, <3>a
    <3> QED
      BY <3>2, <3>6, <3>7
  <2> QED
    <3>1. ASSUME NEW x \in B(m) PROVE rank[x] \in Nat
      BY <1>1
    <3> QED
      BY <2>1, <3>1
<1>5. ASSUME NEW n \in Nat, n = 0 \/ \E f : L(f, n - 1)
      PROVE  \E f : L(f, n)
  <2>1. CASE n = 0
    <3>1. B(0) = {}
      BY <1>1
    <3>2. L([x \in {} |-> 0], 0)
      BY <3>1 DEF Turns
    <3> QED
      BY <2>1, <3>2
  <2>2. CASE n # 0
    <3>1. PICK f : L(f, n - 1)
      BY <1>5, <2>2
    <3> DEFINE g == [x \in B(n) |-> IF go[x] THEN step[<<x, f[succ[x]]>>] ELSE value[x]]
    <3>2. ASSUME NEW x \in B(n), go[x] PROVE succ[x] \in B(n - 1) /\ succ[x] \in B(n)
      BY <1>1, <1>2, <2>2, <3>2
    <3>3. ASSUME NEW x \in B(n - 1) PROVE g[x] = f[x]
      <4>1. x \in B(n)
        BY <1>1
      <4> QED
        BY <1>3, <3>1, <4>1
    <3>4. ASSUME NEW x \in B(n) PROVE g[x] = IF go[x] THEN step[<<x, g[succ[x]]>>] ELSE value[x]
      <4>1. g[x] = IF go[x] THEN step[<<x, f[succ[x]]>>] ELSE value[x]
        OBVIOUS
      <4>2. go[x] => g[succ[x]] = f[succ[x]]
        BY <3>2, <3>3
      <4> QED
        BY <4>1, <4>2
    <3>5. g = [x \in B(n) |-> IF go[x] THEN step[<<x, g[succ[x]]>>] ELSE value[x]]
      <4>1. g = [x \in B(n) |-> g[x]]
        OBVIOUS
      <4> HIDE DEF g
      <4> QED
        BY <3>4, <4>1
    <3> HIDE DEF g
    <3>6. L(g, n)
      BY <3>5 DEF Turns
    <3> QED
      BY <3>6
  <2> QED
    BY <2>1, <2>2
<1> HIDE DEF L
<1>6. \A n \in Nat : \E f : L(f, n)
  <2> DEFINE S == {n \in Nat : ~ \E f : L(f, n)}
  <2> SUFFICES ASSUME S # {} PROVE FALSE
    OBVIOUS
  <2>1. PICK n \in S : \A m \in S : n <= m
    <3>1. S \subseteq Nat
      OBVIOUS
    <3> HIDE DEF S
    <3> QED
      BY <3>1, LeastNumber
  <2>2. n \in Nat /\ (n # 0 => n - 1 \in Nat /\ n - 1 \notin S)
    BY <2>1
  <2>3. n # 0 => \E f : L(f, n - 1)
    BY <2>2
  <2> QED
    BY <1>5, <2>1, <2>2, <2>3
<1> DEFINE F(n) == CHOOSE f : L(f, n)
           g == [x \in D |-> F(rank[x] + 1)[x]]
<1>7. \A n \in Nat : L(F(n), n)
  BY <1>6
<1> HIDE DEF F
<1>8. ASSUME NEW x \in D PROVE g[x] = IF go[x] THEN step[<<x, g[succ[x]]>>] ELSE value[x]
  <2> DEFINE n == rank[x] + 1
  <2>1. n \in Nat /\ x \in B(n) /\ g[x] = F(n)[x]
    BY <1>1
  <2>2. g[x] = IF go[x] THEN step[<<x, F(n)[succ[x]]>>] ELSE value[x]
    BY <1>3, <1>7, <2>1 DEF L
  <2>3. ASSUME go[x] PROVE F(n)[succ[x]] = g[succ[x]]
    <3> DEFINE m == rank[succ[x]] + 1
    <3>1. m \in Nat /\ m <= n /\ succ[x] \in D /\ succ[x] \in B(m)
      BY <1>1, <2>3
    <3>2. g[succ[x]] = F(m)[succ[x]]
      BY <3>1
    <3> HIDE DEF m, n, g
    <3> QED
      BY <1>4, <1>7, <2>1, <3>1, <3>2
  <2> HIDE DEF g, n
  <2> QED
    BY <2>2, <2>3
<1>9. g = [x \in D |-> IF go[x] THEN step[<<x, g[succ[x]]>>] ELSE value[x]]
  <2>1. g = [x \in D |-> g[x]]
    OBVIOUS
  <2> HIDE DEF g
  <2> QED
    BY <1>8, <2>1
<1> HIDE DEF g
<1> DEFINE G == {x \in D : g[x] \in V}
<1>10. ASSUME NEW x \in D, \A y \in D : rank[y] < rank[x] => y \in G
       PROVE  x \in G
  BY <1>8, <1>10
<1>11. D \subseteq G
  <2> HIDE DEF G
  <2> QED
    BY <1>10, RankInduction
<1>12. g \in [D -> V]
  BY <1>9, <1>11
<1> QED
  BY <1>9, <1>12 DEF Turns

(* One that goes on to its value at an argument of lower rank, as a loop   *)
(* goes round, is a case of it.                                            *)
Loops(f, D, go, succ, value) == f = [x \in D |-> IF go[x] THEN f[succ[x]] ELSE value[x]]

(* There is one.                                                           *)
LEMMA LoopExists ==
    ASSUME NEW D, NEW rank \in [D -> Nat], NEW go, NEW succ, NEW value,
           \A x \in D : go[x] => succ[x] \in D /\ rank[succ[x]] < rank[x]
    PROVE  \E f : Loops(f, D, go, succ, value)
<1> DEFINE V == {value[x] : x \in D}
           step == [p \in D \X V |-> p[2]]
<1>1. \A x \in D : \A v \in V : step[<<x, v>>] = v
  OBVIOUS
<1>2. \A x \in D : value[x] \in V
  OBVIOUS
<1> HIDE DEF V, step
<1>3. PICK f \in [D -> V] : Turns(f, D, go, succ, step, value)
  <2>1. \A x \in D : go[x] => /\ succ[x] \in D /\ rank[succ[x]] < rank[x]
                            /\ \A v \in V : step[<<x, v>>] \in V
    BY <1>1
  <2>2. \A x \in D : ~go[x] => value[x] \in V
    BY <1>2
  <2>3. rank \in [D -> Nat]
    OBVIOUS
  <2> QED
    BY ONLY <2>1, <2>2, <2>3, TurnsExist
<1>4. \A x \in D : (IF go[x] THEN step[<<x, f[succ[x]]>>] ELSE value[x])
                  = IF go[x] THEN f[succ[x]] ELSE value[x]
  BY <1>1
<1> QED
  BY <1>3, <1>4, ZenonT(30) DEF Turns, Loops


(* A sequence of values, each made of the one before.                      *)
Iterates(f, n, v, step) == f = [i \in 0 .. n |-> IF i = 0 THEN v ELSE step[i][f[i - 1]]]

(* There is one.                                                           *)
LEMMA StepsExist ==
    ASSUME NEW S, NEW v \in S, NEW n \in Nat, NEW step \in [1 .. n -> [S -> S]]
    PROVE  \E f \in [0 .. n -> S] : Iterates(f, n, v, step)
<1> DEFINE Made(f, m) == /\ f \in [0 .. m -> S]
                         /\ f[0] = v
                         /\ \A i \in 1 .. m : f[i] = step[i][f[i - 1]]
           Missing == {m \in Nat : m <= n /\ ~ \E f : Made(f, m)}
<1>1. Missing = {}
  <2> SUFFICES ASSUME Missing # {} PROVE FALSE
    OBVIOUS
  <2>1. PICK m \in Missing : \A k \in Missing : m <= k
    <3>1. Missing \subseteq Nat
      OBVIOUS
    <3> HIDE DEF Missing
    <3> QED
      BY <3>1, LeastNumber
  <2>2. m \in Nat /\ m <= n /\ ~ \E f : Made(f, m)
    BY <2>1
  <2>3. CASE m = 0
    <3>1. Made([i \in 0 .. 0 |-> v], 0)
      OBVIOUS
    <3> QED
      BY <2>2, <2>3, <3>1
  <2>4. CASE m # 0
    <3>1. m - 1 \in Nat /\ m - 1 < m /\ m - 1 <= n
      BY <2>2, <2>4
    <3>a. m - 1 \notin Missing
      <4> HIDE DEF Missing
      <4> QED
        BY <2>1, <2>2, <3>1
    <3>2. PICK f : Made(f, m - 1)
      BY <3>1, <3>a
    <3> DEFINE g == [i \in 0 .. m |-> IF i = m THEN step[m][f[m - 1]] ELSE f[i]]
    <3>3. step[m] \in [S -> S] /\ f[m - 1] \in S /\ step[m][f[m - 1]] \in S
      BY <2>2, <2>4, <3>1, <3>2
    <3>4. g \in [0 .. m -> S] /\ g[0] = v
      <4>1. ASSUME NEW i \in 0 .. m PROVE g[i] \in S
        BY <2>2, <3>2, <3>3
      <4>2. g[0] = v
        BY <2>2, <2>4, <3>2
      <4> QED
        BY <4>1, <4>2
    <3>5. ASSUME NEW i \in 1 .. m PROVE g[i] = step[i][g[i - 1]]
      <4>1. CASE i = m
        BY <2>2, <4>1
      <4>2. CASE i # m
        BY <2>2, <3>2, <4>2
      <4> QED
        BY <4>1, <4>2
    <3> HIDE DEF g
    <3> QED
      BY <2>2, <3>4, <3>5
  <2> QED
    BY <2>3, <2>4
<1>2. PICK f : Made(f, n)
  BY <1>1, SMTT(30)
<1>3. ASSUME NEW i \in 0 .. n PROVE f[i] = IF i = 0 THEN v ELSE step[i][f[i - 1]]
  BY <1>2
<1>4. f = [i \in 0 .. n |-> f[i]]
  BY <1>2
<1>5. f = [i \in 0 .. n |-> IF i = 0 THEN v ELSE step[i][f[i - 1]]]
  BY <1>3, <1>4
<1> QED
  BY <1>2, <1>5 DEF Iterates

-----------------------------------------------------------------------------
(* A function that does what bitCeil should up to a number.                *)
Half(n) == (n + 1) \div 2
Rounds(g, n) == g \in [0 .. n -> Nat] /\ \A k \in 0 .. n : g[k] = IF k <= 1 THEN 1 ELSE 2 * g[Half(k)]

(* There is one for every number, and they agree.                          *)
LEMMA RoundingExists ==
    /\ \A n \in Nat : \E g : Rounds(g, n)
    /\ \A m, n \in Nat : \A g, h : Rounds(g, m) /\ Rounds(h, n) /\ m <= n => g[m] = h[m]
<1>1. \A k \in Nat : k > 1 => Half(k) \in Nat /\ Half(k) < k
  BY DEF Half
<1>2. ASSUME NEW n \in Nat, \A k \in 0 .. n - 1 : \E g : Rounds(g, k)
      PROVE  \E g : Rounds(g, n)
  <2>1. CASE n = 0
    <3>1. Rounds([k \in 0 .. n |-> 1], n)
      BY <2>1 DEF Rounds
    <3> QED
      BY <3>1
  <2>2. CASE n > 0
    <3>1. PICK h : Rounds(h, n - 1)
      BY <1>2, <2>2
    <3> DEFINE g == [k \in 0 .. n |-> IF k <= 1 THEN 1 ELSE 2 * h[Half(k)]]
    <3>2. \A k \in 0 .. n : k > 1 => Half(k) \in 0 .. n - 1
      BY <1>1
    <3>3. \A k \in 0 .. n : g[k] \in Nat
      BY <3>1, <3>2 DEF Rounds
    <3>4. ASSUME NEW k \in 0 .. n - 1 PROVE g[k] = h[k]
      <4>1. k \in 0 .. n
        OBVIOUS
      <4> QED
        BY <3>1, <4>1 DEF Rounds
    <3>5. \A k \in 0 .. n : k > 1 => g[Half(k)] = h[Half(k)]
      BY <3>2, <3>4
    <3>6. ASSUME NEW k \in 0 .. n PROVE g[k] = IF k <= 1 THEN 1 ELSE 2 * g[Half(k)]
      <4>1. g[k] = IF k <= 1 THEN 1 ELSE 2 * h[Half(k)]
        OBVIOUS
      <4> HIDE DEF g
      <4> QED
        BY <3>5, <4>1
    <3>7. g \in [0 .. n -> Nat]
      BY <3>3
    <3> HIDE DEF g
    <3> QED
      BY <3>6, <3>7 DEF Rounds
  <2> QED
    BY <2>1, <2>2
<1>3. \A n \in Nat : \E g : Rounds(g, n)
  <2> DEFINE S == {n \in Nat : ~ \E g : Rounds(g, n)}
  <2> SUFFICES ASSUME S # {} PROVE FALSE
    OBVIOUS
  <2>1. PICK n \in S : \A k \in S : n <= k
    <3>1. S \subseteq Nat
      OBVIOUS
    <3> HIDE DEF S
    <3> QED
      BY <3>1, LeastNumber
  <2>2. n \in Nat /\ \A k \in 0 .. n - 1 : k \notin S
    BY <2>1
  <2>3. \A k \in 0 .. n - 1 : \E g : Rounds(g, k)
    BY <2>2
  <2> QED
    BY <1>2, <2>1, <2>2, <2>3
<1>4. ASSUME NEW m \in Nat, NEW n \in Nat, NEW g, NEW h, Rounds(g, m), Rounds(h, n), m <= n
      PROVE  g[m] = h[m]
  <2> DEFINE S == {k \in 0 .. m : g[k] # h[k]}
  <2> SUFFICES ASSUME S # {} PROVE FALSE
    OBVIOUS
  <2>1. PICK k \in S : \A i \in S : k <= i
    <3>1. S \subseteq Nat
      OBVIOUS
    <3> HIDE DEF S
    <3> QED
      BY <3>1, LeastNumber
  <2>2. k \in 0 .. m /\ k \in 0 .. n /\ g[k] # h[k]
    BY <1>4, <2>1
  <2>3. k > 1 => Half(k) \in 0 .. m /\ Half(k) \notin S
    BY <1>1, <2>1
  <2>4. k > 1 => g[Half(k)] = h[Half(k)]
    BY <2>3
  <2> QED
    BY <1>4, <2>2, <2>4, SMTT(30) DEF Rounds
<1> QED
  BY <1>3, <1>4

(* What bit_ceil returns is not below its argument.                        *)
LEMMA BitCeil ==
    \A n \in Nat : /\ bitCeil[n] = IF n <= 1 THEN 1 ELSE 2 * bitCeil[Half(n)]
                   /\ bitCeil[n] \in Nat /\ bitCeil[n] > 0 /\ bitCeil[n] >= n
<1> DEFINE G(n) == CHOOSE g : Rounds(g, n)
           f == [n \in Nat |-> G(n)[n]]
<1>1. \A n \in Nat : Rounds(G(n), n)
  BY RoundingExists
<1> HIDE DEF G
<1>2. ASSUME NEW n \in Nat PROVE f[n] = IF n <= 1 THEN 1 ELSE 2 * f[Half(n)]
  <2>1. n \in 0 .. n /\ f[n] = IF n <= 1 THEN 1 ELSE 2 * G(n)[Half(n)]
    BY <1>1 DEF Rounds
  <2>2. CASE n > 1
    <3>1. Half(n) \in Nat /\ Half(n) <= n
      BY <2>2 DEF Half
    <3>2. G(Half(n))[Half(n)] = G(n)[Half(n)]
      BY <1>1, <3>1, RoundingExists
    <3> QED
      BY <2>1, <2>2, <3>1, <3>2
  <2> QED
    BY <2>1, <2>2
<1>3. f = [n \in Nat |-> IF n <= 1 THEN 1 ELSE 2 * f[(n + 1) \div 2]]
  BY <1>2 DEF Half
<1> HIDE DEF f
<1>4. bitCeil = [n \in Nat |-> IF n <= 1 THEN 1 ELSE 2 * bitCeil[(n + 1) \div 2]]
  BY <1>3 DEF bitCeil
<1>5. \A n \in Nat : bitCeil[n] = IF n <= 1 THEN 1 ELSE 2 * bitCeil[Half(n)]
  BY <1>4 DEF Half
<1>6. ASSUME NEW n \in Nat, \A k \in 0 .. n - 1 : bitCeil[k] \in Nat /\ bitCeil[k] > 0 /\ bitCeil[k] >= k
      PROVE  bitCeil[n] \in Nat /\ bitCeil[n] > 0 /\ bitCeil[n] >= n
  <2>1. CASE n <= 1
    BY <1>5, <2>1
  <2>2. CASE n > 1
    <3>1. Half(n) \in 0 .. n - 1 /\ 2 * Half(n) >= n
      BY <2>2 DEF Half
    <3>2. bitCeil[n] = 2 * bitCeil[Half(n)]
      BY <1>5, <2>2
    <3> QED
      BY <1>6, <3>1, <3>2
  <2> QED
    BY <2>1, <2>2
<1>7. ASSUME NEW n \in Nat PROVE bitCeil[n] \in Nat /\ bitCeil[n] > 0 /\ bitCeil[n] >= n
  <2> DEFINE S == {k \in Nat : ~(bitCeil[k] \in Nat /\ bitCeil[k] > 0 /\ bitCeil[k] >= k)}
  <2> SUFFICES ASSUME S # {} PROVE FALSE
    OBVIOUS
  <2>1. PICK m \in S : \A k \in S : m <= k
    <3>1. S \subseteq Nat
      OBVIOUS
    <3> HIDE DEF S
    <3> QED
      BY <3>1, LeastNumber
  <2>2. m \in Nat /\ \A k \in 0 .. m - 1 : k \notin S
    BY <2>1
  <2> QED
    BY <1>6, <2>1, <2>2
<1> QED
  BY <1>5, <1>7
=============================================================================
