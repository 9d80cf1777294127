----------------------------- MODULE ArithLemmas -----------------------------
(***************************************************************************)
(* Facts about division with remainder by a divisor that is a parameter,   *)
(* for the proofs about wrapping counters, machine words and the division  *)
(* of a batch; and about numbers that count the steps of a loop, for the   *)
(* functions that say what the loop computes.                              *)
(***************************************************************************)
EXTENDS Integers, WellFoundedInduction, TLAPS

(* The quotient and the remainder put the dividend together again.         *)
LEMMA DivMod ==
  ASSUME NEW m \in Nat \ {0}, NEW x \in Nat
  PROVE  x \div m \in Nat /\ x % m \in 0 .. m-1 /\ x = m * (x \div m) + (x % m)
OBVIOUS

(* Division and remainder of m * q + r.                                    *)
LEMMA QuotRem ==
  ASSUME NEW m \in Nat \ {0}, NEW q \in Nat, NEW r \in 0 .. m-1
  PROVE  (m * q + r) % m = r /\ (m * q + r) \div m = q
OBVIOUS

(* A number below m * n has a quotient below n.                            *)
LEMMA QuotBound ==
  ASSUME NEW m \in Nat \ {0}, NEW n \in Nat, NEW x \in 0 .. m * n - 1
  PROVE  x \div m \in 0 .. n-1
<1> DEFINE q == x \div m
           r == x % m
<1>1. q \in Nat /\ r \in 0 .. m-1 /\ x = m * q + r
  <2>1. x \in Nat
    OBVIOUS
  <2> QED BY <2>1, DivMod
<1>2. m * n \in Nat /\ x < m * n
  OBVIOUS
<1>3. ASSUME q >= n PROVE FALSE
  <2>1. PICK k \in Nat : q = n + k
    <3>1. q - n \in Nat /\ q = n + (q - n)
      BY <1>1, <1>3
    <3> QED BY <3>1
  <2>2. m * k \in Nat /\ m * q = m * n + m * k
    BY <2>1
  <2> QED BY <2>2, <1>1, <1>2
<1> QED BY <1>1, <1>3

(* A product of factors below their bounds is below the product.           *)
LEMMA ProductBound ==
  ASSUME NEW m \in Nat \ {0}, NEW n \in Nat \ {0}, NEW x \in 0 .. m-1, NEW y \in 0 .. n-1
  PROVE  x * n + y \in 0 .. m * n - 1
<1>1. x * n <= (m - 1) * n
  OBVIOUS
<1>2. (m - 1) * n = m * n - n
  OBVIOUS
<1>3. x * n \in Nat /\ m * n \in Nat
  OBVIOUS
<1> QED BY <1>1, <1>2, <1>3

(* Multiples of the modulus do not show.                                   *)
LEMMA ModShift ==
  ASSUME NEW m \in Nat \ {0}, NEW q \in Nat, NEW x \in Nat
  PROVE  (m * q + x) % m = x % m
<1> DEFINE h == x \div m
           l == x % m
<1>1. h \in Nat /\ l \in 0 .. m-1 /\ x = m * h + l
  BY DivMod
<1>2. m * q + x = m * (q + h) + l
  BY <1>1
<1>3. (m * (q + h) + l) % m = l
  <2>1. q + h \in Nat
    BY <1>1
  <2> HIDE DEF h, l
  <2> QED BY <2>1, <1>1, QuotRem
<1> QED BY <1>2, <1>3

(* A sum with a remainder.                                                 *)
LEMMA ModAdd ==
  ASSUME NEW m \in Nat \ {0}, NEW x \in Nat, NEW y \in Nat
  PROVE  ((x % m) + y) % m = (x + y) % m
<1> DEFINE h == x \div m
           l == x % m
<1>1. h \in Nat /\ l \in 0 .. m-1 /\ x = m * h + l
  BY DivMod
<1>2. x + y = m * h + (l + y)
  BY <1>1
<1>3. (m * h + (l + y)) % m = (l + y) % m
  <2>1. l + y \in Nat
    BY <1>1
  <2> HIDE DEF h, l
  <2> QED BY <2>1, <1>1, ModShift
<1> QED BY <1>2, <1>3

(* A counter kept modulo m by wrapping_add stays the remainder of the      *)
(* number of times it was incremented.                                     *)
LEMMA ModSucc ==
  ASSUME NEW m \in Nat \ {0}, NEW k \in Nat
  PROVE  ((k % m) + 1) % m = (k + 1) % m
BY ModAdd

(* A product of remainders.                                                *)
LEMMA ModMul ==
  ASSUME NEW m \in Nat \ {0}, NEW x \in Nat, NEW y \in Nat
  PROVE  ((x % m) * y) % m = (x * y) % m
<1> DEFINE h == x \div m
           l == x % m
<1>1. h \in Nat /\ l \in 0 .. m-1 /\ x = m * h + l
  BY DivMod
<1>2. x * y = m * (h * y) + l * y
  BY <1>1
<1>3. h * y \in Nat /\ l * y \in Nat
  BY <1>1
<1>4. (m * (h * y) + l * y) % m = (l * y) % m
  BY <1>3, ModShift
<1> QED BY <1>2, <1>4

(* A product by p loses, modulo q * p, what x has beyond q.                *)
LEMMA ShiftLeft ==
  ASSUME NEW p \in Nat \ {0}, NEW q \in Nat \ {0}, NEW x \in Nat
  PROVE  /\ (x * p) % (q * p) = (x % q) * p
         /\ (x % q) * p \in Nat /\ ((x % q) * p) % p = 0
         /\ \A y \in 0 .. p-1 : (x % q) * p + y \in 0 .. q * p - 1
<1> DEFINE h == x \div q
           l == x % q
           m == q * p
           s == l * p
<1>1. h \in Nat /\ l \in 0 .. q-1 /\ x = q * h + l
  BY DivMod
<1>2. m \in Nat \ {0}
  OBVIOUS
<1>3. \A y \in 0 .. p-1 : s + y \in 0 .. m-1
  BY <1>1, ProductBound
<1>4. s \in 0 .. m-1
  <2>1. 0 \in 0 .. p-1
    OBVIOUS
  <2>2. s \in Nat
    BY <1>1
  <2> QED BY <2>1, <2>2, <1>3
<1>5. x * p = m * h + s
  BY <1>1
<1>6. (m * h + s) % m = s
  <2> HIDE DEF m, s, h
  <2> QED BY <1>1, <1>2, <1>4, QuotRem
<1>7. s % p = 0
  <2>1. l \in Nat /\ 0 \in 0 .. p-1 /\ s = p * l + 0
    BY <1>1
  <2> HIDE DEF s, l
  <2> QED BY <2>1, QuotRem
<1> QED BY <1>3, <1>4, <1>5, <1>6, <1>7

-----------------------------------------------------------------------------
(* Loops.                                                                  *)

(* A set that has 0 and with every number the next has all of them.        *)
LEMMA Induction ==
  ASSUME NEW S, 0 \in S, \A n \in Nat : n \in S => n + 1 \in S
  PROVE  Nat \subseteq S
<1> SUFFICES ASSUME NEW m \in Nat, m \notin S
             PROVE  FALSE
  OBVIOUS
<1> DEFINE T == {n \in Nat : n \notin S}
<1>1. T # {} /\ T \subseteq Nat
  OBVIOUS
<1>2. PICK x \in T : \A y \in T : ~ (<<y, x>> \in OpToRel(<, Nat))
  BY <1>1, WFMin, NatLessThanWellFounded
<1>3. \A y \in T : ~ (y < x)
  BY <1>1, <1>2 DEF OpToRel
<1>4. x - 1 \in Nat /\ x - 1 \in S
  BY <1>3
<1> QED BY <1>4

(* A set of natural numbers has a least.                                   *)
LEMMA Least ==
  ASSUME NEW S, S # {}, S \subseteq Nat
  PROVE  \E x \in S : \A y \in S : x <= y
<1>1. PICK x \in S : \A y \in S : ~ (<<y, x>> \in OpToRel(<, Nat))
  BY WFMin, NatLessThanWellFounded
<1>2. \A y \in S : ~ (y < x)
  BY <1>1 DEF OpToRel
<1> QED BY <1>2

(* What a step of a loop is, and what it computes in n steps.              *)
IsStep(step, S, n) == step \in [S \X (1 .. n) -> S]

IsLoop(g, S, first, n, step) ==
  /\ g \in [0 .. n -> S]
  /\ g[0] = first /\ \A j \in 1 .. n : g[j] = step[<<g[j-1], j>>]

(* A loop of n steps from a first value computes a value after each.       *)
LEMMA LoopExists ==
  ASSUME NEW S, NEW first \in S, NEW n \in Nat, NEW step, IsStep(step, S, n)
  PROVE  \E g : IsLoop(g, S, first, n, step)
<1> USE DEF IsStep, IsLoop
<1> DEFINE Runs(g, k) == g[0] = first /\ \A j \in 1 .. k : g[j] = step[<<g[j-1], j>>]
           T == {k \in Nat : k <= n => \E g \in [0 .. k -> S] : Runs(g, k)}
<1>1. 0 \in T
  <2> DEFINE g == [j \in 0 .. 0 |-> first]
  <2>1. g \in [0 .. 0 -> S] /\ Runs(g, 0)
    OBVIOUS
  <2> QED BY <2>1
<1>2. ASSUME NEW k \in Nat, k \in T
      PROVE  k + 1 \in T
  <2> SUFFICES ASSUME k + 1 <= n
               PROVE  \E g \in [0 .. k + 1 -> S] : Runs(g, k + 1)
    OBVIOUS
  <2>1. PICK g \in [0 .. k -> S] : Runs(g, k)
    BY <1>2
  <2> DEFINE h == [j \in 0 .. k + 1 |-> IF j <= k THEN g[j] ELSE step[<<g[k], k + 1>>]]
  <2>2. h \in [0 .. k + 1 -> S]
    <3>1. <<g[k], k + 1>> \in S \X (1 .. n)
      BY <2>1
    <3>2. \A j \in 0 .. k + 1 : j <= k => j \in 0 .. k
      OBVIOUS
    <3> QED BY <2>1, <3>1, <3>2
  <2>3. h[0] = first /\ h[k] = g[k] /\ h[k + 1] = step[<<g[k], k + 1>>]
    BY <2>1
  <2>4. ASSUME NEW j \in 1 .. k + 1
        PROVE  h[j] = step[<<h[j-1], j>>]
    <3>1. CASE j <= k
      <4>1. j \in 1 .. k /\ j - 1 \in 0 .. k /\ j \in 0 .. k + 1 /\ j - 1 \in 0 .. k + 1
        BY <3>1
      <4>2. h[j] = g[j] /\ h[j-1] = g[j-1]
        BY <3>1, <4>1
      <4> QED BY <2>1, <4>1, <4>2
    <3>2. CASE j = k + 1
      <4>1. j - 1 = k
        BY <3>2
      <4> HIDE DEF h
      <4> QED BY <2>3, <3>2, <4>1
    <3> QED BY <3>1, <3>2
  <2> HIDE DEF h
  <2> QED BY <2>2, <2>3, <2>4
<1>3. n \in T
  <2> HIDE DEF T
  <2> QED BY <1>1, <1>2, Induction
<1> QED BY <1>3

(* A function with the first value that does, from a value, what the step  *)
(* does is that computation.                                               *)
LEMMA LoopIs ==
  ASSUME NEW S, NEW first \in S, NEW n \in Nat, NEW step, IsStep(step, S, n),
         NEW f, f = [j \in 0 .. n |-> f[j]], f[0] = first,
         \A j \in 1 .. n : f[j-1] \in S => f[j] = step[<<f[j-1], j>>]
  PROVE  IsLoop(f, S, first, n, step)
<1> DEFINE T == {k \in Nat : k <= n => f[k] \in S}
<1>1. 0 \in T
  OBVIOUS
<1>2. ASSUME NEW k \in Nat, k \in T
      PROVE  k + 1 \in T
  <2> SUFFICES ASSUME k + 1 <= n
               PROVE  f[k + 1] \in S
    OBVIOUS
  <2>1. (k + 1) - 1 = k /\ k + 1 \in 1 .. n /\ f[k] \in S
    BY <1>2
  <2>2. f[k + 1] = step[<<f[k], k + 1>>] /\ <<f[k], k + 1>> \in S \X (1 .. n)
    BY <2>1
  <2> QED BY <2>2 DEF IsStep
<1>3. Nat \subseteq T
  <2> HIDE DEF T
  <2> QED BY <1>1, <1>2, Induction
<1>4. \A j \in 0 .. n : f[j] \in S
  BY <1>3
<1>5. f \in [0 .. n -> S]
  BY <1>4
<1>6. \A j \in 1 .. n : j - 1 \in 0 .. n
  OBVIOUS
<1> QED BY <1>4, <1>5, <1>6 DEF IsLoop

(* Two loops that do the same in every step come to the same.              *)
LEMMA LoopsAgree ==
  ASSUME NEW n \in Nat, NEW f, NEW g, f[0] = g[0],
         \A j \in 1 .. n : f[j-1] = g[j-1] => f[j] = g[j]
  PROVE  \A j \in 0 .. n : f[j] = g[j]
<1> DEFINE T == {k \in Nat : k <= n => f[k] = g[k]}
<1>1. 0 \in T
  OBVIOUS
<1>2. ASSUME NEW k \in Nat, k \in T
      PROVE  k + 1 \in T
  <2>1. (k + 1) - 1 = k
    OBVIOUS
  <2> QED BY <1>2, <2>1
<1>3. Nat \subseteq T
  <2> HIDE DEF T
  <2> QED BY <1>1, <1>2, Induction
<1> QED BY <1>3

=============================================================================
