------------------------------ MODULE VliProofs ------------------------------
(***************************************************************************)
(* Proofs about driver/src/vli.rs and the code of driver/src/ioctl.rs and  *)
(* driver/src/ecc.rs that signs with it: what carrying_add and the         *)
(* conversions between limbs and bytes return, for every number of limbs   *)
(* and every size of a limb, and from it that every point is freed and     *)
(* every signature verifies (the specifications of CarryingAdd and         *)
(* EcdsaSign).                                                             *)
(*                                                                         *)
(* The library's induction theorems take a predicate; here induction over  *)
(* the natural numbers is about a set, SetInduction.  The functions that   *)
(* Vli defines by recursion are runs (below) of the steps they take.       *)
(* Predicates such as Run, Digits and Signed only give a name to a         *)
(* hypothesis that several lemmas share.                                   *)
(***************************************************************************)
EXTENDS CarryingAdd, EcdsaSign, WellFoundedInduction, TLAPS

-----------------------------------------------------------------------------
(* Division                                                                *)

\* Quotient and remainder.
LEMMA DivMod ==
    ASSUME NEW n \in Nat, NEW m \in Nat \ {0}
    PROVE  /\ n \div m \in Nat /\ n % m \in 0..m - 1
           /\ n = m * (n \div m) + (n % m)
BY Z3

\* They are unique.
LEMMA Quotient ==
    ASSUME NEW m \in Nat \ {0}, NEW q \in Nat, NEW r \in 0..m - 1,
           NEW s \in Nat, NEW t \in 0..m - 1, m * q + r = m * s + t
    PROVE  q = s /\ r = t
<1>1. CASE q > s
  <2> DEFINE e == q - s - 1
  <2>1. e \in Nat /\ q = s + 1 + e
    BY <1>1
  <2> HIDE DEF e
  <2>2. m * q = m * s + m + m * e /\ m * e \in Nat /\ m * s \in Nat
    BY <2>1
  <2> QED
    BY <2>2
<1>2. CASE s > q
  <2> DEFINE e == s - q - 1
  <2>1. e \in Nat /\ s = q + 1 + e
    BY <1>2
  <2> HIDE DEF e
  <2>2. m * s = m * q + m + m * e /\ m * e \in Nat /\ m * q \in Nat
    BY <2>1
  <2> QED
    BY <2>2
<1>3. CASE q = s
  <2>1. m * q = m * s /\ m * q \in Nat
    BY <1>3
  <2> QED
    BY <1>3, <2>1
<1> QED
  BY <1>1, <1>2, <1>3

\* What is a multiple of m and a rest is divided by m.
LEMMA DivModUnique ==
    ASSUME NEW m \in Nat \ {0}, NEW q \in Nat, NEW r \in 0..m - 1
    PROVE  (m * q + r) \div m = q /\ (m * q + r) % m = r
<1> DEFINE n == m * q + r
<1>1. n \in Nat
  OBVIOUS
<1>2. /\ n \div m \in Nat /\ n % m \in 0..m - 1
      /\ m * q + r = m * (n \div m) + (n % m)
  BY <1>1, DivMod, Zenon
<1> QED
  BY <1>2, Quotient

\* The remainder of a division by b * p is one by p and the next digit.
LEMMA ModMul ==
    ASSUME NEW x \in Nat, NEW p \in Nat \ {0}, NEW b \in Nat \ {0}
    PROVE  x % (b * p) = (x % p) + ((x \div p) % b) * p
<1> DEFINE q == x \div p
           r == x % p
           s == q \div b
           t == q % b
<1>1. q \in Nat /\ r \in 0..p - 1 /\ x = p * q + r
  BY DivMod, Zenon
<1>2. s \in Nat /\ t \in 0..b - 1 /\ q = b * s + t
  BY <1>1, DivMod, Zenon
<1> HIDE DEF q, r, s, t
<1>3. b * p \in Nat \ {0} /\ x = (b * p) * s + (r + t * p)
  <2>1. p * (b * s + t) + r = (b * p) * s + (r + t * p)
    BY <1>1, <1>2, Z3
  <2>2. b * p \in Nat \ {0}
    BY Z3
  <2> QED
    BY <1>1, <1>2, <2>1, <2>2
<1>4. r + t * p \in 0..b * p - 1
  <2>1. t * p \in Nat /\ t * p <= (b - 1) * p
    BY <1>2, Z3
  <2>2. (b - 1) * p = b * p - p
    BY Z3
  <2>3. b * p \in Nat
    BY <1>3
  <2> QED
    BY <1>1, <2>1, <2>2, <2>3
<1>5. x % (b * p) = r + t * p
  <2> DEFINE m == b * p
             u == r + t * p
  <2>1. m \in Nat \ {0} /\ u \in 0..m - 1 /\ x = m * s + u /\ s \in Nat
    BY <1>2, <1>3, <1>4
  <2> HIDE DEF m, u
  <2>2. x % m = u
    BY <2>1, DivModUnique
  <2> QED
    BY <2>2 DEF m, u
<1> QED
  BY <1>5 DEF q, r, s, t

-----------------------------------------------------------------------------
(* Induction and recursion over the natural numbers                        *)

\* Induction: a set of natural numbers that holds 0 and the successor of each
\* of its elements holds every natural number.
LEMMA SetInduction ==
    ASSUME NEW T \in SUBSET Nat, 0 \in T, \A n \in T : n + 1 \in T
    PROVE  T = Nat
<1> DEFINE U == Nat \ T
<1> SUFFICES ASSUME U # {} PROVE FALSE
  BY Zenon
<1>1. \E x \in U : \A y \in U : ~ (<<y, x>> \in OpToRel(<, Nat))
  BY WFMin, NatLessThanWellFounded, Zenon
<1>2. \E x \in U : \A y \in U : ~(y < x)
  BY <1>1, Zenon DEF OpToRel
<1>3. PICK x \in U : \A y \in U : ~(y < x)
  BY <1>2
<1>4. x # 0 /\ x - 1 \in Nat
  OBVIOUS
<1>5. x - 1 \in T
  BY <1>3, <1>4
<1> QED
  BY <1>5, <1>4

\* F gives n steps that stay in S.
Steps(F, n, S) == \A k \in 1..n : F[k] \in [S -> S]
\* f is s0 and what the n steps of F make of it.
Run(f, F, n, s0, S) == /\ f \in [0..n -> S] /\ f[0] = s0
                       /\ \A k \in 1..n : f[k] = F[k][f[k - 1]]

\* ... where that is only known of the steps from a value in S.
Weak(f, F, n, s0, S) == /\ f = [k \in 0..n |-> f[k]] /\ f[0] = s0
                        /\ \A k \in 1..n :
                             f[k - 1] \in S => f[k] = F[k][f[k - 1]]

\* Recursion: steps that stay in S can be taken one after the other.
LEMMA RunExists ==
    ASSUME NEW S, NEW s0 \in S, NEW m \in Nat, NEW F, Steps(F, m, S)
    PROVE  \E f : Run(f, F, m, s0, S)
<1> DEFINE T == {n \in Nat : n <= m => \E f : Run(f, F, n, s0, S)}
<1>1. 0 \in T
  <2>1. Run([k \in 0..0 |-> s0], F, 0, s0, S)
    BY DEF Run
  <2> QED
    BY <2>1
<1>2. ASSUME NEW n \in T PROVE n + 1 \in T
  <2> SUFFICES ASSUME n + 1 <= m PROVE \E f : Run(f, F, n + 1, s0, S)
    OBVIOUS
  <2>1. PICK f : Run(f, F, n, s0, S)
    OBVIOUS
  <2> DEFINE g == [k \in 0..n + 1 |-> IF k <= n THEN f[k] ELSE F[n + 1][f[n]]]
  <2>2. F[n + 1] \in [S -> S] /\ f[n] \in S
    BY <2>1 DEF Steps, Run
  <2>3. Run(g, F, n + 1, s0, S)
    BY <2>1, <2>2 DEF Run
  <2> QED
    BY <2>3
<1>3. T = Nat
  <2> HIDE DEF T
  <2>1. T \in SUBSET Nat
    BY DEF T
  <2> QED
    BY <1>1, <1>2, <2>1, SetInduction
<1> QED
  BY <1>3

\* What takes the steps wherever its value is in S stays in S.
LEMMA RunOf ==
    ASSUME NEW S, NEW s0 \in S, NEW F, NEW n \in Nat, NEW f, Steps(F, n, S),
           Weak(f, F, n, s0, S)
    PROVE  Run(f, F, n, s0, S)
<1> DEFINE T == {k \in Nat : k <= n => f[k] \in S}
<1>1. 0 \in T
  BY DEF Weak
<1>2. ASSUME NEW k \in T PROVE k + 1 \in T
  <2> SUFFICES ASSUME k + 1 <= n PROVE f[k + 1] \in S
    OBVIOUS
  <2>1. k + 1 \in 1..n /\ (k + 1) - 1 = k /\ f[k] \in S
    OBVIOUS
  <2>2. f[k + 1] = F[k + 1][f[k]]
    BY <2>1, Zenon DEF Weak
  <2>3. F[k + 1] \in [S -> S]
    BY <2>1 DEF Steps
  <2> QED
    BY <2>1, <2>2, <2>3
<1>3. T \in SUBSET Nat
  OBVIOUS
<1> HIDE DEF T
<1>4. T = Nat
  BY <1>1, <1>2, <1>3, SetInduction
<1>5. \A k \in 0..n : f[k] \in S
  BY <1>4 DEF T
<1>6. f \in [0..n -> S]
  BY <1>5 DEF Weak
<1>7. \A k \in 1..n : k - 1 \in 0..n
  OBVIOUS
<1>8. \A k \in 1..n : f[k] = F[k][f[k - 1]]
  BY <1>5, <1>7, Zenon DEF Weak
<1> QED
  BY <1>6, <1>8, Zenon DEF Weak, Run

\* The steps determine the run.
LEMMA RunAgrees ==
    ASSUME NEW S, NEW s0, NEW F, NEW m \in Nat, NEW n \in Nat, NEW f, NEW g,
           Run(f, F, m, s0, S), Run(g, F, n, s0, S), n <= m
    PROVE  \A k \in 0..n : f[k] = g[k]
<1> DEFINE T == {k \in Nat : k <= n => f[k] = g[k]}
<1>1. 0 \in T
  BY DEF Run
<1>2. ASSUME NEW k \in T PROVE k + 1 \in T
  <2> SUFFICES ASSUME k + 1 <= n PROVE f[k + 1] = g[k + 1]
    OBVIOUS
  <2>1. k + 1 \in 1..m /\ k + 1 \in 1..n /\ (k + 1) - 1 = k /\ f[k] = g[k]
    OBVIOUS
  <2> QED
    BY <2>1 DEF Run
<1>3. T \in SUBSET Nat
  OBVIOUS
<1> HIDE DEF T
<1>4. T = Nat
  BY <1>1, <1>2, <1>3, SetInduction
<1> QED
  BY <1>4 DEF T

-----------------------------------------------------------------------------
(* Digits                                                                  *)

\* The step of Power's recursion.
Multiplies(F, b, n) == \A k \in 1..n : /\ F[k] \in [Nat -> Nat]
                                       /\ \A x \in Nat : F[k][x] = b * x

\* Power is defined by a run.
LEMMA PowerRun ==
    ASSUME NEW b \in Nat, NEW n \in Nat, NEW F, Multiplies(F, b, n)
    PROVE  \E p : Run(p, F, n, 1, Nat) /\ Power(b, n) = p[n]
<1> DEFINE R(p) == p = [k \in 0..n |-> IF k = 0 THEN 1 ELSE b * p[k - 1]]
           P == CHOOSE p : R(p)
<1>1. Steps(F, n, Nat) /\ \A k \in 1..n, x \in Nat : F[k][x] = b * x
  BY Zenon DEF Steps, Multiplies
<1>2. PICK p : Run(p, F, n, 1, Nat)
  <2>1. 1 \in Nat
    OBVIOUS
  <2> QED
    BY <1>1, <2>1, RunExists, Zenon
<1>3. p \in [0..n -> Nat] /\ p[0] = 1
  BY <1>2, Zenon DEF Run
<1>4. R(p)
  <2>1. \A k \in 1..n : p[k - 1] \in Nat
    BY <1>3
  <2>2. \A k \in 1..n : p[k] = b * p[k - 1]
    BY <1>1, <1>2, <2>1, Zenon DEF Run
  <2>3. \A k \in 0..n : p[k] = IF k = 0 THEN 1 ELSE b * p[k - 1]
    BY <1>3, <2>2
  <2> QED
    BY <1>3, <2>3
<1>5. R(P)
  BY <1>4, Zenon
<1>6. Power(b, n) = P[n]
  BY DEF Power
<1> HIDE DEF P
<1>7. Weak(P, F, n, 1, Nat)
  <2>1. P = [k \in 0..n |-> P[k]]
    BY <1>5
  <2>2. P[0] = 1 /\ \A k \in 1..n : P[k] = b * P[k - 1]
    BY <1>5
  <2> QED
    BY <1>1, <2>1, <2>2, Zenon DEF Weak
<1>8. Run(P, F, n, 1, Nat)
  <2>1. 1 \in Nat
    OBVIOUS
  <2> QED
    BY <1>1, <1>7, <2>1, RunOf, Zenon
<1> QED
  BY <1>6, <1>8, Zenon

\* What Power computes.
LEMMA PowerStep ==
    ASSUME NEW b \in Nat, NEW n \in Nat
    PROVE  /\ Power(b, n) \in Nat
           /\ Power(b, 0) = 1
           /\ Power(b, n + 1) = b * Power(b, n)
<1> DEFINE F == [k \in Nat |-> [x \in Nat |-> b * x]]
<1>0. 0 \in Nat /\ n + 1 \in Nat /\ n <= n + 1
  OBVIOUS
<1>1. Multiplies(F, b, 0) /\ Multiplies(F, b, n) /\ Multiplies(F, b, n + 1)
  BY DEF Multiplies
<1> HIDE DEF F
<1>2. PICK p : Run(p, F, n, 1, Nat) /\ Power(b, n) = p[n]
  BY <1>1, PowerRun, Zenon
<1>3. PICK q : Run(q, F, n + 1, 1, Nat) /\ Power(b, n + 1) = q[n + 1]
  BY <1>0, <1>1, PowerRun, Zenon
<1>4. PICK z : Run(z, F, 0, 1, Nat) /\ Power(b, 0) = z[0]
  BY <1>0, <1>1, PowerRun, Zenon
<1>5. \A k \in 0..n : p[k] = q[k]
  BY <1>0, <1>2, <1>3, RunAgrees
<1>6. p[n] \in Nat
  BY <1>2 DEF Run
<1>7. p[n] = q[n] /\ n + 1 \in 1..n + 1 /\ (n + 1) - 1 = n
  BY <1>5
<1>8. q[n + 1] = b * q[n]
  BY <1>1, <1>3, <1>6, <1>7, ZenonT(60) DEF Run, Multiplies
<1> QED
  BY <1>2, <1>3, <1>4, <1>6, <1>7, <1>8, Zenon DEF Run

\* The step of Value's recursion.
Accumulates(F, d, b, n) ==
    \A k \in 1..n : /\ F[k] \in [Nat -> Nat]
                    /\ \A x \in Nat :
                         F[k][x] = x + d[k - 1] * Power(b, k - 1)

\* The first n elements of d are digits to the base b.
Digits(d, n, b) == \A k \in 0..n - 1 : d[k] \in 0..b - 1

\* Value is defined by a run.
LEMMA ValueRun ==
    ASSUME NEW b, NEW n \in Nat, NEW d, NEW F, Accumulates(F, d, b, n)
    PROVE  \E v : Run(v, F, n, 0, Nat) /\ Value(d, n, b) = v[n]
<1> DEFINE E(v, k) == v[k - 1] + d[k - 1] * Power(b, k - 1)
           R(v) == v = [k \in 0..n |-> IF k = 0 THEN 0 ELSE E(v, k)]
           V == CHOOSE v : R(v)
<1>1. /\ Steps(F, n, Nat) /\ 0 \in Nat
      /\ \A k \in 1..n, x \in Nat : F[k][x] = x + d[k - 1] * Power(b, k - 1)
  BY Zenon DEF Steps, Accumulates
<1>2. PICK v : Run(v, F, n, 0, Nat)
  BY <1>1, RunExists, Zenon
<1>3. v \in [0..n -> Nat] /\ v[0] = 0
  BY <1>2, Zenon DEF Run
<1>4. R(v)
  <2>1. \A k \in 1..n : v[k - 1] \in Nat
    BY <1>3
  <2>2. \A k \in 1..n : v[k] = E(v, k)
    BY <1>1, <1>2, <2>1, Zenon DEF Run
  <2> HIDE DEF E
  <2>3. \A k \in 0..n : v[k] = IF k = 0 THEN 0 ELSE E(v, k)
    BY <1>3, <2>2
  <2> QED
    BY <1>3, <2>3
<1>5. R(V)
  BY <1>4, Zenon
<1>6. Value(d, n, b) = V[n]
  BY Zenon DEF Value
<1> HIDE DEF V
<1>7. Weak(V, F, n, 0, Nat)
  <2>1. V[0] = 0 /\ \A k \in 1..n : V[k] = E(V, k)
    <3> HIDE DEF E
    <3> QED
      BY <1>5
  <2>2. V = [k \in 0..n |-> V[k]]
    <3> HIDE DEF E
    <3> QED
      BY <1>5
  <2> QED
    BY <1>1, <2>1, <2>2, Zenon DEF Weak
<1>8. Run(V, F, n, 0, Nat)
  BY <1>1, <1>7, RunOf, Zenon
<1> QED
  BY <1>6, <1>8, Zenon

\* What Value computes.
LEMMA ValueStep ==
    ASSUME NEW b \in Nat, NEW d, NEW n \in Nat, Digits(d, n + 1, b)
    PROVE  /\ Value(d, n, b) \in Nat
           /\ Value(d, 0, b) = 0
           /\ Value(d, n + 1, b) = Value(d, n, b) + d[n] * Power(b, n)
<1> DEFINE F == [k \in 1..n + 1 |->
                    [x \in Nat |-> x + d[k - 1] * Power(b, k - 1)]]
<1>0. 0 \in Nat /\ n + 1 \in Nat /\ n <= n + 1
  OBVIOUS
<1>1. Accumulates(F, d, b, n + 1)
  <2>1. \A k \in 1..n + 1 : k - 1 \in Nat /\ d[k - 1] \in Nat
    BY DEF Digits
  <2>2. \A k \in 1..n + 1 : Power(b, k - 1) \in Nat
    BY <2>1, PowerStep, Zenon
  <2>3. \A k \in 1..n + 1 : d[k - 1] * Power(b, k - 1) \in Nat
    BY <2>1, <2>2
  <2>4. \A k \in 1..n + 1, x \in Nat : x + d[k - 1] * Power(b, k - 1) \in Nat
    BY <2>3
  <2> QED
    BY <2>4, Zenon DEF Accumulates
<1>2. 1..0 \subseteq 1..n + 1 /\ 1..n \subseteq 1..n + 1
  OBVIOUS
<1>3. Accumulates(F, d, b, 0) /\ Accumulates(F, d, b, n)
  BY <1>1, <1>2, Zenon DEF Accumulates
<1> HIDE DEF F
<1>4. PICK p : Run(p, F, n, 0, Nat) /\ Value(d, n, b) = p[n]
  BY <1>3, ValueRun, Zenon
<1>5. PICK q : Run(q, F, n + 1, 0, Nat) /\ Value(d, n + 1, b) = q[n + 1]
  BY <1>0, <1>1, ValueRun, Zenon
<1>6. PICK z : Run(z, F, 0, 0, Nat) /\ Value(d, 0, b) = z[0]
  BY <1>0, <1>3, ValueRun, Zenon
<1>7. \A k \in 0..n : p[k] = q[k]
  BY <1>0, <1>4, <1>5, RunAgrees
<1>8. p[n] \in Nat
  BY <1>4 DEF Run
<1>9. p[n] = q[n] /\ n + 1 \in 1..n + 1 /\ (n + 1) - 1 = n
  BY <1>7
<1>10. q[n + 1] = q[n] + d[n] * Power(b, n)
  BY <1>1, <1>5, <1>8, <1>9, Zenon DEF Run, Accumulates
<1> QED
  BY <1>4, <1>5, <1>6, <1>8, <1>9, <1>10, Zenon DEF Run

\* No digits stand for zero.
LEMMA ValueZero ==
    ASSUME NEW b, NEW d
    PROVE  Value(d, 0, b) = 0
<1>1. 0 \in Nat /\ ~ \E k : k \in 1..0
  OBVIOUS
<1>2. Accumulates(d, d, b, 0)
  BY <1>1, Zenon DEF Accumulates
<1>3. PICK z : Run(z, d, 0, 0, Nat) /\ Value(d, 0, b) = z[0]
  BY <1>1, <1>2, ValueRun, Zenon
<1> QED
  BY <1>3, Zenon DEF Run

\* A power of a number other than zero is not zero.
LEMMA PowerPositive ==
    ASSUME NEW b \in Nat \ {0}
    PROVE  \A n \in Nat : Power(b, n) \in Nat \ {0}
<1> DEFINE T == {n \in Nat : Power(b, n) \in Nat \ {0}}
<1>1. 0 \in T
  BY PowerStep
<1>2. ASSUME NEW n \in T PROVE n + 1 \in T
  <2>1. n \in Nat /\ Power(b, n) \in Nat \ {0}
    OBVIOUS
  <2>2. Power(b, n + 1) = b * Power(b, n)
    BY <2>1, PowerStep
  <2>3. b * Power(b, n) \in Nat \ {0}
    BY <2>1, Z3
  <2> QED
    BY <2>1, <2>2, <2>3
<1>3. T \in SUBSET Nat
  OBVIOUS
<1> HIDE DEF T
<1>4. T = Nat
  BY <1>1, <1>2, <1>3, SetInduction
<1> QED
  BY <1>4 DEF T

\* The weight of m + n digits.
LEMMA PowerPlus ==
    ASSUME NEW b \in Nat, NEW m \in Nat
    PROVE  \A n \in Nat : Power(b, m + n) = Power(b, m) * Power(b, n)
<1> DEFINE T == {n \in Nat : Power(b, m + n) = Power(b, m) * Power(b, n)}
<1>1. 0 \in T
  <2>1. Power(b, m) \in Nat /\ Power(b, 0) = 1
    BY PowerStep, Zenon
  <2>2. m + 0 = m /\ Power(b, m) * 1 = Power(b, m)
    BY <2>1
  <2> QED
    BY <2>1, <2>2
<1>2. ASSUME NEW n \in T PROVE n + 1 \in T
  <2>1. n \in Nat /\ Power(b, m + n) = Power(b, m) * Power(b, n)
    OBVIOUS
  <2>2. m + n \in Nat /\ m + (n + 1) = (m + n) + 1
    BY <2>1
  <2>3. /\ Power(b, n + 1) = b * Power(b, n)
        /\ Power(b, (m + n) + 1) = b * Power(b, m + n)
        /\ Power(b, n) \in Nat /\ Power(b, m) \in Nat
    BY <2>1, <2>2, PowerStep
  <2>4. b * (Power(b, m) * Power(b, n)) = Power(b, m) * (b * Power(b, n))
    BY <2>3, Z3
  <2>5. Power(b, m + (n + 1)) = Power(b, m) * Power(b, n + 1)
    BY <2>1, <2>2, <2>3, <2>4, Zenon
  <2> QED
    BY <2>1, <2>5
<1>3. T \in SUBSET Nat
  OBVIOUS
<1> HIDE DEF T
<1>4. T = Nat
  BY <1>1, <1>2, <1>3, SetInduction
<1> QED
  BY <1>4 DEF T

\* A digit to the base b^m is m digits to the base b.
LEMMA PowerTimes ==
    ASSUME NEW b \in Nat, NEW m \in Nat
    PROVE  \A n \in Nat : Power(Power(b, m), n) = Power(b, n * m)
<1> DEFINE T == {n \in Nat : Power(Power(b, m), n) = Power(b, n * m)}
<1>0. Power(b, m) \in Nat
  BY PowerStep
<1>1. 0 \in T
  <2>1. Power(Power(b, m), 0) = 1 /\ Power(b, 0) = 1 /\ 0 * m = 0 /\ 0 \in Nat
    BY <1>0, PowerStep
  <2> QED
    BY <2>1
<1>2. ASSUME NEW n \in T PROVE n + 1 \in T
  <2>1. n \in Nat /\ Power(Power(b, m), n) = Power(b, n * m)
    OBVIOUS
  <2>2. n * m \in Nat /\ (n + 1) * m = m + n * m
    BY <2>1
  <2>3. Power(Power(b, m), n + 1) = Power(b, m) * Power(Power(b, m), n)
    BY <1>0, <2>1, PowerStep
  <2>4. Power(b, m + n * m) = Power(b, m) * Power(b, n * m)
    BY <2>2, PowerPlus
  <2>5. Power(Power(b, m), n + 1) = Power(b, (n + 1) * m)
    BY <2>1, <2>2, <2>3, <2>4, Zenon
  <2> QED
    BY <2>1, <2>5
<1>3. T \in SUBSET Nat
  OBVIOUS
<1> HIDE DEF T
<1>4. T = Nat
  BY <1>1, <1>2, <1>3, SetInduction
<1> QED
  BY <1>4 DEF T

\* n digits stand for less than their weight.
LEMMA ValueBound ==
    ASSUME NEW b \in Nat \ {0}, NEW d, NEW n \in Nat, Digits(d, n, b)
    PROVE  Value(d, n, b) \in 0..Power(b, n) - 1
<1> DEFINE T == {k \in Nat : k <= n => Value(d, k, b) \in 0..Power(b, k) - 1}
<1>1. 0 \in T
  <2>1. Value(d, 0, b) = 0 /\ Power(b, 0) = 1
    BY ValueZero, PowerStep
  <2> QED
    BY <2>1
<1>2. ASSUME NEW k \in T PROVE k + 1 \in T
  <2> SUFFICES ASSUME k + 1 <= n
               PROVE  Value(d, k + 1, b) \in 0..Power(b, k + 1) - 1
    OBVIOUS
  <2> DEFINE p == Power(b, k)
             v == Value(d, k, b)
             e == d[k]
  <2>1. k \in Nat /\ k + 1 \in Nat /\ v \in 0..p - 1
    OBVIOUS
  <2>2. p \in Nat \ {0} /\ Power(b, k + 1) = b * p
    BY <2>1, PowerPositive, PowerStep
  <2>3. Digits(d, k + 1, b) /\ e \in 0..b - 1
    BY <2>1 DEF Digits
  <2>4. Value(d, k + 1, b) = v + e * p
    BY <2>1, <2>3, ValueStep
  <2> HIDE DEF p, v, e
  <2>5. e * p \in Nat /\ e * p <= (b - 1) * p /\ (b - 1) * p = b * p - p
    BY <2>2, <2>3, Z3
  <2>6. b * p \in Nat
    BY <2>2
  <2>7. v + e * p \in 0..b * p - 1
    BY <2>1, <2>2, <2>5, <2>6
  <2> QED
    BY <2>2, <2>4, <2>7
<1>3. T \in SUBSET Nat
  OBVIOUS
<1> HIDE DEF T
<1>4. T = Nat
  BY <1>1, <1>2, <1>3, SetInduction
<1> QED
  BY <1>4 DEF T

\* Only the digits count.
LEMMA ValueAgrees ==
    ASSUME NEW b \in Nat \ {0}, NEW d, NEW e, NEW n \in Nat,
           Digits(d, n, b), \A k \in 0..n - 1 : d[k] = e[k]
    PROVE  Value(d, n, b) = Value(e, n, b)
<1> DEFINE T == {k \in Nat : k <= n => Value(d, k, b) = Value(e, k, b)}
<1>1. 0 \in T
  BY ValueZero
<1>2. ASSUME NEW k \in T PROVE k + 1 \in T
  <2> SUFFICES ASSUME k + 1 <= n
               PROVE  Value(d, k + 1, b) = Value(e, k + 1, b)
    OBVIOUS
  <2>1. k \in Nat /\ b \in Nat /\ Value(d, k, b) = Value(e, k, b)
    OBVIOUS
  <2>2. Digits(d, k + 1, b) /\ Digits(e, k + 1, b) /\ d[k] = e[k]
    BY <2>1 DEF Digits
  <2>3. /\ Value(d, k + 1, b) = Value(d, k, b) + d[k] * Power(b, k)
        /\ Value(e, k + 1, b) = Value(e, k, b) + e[k] * Power(b, k)
    BY <2>1, <2>2, ValueStep, Zenon
  <2> QED
    BY <2>1, <2>2, <2>3, Zenon
<1>3. T \in SUBSET Nat
  OBVIOUS
<1> HIDE DEF T
<1>4. T = Nat
  BY <1>1, <1>2, <1>3, SetInduction
<1> QED
  BY <1>4 DEF T

\* The first digits of x stand for x modulo their weight.
LEMMA ValueOfDigits ==
    ASSUME NEW b \in Nat \ {0}, NEW d, NEW n \in Nat, NEW x \in Nat,
           \A k \in 0..n - 1 : d[k] = Digit(x, k, b)
    PROVE  Digits(d, n, b) /\ Value(d, n, b) = x % Power(b, n)
<1> DEFINE T == {k \in Nat : k <= n => Value(d, k, b) = x % Power(b, k)}
<1>1. Digits(d, n, b)
  <2>1. ASSUME NEW k \in 0..n - 1 PROVE d[k] \in 0..b - 1
    <3>1. Power(b, k) \in Nat \ {0}
      BY PowerPositive
    <3>2. x \div Power(b, k) \in Nat
      BY <3>1, DivMod, Zenon
    <3>3. (x \div Power(b, k)) % b \in 0..b - 1
      BY <3>2, DivMod
    <3> QED
      BY <3>3 DEF Digit
  <2> QED
    BY <2>1 DEF Digits
<1>2. 0 \in T
  <2>1. Value(d, 0, b) = 0 /\ Power(b, 0) = 1 /\ x % 1 = 0
    BY ValueZero, PowerStep
  <2> QED
    BY <2>1
<1>3. ASSUME NEW k \in T PROVE k + 1 \in T
  <2> SUFFICES ASSUME k + 1 <= n
               PROVE  Value(d, k + 1, b) = x % Power(b, k + 1)
    OBVIOUS
  <2> DEFINE p == Power(b, k)
  <2>1. k \in Nat /\ b \in Nat /\ Value(d, k, b) = x % p
    OBVIOUS
  <2>2. p \in Nat \ {0} /\ Power(b, k + 1) = b * p
    BY <2>1, PowerPositive, PowerStep
  <2>3. Digits(d, k + 1, b) /\ d[k] = (x \div p) % b
    BY <1>1, <2>1 DEF Digits, Digit
  <2>4. Value(d, k + 1, b) = Value(d, k, b) + d[k] * p
    BY <2>1, <2>3, ValueStep, Zenon
  <2>5. x % (b * p) = (x % p) + ((x \div p) % b) * p
    BY <2>2, ModMul, Zenon
  <2> QED
    BY <2>1, <2>2, <2>3, <2>4, <2>5, Zenon
<1>4. T \in SUBSET Nat
  OBVIOUS
<1> HIDE DEF T
<1>5. T = Nat
  BY <1>2, <1>3, <1>4, SetInduction
<1> QED
  BY <1>1, <1>5 DEF T

\* The n digits of e are those of d from the digit m on.
Shifted(e, d, m, n) == \A k \in 0..n - 1 : e[k] = d[m + k]

\* Splitting the digits at m.
LEMMA ValueSplit ==
    ASSUME NEW b \in Nat \ {0}, NEW m \in Nat, NEW n \in Nat, NEW d, NEW e,
           Digits(d, m + n, b), Shifted(e, d, m, n)
    PROVE  Value(d, m + n, b) = Value(d, m, b) + Power(b, m) * Value(e, n, b)
<1> DEFINE T == {k \in Nat : k <= n => Value(d, m + k, b)
                    = Value(d, m, b) + Power(b, m) * Value(e, k, b)}
<1>0. Power(b, m) \in Nat /\ Value(d, m, b) \in Nat
  <2>1. Digits(d, m, b)
    BY DEF Digits
  <2> QED
    BY <2>1, ValueBound, PowerPositive
<1>1. 0 \in T
  <2>1. Value(e, 0, b) = 0 /\ m + 0 = m
    BY ValueZero
  <2>2. Value(d, m, b) = Value(d, m, b) + Power(b, m) * 0
    BY <1>0
  <2> QED
    BY <2>1, <2>2
<1>2. ASSUME NEW k \in T PROVE k + 1 \in T
  <2> SUFFICES ASSUME k + 1 <= n
               PROVE  Value(d, m + (k + 1), b)
                        = Value(d, m, b) + Power(b, m) * Value(e, k + 1, b)
    OBVIOUS
  <2>1. /\ k \in Nat /\ b \in Nat /\ m + k \in Nat /\ m + (k + 1) = (m + k) + 1
        /\ Value(d, m + k, b) = Value(d, m, b) + Power(b, m) * Value(e, k, b)
    OBVIOUS
  <2>2. /\ Digits(d, (m + k) + 1, b) /\ Digits(e, k + 1, b)
        /\ Digits(e, k, b) /\ e[k] = d[m + k]
        /\ e[k] \in Nat
    BY <2>1 DEF Digits, Shifted
  <2>3. /\ Value(d, (m + k) + 1, b)
             = Value(d, m + k, b) + d[m + k] * Power(b, m + k)
        /\ Value(e, k + 1, b) = Value(e, k, b) + e[k] * Power(b, k)
    BY <2>1, <2>2, ValueStep, ZenonT(60)
  <2>4. Power(b, m + k) = Power(b, m) * Power(b, k) /\ Power(b, k) \in Nat
    BY <2>1, PowerPlus, PowerStep
  <2>5. Value(e, k, b) \in Nat
    BY <2>1, <2>2, ValueBound
  <2>6. \A u, w, p, q, c \in Nat :
           (u + p * w) + c * (p * q) = u + p * (w + c * q)
    BY Z3
  <2>7. (Value(d, m, b) + Power(b, m) * Value(e, k, b))
            + e[k] * (Power(b, m) * Power(b, k))
          = Value(d, m, b)
                + Power(b, m) * (Value(e, k, b) + e[k] * Power(b, k))
    BY <1>0, <2>2, <2>4, <2>5, <2>6
  <2> QED
    BY <2>1, <2>2, <2>3, <2>4, <2>7, Zenon
<1>3. T \in SUBSET Nat
  OBVIOUS
<1> HIDE DEF T
<1>4. T = Nat
  BY <1>1, <1>2, <1>3, SetInduction
<1> QED
  BY <1>4 DEF T

\* A digit can be read back.
LEMMA DigitOfValue ==
    ASSUME NEW b \in Nat \ {0}, NEW n \in Nat, NEW d, Digits(d, n, b),
           NEW i \in 0..n - 1
    PROVE  Digit(Value(d, n, b), i, b) = d[i]
<1> DEFINE p == Power(b, i)
           m == n - i - 1
           e == [k \in 0..m - 1 |-> d[(i + 1) + k]]
           u == Value(d, i, b)
           w == Value(e, m, b)
<1>0. n = (i + 1) + m
  OBVIOUS
<1>1. i \in Nat /\ i + 1 \in Nat /\ m \in Nat /\ b \in Nat
  OBVIOUS
<1>2. /\ Digits(d, (i + 1) + m, b) /\ Digits(d, i + 1, b) /\ Digits(d, i, b)
      /\ d[i] \in 0..b - 1
      /\ Digits(e, m, b) /\ Shifted(e, d, i + 1, m)
  BY <1>0, <1>1 DEF Digits, Shifted
<1> HIDE DEF m, e
<1>3. Value(d, n, b) = Value(d, i + 1, b) + Power(b, i + 1) * w
  <2>1. Value(d, (i + 1) + m, b)
          = Value(d, i + 1, b) + Power(b, i + 1) * Value(e, m, b)
    <3> DEFINE j == i + 1
    <3>1. j \in Nat /\ Digits(d, j + m, b) /\ Shifted(e, d, j, m)
      BY <1>1, <1>2
    <3> HIDE DEF j
    <3>2. Value(d, j + m, b) = Value(d, j, b) + Power(b, j) * Value(e, m, b)
      BY <1>1, <3>1, ValueSplit
    <3> QED
      BY <3>2 DEF j
  <2> QED
    BY <1>0, <2>1, Zenon
<1>4. Value(d, i + 1, b) = u + d[i] * p
  BY <1>1, <1>2, ValueStep, Zenon
<1>5. p \in Nat \ {0} /\ Power(b, i + 1) = b * p
  BY <1>1, PowerPositive, PowerStep, Zenon
<1>6. u \in 0..p - 1 /\ w \in Nat
  <2>1. u \in 0..p - 1
    BY <1>1, <1>2, ValueBound
  <2>2. w \in 0..Power(b, m) - 1 /\ Power(b, m) \in Nat
    BY <1>1, <1>2, ValueBound, PowerStep
  <2> QED
    BY <2>1, <2>2
<1> HIDE DEF p, u, w
<1>7. Value(d, n, b) = p * (b * w + d[i]) + u
  <2>1. \A c \in Nat : (u + c * p) + (b * p) * w = p * (b * w + c) + u
    BY <1>5, <1>6, Z3
  <2>2. (u + d[i] * p) + (b * p) * w = p * (b * w + d[i]) + u
    BY <1>2, <2>1
  <2> QED
    BY <1>3, <1>4, <1>5, <2>2, Zenon
<1>8. b * w + d[i] \in Nat
  BY <1>2, <1>6
<1>9. (p * (b * w + d[i]) + u) \div p = b * w + d[i]
  BY <1>5, <1>6, <1>8, DivModUnique, Zenon
<1>10. (b * w + d[i]) % b = d[i]
  BY <1>2, <1>6, DivModUnique, Zenon
<1> QED
  BY <1>7, <1>9, <1>10, Zenon DEF Digit, p

-----------------------------------------------------------------------------
(* The integers of vli.rs                                                  *)

\* A byte, a limb and an integer of N limbs have more than one value, and a
\* Vli has as many values as its bytes have.
LEMMA BaseFacts ==
    /\ N \in Nat \ {0} /\ LimbBytes \in Nat \ {0} /\ ByteBase \in Nat \ {0}
    /\ Base \in Nat \ {0, 1} /\ Radix \in Nat \ {0} /\ Size \in Nat \ {0}
    /\ Radix = Power(ByteBase, Size)
<1>1. /\ N \in Nat \ {0} /\ LimbBytes \in Nat \ {0}
      /\ ByteBase \in Nat \ {0} /\ ByteBase > 1
  BY VliAssumption
<1>2. Base \in Nat \ {0, 1}
  <2> DEFINE m == LimbBytes - 1
             p == Power(ByteBase, m)
  <2>1. m \in Nat /\ LimbBytes = m + 1 /\ ByteBase \in Nat
    BY <1>1
  <2> HIDE DEF m
  <2>2. p \in Nat \ {0} /\ Power(ByteBase, m + 1) = ByteBase * p
    BY <1>1, <2>1, PowerPositive, PowerStep
  <2> HIDE DEF p
  <2>3. ByteBase * p \in Nat \ {0, 1}
    BY <1>1, <2>2, Z3
  <2> QED
    BY <2>1, <2>2, <2>3 DEF Base
<1>3. Radix \in Nat \ {0}
  BY <1>1, <1>2, PowerPositive DEF Radix
<1>4. Size \in Nat \ {0}
  BY <1>1, Z3 DEF Size
<1>5. Radix = Power(ByteBase, Size)
  BY <1>1, PowerTimes DEF Radix, Base, Size
<1> QED
  BY <1>1, <1>2, <1>3, <1>4, <1>5

\* ToVli gives a Vli, and IntOf the integer again when it fits the limbs.
LEMMA VliOfInt ==
    ASSUME NEW x \in Nat
    PROVE  /\ ToVli(x) \in Vlis
           /\ x < Radix => IntOf(ToVli(x)) = x
<1> DEFINE d == ToVli(x)
<1>1. N \in Nat /\ Base \in Nat \ {0} /\ Radix \in Nat \ {0}
  BY BaseFacts
<1>2. \A k \in 0..N - 1 : d[k] = Digit(x, k, Base)
  BY DEF ToVli
<1>3. d = [k \in 0..N - 1 |-> d[k]]
  BY DEF ToVli
<1> HIDE DEF d
<1>4. Digits(d, N, Base) /\ Value(d, N, Base) = x % Radix
  BY <1>1, <1>2, ValueOfDigits DEF Radix
<1>5. d \in Vlis
  BY <1>3, <1>4 DEF Digits, Vlis, Limbs
<1>6. x < Radix => x % Radix = x
  BY <1>1
<1> QED
  BY <1>4, <1>5, <1>6 DEF d, IntOf

\* The limbs of a Vli are digits.
LEMMA VliDigits ==
    ASSUME NEW v \in Vlis, NEW k \in 0..N
    PROVE  Digits(v, k, Base)
<1>1. N \in Nat /\ \A j \in 0..k - 1 : j \in 0..N - 1
  BY BaseFacts
<1> QED
  BY <1>1 DEF Digits, Vlis, Limbs

\* IntOf gives an integer that fits the limbs, and ToVli the Vli again.
LEMMA IntOfVli ==
    ASSUME NEW v \in Vlis
    PROVE  IntOf(v) \in 0..Radix - 1 /\ ToVli(IntOf(v)) = v
<1>1. N \in Nat /\ Base \in Nat \ {0}
  BY BaseFacts
<1>2. Digits(v, N, Base)
  BY DEF Digits, Vlis, Limbs
<1>3. IntOf(v) \in 0..Radix - 1
  BY <1>1, <1>2, ValueBound DEF IntOf, Radix
<1>4. \A k \in 0..N - 1 : Digit(IntOf(v), k, Base) = v[k]
  BY <1>1, <1>2, DigitOfValue DEF IntOf
<1>5. ToVli(IntOf(v)) = v
  BY <1>4 DEF ToVli, Vlis
<1> QED
  BY <1>3, <1>5

-----------------------------------------------------------------------------
(* Byte order                                                              *)

\* A digit is smaller than the base.
LEMMA DigitType ==
    ASSUME NEW x \in Nat, NEW k \in 0..LimbBytes - 1
    PROVE  Digit(x, k, ByteBase) \in 0..ByteBase - 1
<1>1. ByteBase \in Nat \ {0} /\ k \in Nat
  BY BaseFacts
<1>2. Power(ByteBase, k) \in Nat \ {0}
  BY <1>1, PowerPositive
<1>3. x \div Power(ByteBase, k) \in Nat
  BY <1>2, DivMod
<1> QED
  BY <1>1, <1>3, DivMod DEF Digit

\* The bytes of a limb, reversed, are a limb.
LEMMA FromBe ==
    ASSUME NEW x \in Nat
    PROVE  /\ from_be(x) \in Limbs
           /\ \A i \in 0..LimbBytes - 1 :
                 Digit(from_be(x), i, ByteBase)
                     = Digit(x, LimbBytes - 1 - i, ByteBase)
<1> DEFINE d == to_be_bytes(x)
<1>1. LimbBytes \in Nat /\ ByteBase \in Nat \ {0}
  BY BaseFacts
<1>2. \A i \in 0..LimbBytes - 1 : d[i] = Digit(x, LimbBytes - 1 - i, ByteBase)
  BY DEF to_be_bytes
<1>3. \A i \in 0..LimbBytes - 1 : Digit(x, i, ByteBase) \in 0..ByteBase - 1
  BY DigitType, Zenon
<1> HIDE DEF d
<1>4. Digits(d, LimbBytes, ByteBase)
  <2>1. \A i \in 0..LimbBytes - 1 : LimbBytes - 1 - i \in 0..LimbBytes - 1
    BY <1>1
  <2> QED
    BY <1>2, <1>3, <2>1, Zenon DEF Digits
<1>5. from_be(x) \in Limbs
  BY <1>1, <1>4, ValueBound DEF from_be, d, Limbs, Base
<1>6. \A i \in 0..LimbBytes - 1 : Digit(from_be(x), i, ByteBase) = d[i]
  BY <1>1, <1>4, DigitOfValue DEF from_be, d
<1> QED
  BY <1>2, <1>5, <1>6, Zenon

\* u64::from_be undoes itself.
LEMMA FromBeTwice ==
    ASSUME NEW x \in Limbs
    PROVE  from_be(from_be(x)) = x
<1> DEFINE y == from_be(x)
           d == to_be_bytes(y)
<1>1. LimbBytes \in Nat /\ ByteBase \in Nat \ {0} /\ Base \in Nat \ {0}
  BY BaseFacts
<1>2. x \in Nat /\ x < Base
  BY <1>1 DEF Limbs
<1>3. \A i \in 0..LimbBytes - 1 : d[i] = Digit(y, LimbBytes - 1 - i, ByteBase)
  BY DEF to_be_bytes
<1>4. \A i \in 0..LimbBytes - 1 :
         Digit(y, i, ByteBase) = Digit(x, LimbBytes - 1 - i, ByteBase)
  BY <1>2, FromBe
<1>5. from_be(y) = Value(d, LimbBytes, ByteBase)
  BY DEF from_be
<1> HIDE DEF y, d
<1>6. \A i \in 0..LimbBytes - 1 : d[i] = Digit(x, i, ByteBase)
  <2>1. \A i \in 0..LimbBytes - 1 :
           /\ LimbBytes - 1 - i \in 0..LimbBytes - 1
           /\ LimbBytes - 1 - (LimbBytes - 1 - i) = i
    BY <1>1
  <2> QED
    BY <1>3, <1>4, <2>1, Zenon
<1>7. Value(d, LimbBytes, ByteBase) = x % Base
  BY <1>1, <1>2, <1>6, ValueOfDigits DEF Base
<1>8. x % Base = x
  BY <1>1, <1>2
<1> QED
  BY <1>5, <1>7, <1>8 DEF y

\* unswap (ecc.rs) undoes ecc_swap_digits, which the kernel has applied to the
\* coordinates of a point.
LEMMA SwapTwice ==
    ASSUME NEW v \in Vlis
    PROVE  ecc_swap_digits(v) \in Vlis /\ unswap(ecc_swap_digits(v)) = v
<1>1. \A i \in 0..N - 1 : N - 1 - i \in 0..N - 1 /\ N - 1 - (N - 1 - i) = i
  BY BaseFacts
<1>2. \A i \in 0..N - 1 : v[i] \in Limbs /\ v[i] \in Nat
  BY BaseFacts DEF Vlis, Limbs
<1>3. \A i \in 0..N - 1 : from_be(v[N - 1 - i]) \in Limbs
  BY <1>1, <1>2, FromBe
<1>4. ecc_swap_digits(v) \in Vlis
  BY <1>3 DEF ecc_swap_digits, Vlis
<1>5. \A i \in 0..N - 1 : ecc_swap_digits(v)[N - 1 - i] = from_be(v[i])
  BY <1>1 DEF ecc_swap_digits
<1>6. \A i \in 0..N - 1 : from_be(from_be(v[i])) = v[i]
  BY <1>2, FromBeTwice
<1>7. \A i \in 0..N - 1 : from_be(ecc_swap_digits(v)[N - 1 - i]) = v[i]
  BY <1>5, <1>6, Zenon
<1> QED
  BY <1>4, <1>7 DEF unswap, Vlis

\* Byte j of a Vli is byte j % LimbBytes of limb j \div LimbBytes, and counted
\* from the other end the same in the mirrored limb.
LEMMA ByteIndex ==
    ASSUME NEW j \in 0..Size - 1
    PROVE  /\ j \div LimbBytes \in 0..N - 1
           /\ j % LimbBytes \in 0..LimbBytes - 1
           /\ (Size - 1 - j) \div LimbBytes = N - 1 - (j \div LimbBytes)
           /\ (Size - 1 - j) % LimbBytes = LimbBytes - 1 - (j % LimbBytes)
<1> DEFINE L == LimbBytes
           q == j \div LimbBytes
           s == j % LimbBytes
<1>1. L \in Nat \ {0} /\ N \in Nat \ {0} /\ Size = N * L /\ Size \in Nat \ {0}
  BY BaseFacts DEF Size
<1>2. j \in Nat /\ j < N * L
  BY <1>1
<1>3. q \in Nat /\ s \in 0..L - 1 /\ j = L * q + s
  BY <1>1, <1>2, DivMod, Zenon
<1> HIDE DEF L, q, s
<1>4. q \in 0..N - 1
  <2> SUFFICES ASSUME q >= N PROVE FALSE
    BY <1>1, <1>3
  <2>1. L * q >= N * L
    BY <1>1, <1>3, Z3
  <2>2. L * q \in Nat /\ N * L \in Nat
    BY <1>1, <1>3
  <2> QED
    BY <1>2, <1>3, <2>1, <2>2
<1>5. Size - 1 - j = L * (N - 1 - q) + (L - 1 - s)
  <2>1. L * (N - 1 - q) = N * L - L - L * q
    BY <1>1, <1>3, Z3
  <2>2. L * q \in Nat /\ N * L \in Nat
    BY <1>1, <1>3
  <2> QED
    BY <1>1, <1>3, <2>1, <2>2
<1>6. N - 1 - q \in Nat /\ L - 1 - s \in 0..L - 1
  BY <1>1, <1>3, <1>4
<1>7. /\ (L * (N - 1 - q) + (L - 1 - s)) \div L = N - 1 - q
      /\ (L * (N - 1 - q) + (L - 1 - s)) % L = L - 1 - s
  BY <1>1, <1>6, DivModUnique, Zenon
<1> QED
  BY <1>3, <1>4, <1>5, <1>7, Zenon DEF L, q, s

\* x_as_bytes, the memory of a coordinate in the order that ecc_make_pub_key
\* has left it in, is what handle_sign_data's loop would write for it.
LEMMA SwappedBytes ==
    ASSUME NEW v \in Vlis
    PROVE  /\ Serialize(v) \in Bytes
           /\ AsBytes(ecc_swap_digits(v)) = Serialize(v)
<1> DEFINE w == ecc_swap_digits(v)
           D(x, i) == Digit(x, i, ByteBase)
<1>1. \A j \in 0..Size - 1 :
        j \div LimbBytes \in 0..N - 1 /\ j % LimbBytes \in 0..LimbBytes - 1
  BY ByteIndex
<1>2. \A i \in 0..N - 1 : N - 1 - i \in 0..N - 1 /\ v[i] \in Nat
  BY BaseFacts DEF Vlis, Limbs
<1>3. \A i \in 0..N - 1 : w[i] = from_be(v[N - 1 - i])
  BY DEF ecc_swap_digits
<1>4. \A i \in 0..N - 1, k \in 0..LimbBytes - 1 :
         D(w[i], k) = D(v[N - 1 - i], LimbBytes - 1 - k)
  BY <1>2, <1>3, FromBe
<1> HIDE DEF D
<1>5. \A i \in 0..N - 1, k \in 0..LimbBytes - 1 :
         to_be_bytes(v[N - 1 - i])[k] = D(v[N - 1 - i], LimbBytes - 1 - k)
  BY DEF to_be_bytes, D
<1>6. \A j \in 0..Size - 1 :
         /\ AsBytes(w)[j] = D(w[j \div LimbBytes], j % LimbBytes)
         /\ Serialize(v)[j]
              = to_be_bytes(v[N - 1 - (j \div LimbBytes)])[j % LimbBytes]
  BY DEF AsBytes, Serialize, D
<1>7. \A j \in 0..Size - 1 : AsBytes(w)[j] = Serialize(v)[j]
  BY <1>1, <1>4, <1>5, <1>6, Zenon
<1>8. /\ AsBytes(w) = [j \in 0..Size - 1 |-> AsBytes(w)[j]]
      /\ Serialize(v) = [j \in 0..Size - 1 |-> Serialize(v)[j]]
  BY DEF AsBytes, Serialize
<1>9. \A x \in Nat, k \in 0..LimbBytes - 1 : D(x, k) \in 0..ByteBase - 1
  BY DigitType, Zenon DEF D
<1>10. \A k \in 0..LimbBytes - 1 : LimbBytes - 1 - k \in 0..LimbBytes - 1
  BY BaseFacts
<1>11. \A j \in 0..Size - 1 : Serialize(v)[j] \in 0..ByteBase - 1
  <2>1. \A i \in 0..N - 1, k \in 0..LimbBytes - 1 :
           to_be_bytes(v[N - 1 - i])[k] \in 0..ByteBase - 1
    BY <1>2, <1>5, <1>9, <1>10, Zenon
  <2> QED
    BY <1>1, <1>6, <2>1, Zenon
<1> HIDE DEF w
<1>12. Serialize(v) \in Bytes
  BY <1>8, <1>11 DEF Bytes
<1>13. AsBytes(w) = Serialize(v)
  BY <1>7, <1>8
<1> QED
  BY <1>12, <1>13 DEF w

\* The memory of a Vli, read as one little-endian number, is its value.
LEMMA ValueOfBytes ==
    ASSUME NEW v \in Vlis
    PROVE  /\ Digits(AsBytes(v), Size, ByteBase)
           /\ Value(AsBytes(v), Size, ByteBase) = IntOf(v)
<1> DEFINE L == LimbBytes
           b == ByteBase
           d == AsBytes(v)
           T == {k \in Nat :
                   k <= N => Value(d, k * L, b) = Value(v, k, Base)}
<1>1. /\ L \in Nat \ {0} /\ N \in Nat \ {0} /\ b \in Nat \ {0}
      /\ Size = N * L /\ Base \in Nat \ {0} /\ Base = Power(b, L)
  BY BaseFacts DEF Size, Base
<1>2. \A i \in 0..N - 1 : v[i] \in Nat /\ v[i] < Base
  BY <1>1 DEF Vlis, Limbs
<1>3. \A j \in 0..Size - 1 : d[j] = Digit(v[j \div L], j % L, b)
  BY DEF AsBytes
<1>4. Digits(d, Size, b)
  <2>1. ASSUME NEW j \in 0..Size - 1 PROVE d[j] \in 0..b - 1
    <3>1. j \div L \in 0..N - 1 /\ j % L \in 0..L - 1
      BY ByteIndex
    <3> QED
      BY <1>2, <1>3, <3>1, DigitType, Zenon
  <2> QED
    BY <2>1, Zenon DEF Digits
<1>5. Digits(v, N, Base)
  BY DEF Digits, Vlis, Limbs
<1>6. b \in Nat /\ L \in Nat
  BY <1>1
<1> HIDE DEF L, b, d
<1>7. 0 \in T
  <2>1. 0 * L = 0
    BY <1>1
  <2> QED
    BY <2>1, ValueZero
<1>8. ASSUME NEW k \in T PROVE k + 1 \in T
  <2> SUFFICES ASSUME k + 1 <= N
               PROVE  Value(d, (k + 1) * L, b) = Value(v, k + 1, Base)
    OBVIOUS
  <2> DEFINE m == k * L
             e == [s \in 0..L - 1 |-> d[m + s]]
  <2>1. k \in Nat /\ k \in 0..N - 1 /\ Value(d, m, b) = Value(v, k, Base)
    BY <1>1
  <2>2. m \in Nat /\ (k + 1) * L = m + L /\ m = L * k
    BY <1>1, <2>1
  <2>3. m + L <= Size
    <3>1. (k + 1) * L <= N * L
      BY <1>1, <2>1, Z3
    <3> QED
      BY <1>1, <2>2, <3>1
  <2> HIDE DEF m
  <2>4. Digits(d, m + L, b)
    BY <1>1, <1>4, <2>2, <2>3 DEF Digits
  <2>5. Shifted(e, d, m, L)
    BY DEF Shifted
  <2>6. \A s \in 0..L - 1 : e[s] = Digit(v[k], s, b)
    <3>1. ASSUME NEW s \in 0..L - 1 PROVE d[m + s] = Digit(v[k], s, b)
      <4>1. m + s \in 0..Size - 1
        BY <1>1, <2>2, <2>3
      <4>2. (L * k + s) \div L = k /\ (L * k + s) % L = s
        BY <1>1, <2>1, DivModUnique, Zenon
      <4>3. (m + s) \div L = k /\ (m + s) % L = s
        BY <2>2, <4>2, Zenon
      <4> QED
        BY <1>3, <4>1, <4>3, Zenon
    <3> QED
      BY <3>1
  <2> HIDE DEF e
  <2>7. Value(d, m + L, b) = Value(d, m, b) + Power(b, m) * Value(e, L, b)
    BY <1>1, <1>6, <2>2, <2>4, <2>5, ValueSplit
  <2>8. Value(e, L, b) = v[k]
    <3>1. Value(e, L, b) = v[k] % Base
      BY <1>1, <1>2, <1>6, <2>1, <2>6, ValueOfDigits
    <3>2. v[k] % Base = v[k]
      BY <1>1, <1>2, <2>1
    <3> QED
      BY <3>1, <3>2
  <2>9. Power(b, m) = Power(Base, k)
    <3>1. Power(Power(b, L), k) = Power(b, k * L)
      BY <1>6, <2>1, PowerTimes
    <3> QED
      BY <1>1, <3>1 DEF m
  <2>10. Value(v, k + 1, Base) = Value(v, k, Base) + v[k] * Power(Base, k)
    <3>1. Digits(v, k + 1, Base) /\ Base \in Nat
      BY <1>1, <1>5, <2>1 DEF Digits
    <3> QED
      BY <2>1, <3>1, ValueStep
  <2>11. Power(Base, k) * v[k] = v[k] * Power(Base, k)
    <3>1. Power(Base, k) \in Nat /\ v[k] \in Nat
      BY <1>1, <1>2, <2>1, PowerPositive
    <3> QED
      BY <3>1
  <2> QED
    BY <2>1, <2>2, <2>7, <2>8, <2>9, <2>10, <2>11, Zenon
<1>9. T \in SUBSET Nat
  OBVIOUS
<1> HIDE DEF T
<1>10. T = Nat
  BY <1>7, <1>8, <1>9, SetInduction
<1>11. Value(d, N * L, b) = Value(v, N, Base)
  BY <1>1, <1>10 DEF T
<1> QED
  BY <1>1, <1>4, <1>11, Zenon DEF b, d, IntOf

\* The bytes that handle_sign_data writes for a Vli are its value.
LEMMA SerializedValue ==
    ASSUME NEW v \in Vlis
    PROVE  BigEndian(Serialize(v), Size) = IntOf(v)
<1> DEFINE s == Serialize(v)
           d == [j \in 0..Size - 1 |-> s[Size - 1 - j]]
           a == AsBytes(v)
           D(x, i) == Digit(x, i, ByteBase)
<1>1. Size \in Nat /\ ByteBase \in Nat \ {0} /\ N \in Nat /\ LimbBytes \in Nat
  BY BaseFacts
<1>2. ASSUME NEW j \in 0..Size - 1 PROVE a[j] = s[Size - 1 - j]
  <2> DEFINE i == Size - 1 - j
             q == j \div LimbBytes
             r == j % LimbBytes
  <2>1. i \in 0..Size - 1
    BY <1>1
  <2>2. /\ q \in 0..N - 1 /\ r \in 0..LimbBytes - 1
        /\ i \div LimbBytes = N - 1 - q /\ i % LimbBytes = LimbBytes - 1 - r
    BY ByteIndex
  <2>3. a[j] = D(v[q], r)
    BY DEF AsBytes
  <2>4. s[i] = to_be_bytes(v[N - 1 - (i \div LimbBytes)])[i % LimbBytes]
    BY <2>1 DEF Serialize
  <2> HIDE DEF s, a, i, q, r, D
  <2>5. /\ N - 1 - (N - 1 - q) = q /\ LimbBytes - 1 - r \in 0..LimbBytes - 1
        /\ LimbBytes - 1 - (LimbBytes - 1 - r) = r
    BY <1>1, <2>2
  <2>6. to_be_bytes(v[q])[LimbBytes - 1 - r]
          = D(v[q], LimbBytes - 1 - (LimbBytes - 1 - r))
    BY <2>5, Zenon DEF to_be_bytes, D
  <2> QED
    BY <2>2, <2>3, <2>4, <2>5, <2>6, Zenon DEF i
<1>3. \A j \in 0..Size - 1 : a[j] = d[j]
  BY <1>2
<1>4. Digits(a, Size, ByteBase) /\ Value(a, Size, ByteBase) = IntOf(v)
  BY ValueOfBytes
<1>5. BigEndian(s, Size) = Value(d, Size, ByteBase)
  BY DEF BigEndian
<1> HIDE DEF s, a, d
<1>6. Value(a, Size, ByteBase) = Value(d, Size, ByteBase)
  BY <1>1, <1>3, <1>4, ValueAgrees
<1> QED
  BY <1>4, <1>5, <1>6 DEF s

\* Bytes stand for an integer of N limbs.
LEMMA BytesValue ==
    ASSUME NEW h \in Bytes
    PROVE  /\ BigEndian(h, Size) \in 0..Radix - 1
           /\ from_be_bytes(h) = ToVli(BigEndian(h, Size))
<1> DEFINE d == [j \in 0..Size - 1 |-> h[Size - 1 - j]]
<1>1. Size \in Nat /\ ByteBase \in Nat \ {0} /\ Radix = Power(ByteBase, Size)
  BY BaseFacts
<1>2. Digits(d, Size, ByteBase)
  BY <1>1 DEF Bytes, Digits
<1>3. BigEndian(h, Size) = Value(d, Size, ByteBase)
  BY DEF BigEndian
<1> HIDE DEF d
<1>4. Value(d, Size, ByteBase) \in 0..Radix - 1
  BY <1>1, <1>2, ValueBound
<1>5. DOMAIN h = 0..Size - 1
  BY DEF Bytes
<1> QED
  BY <1>3, <1>4, <1>5 DEF from_be_bytes, ecc_digits_from_bytes

\* What handle_sign_data writes, ecc_digits_from_bytes reads.
LEMMA SerializedVli ==
    ASSUME NEW v \in Vlis
    PROVE  from_be_bytes(Serialize(v)) = v
<1>1. Serialize(v) \in Bytes
  BY SwappedBytes
<1>2. from_be_bytes(Serialize(v)) = ToVli(IntOf(v))
  BY <1>1, BytesValue, SerializedValue
<1> QED
  BY <1>2, IntOfVli

-----------------------------------------------------------------------------
(* Addition                                                                *)

\* overflowing_add splits the sum of two limbs into a limb and a carry bit.
LEMMA OverflowingAddExact ==
    ASSUME NEW a \in Limbs, NEW b \in Limbs
    PROVE  /\ overflowing_add(a, b).sum \in Limbs
           /\ overflowing_add(a, b).carry \in 0..1
           /\ a + b = overflowing_add(a, b).sum
                          + Base * overflowing_add(a, b).carry
<1> DEFINE B == Base
           m == (a + b) % Base
           q == (a + b) \div Base
<1>1. B \in Nat /\ B > 1
  BY BaseFacts
<1>2. a \in Nat /\ b \in Nat /\ a < B /\ b < B
  BY <1>1 DEF Limbs
<1>3. m \in 0..B - 1 /\ q \in Nat /\ a + b = B * q + m
  <2>1. a + b \in Nat /\ B \in Nat \ {0}
    BY <1>1, <1>2
  <2> QED
    BY <2>1, DivMod, Zenon
<1> HIDE DEF B, m, q
<1>4. q \in 0..1
  <2>1. B * q < 2 * B
    BY <1>1, <1>2, <1>3
  <2>2. q >= 2 => B * q >= 2 * B
    BY <1>1, <1>3, Z3
  <2> QED
    BY <1>1, <1>3, <2>1, <2>2
<1>5. m \in Nat /\ B * q + m = m + B * q
  BY <1>1, <1>3
<1>6. overflowing_add(a, b) = [sum |-> m, carry |-> q]
  BY DEF overflowing_add, m, q
<1>7. overflowing_add(a, b).sum = m /\ overflowing_add(a, b).carry = q
  BY <1>6
<1> QED
  BY <1>3, <1>4, <1>5, <1>7, Zenon DEF B, Limbs

\* One pass of the loop: the digit and the carry out are together the sum of
\* the two limbs and the carry in, and the carry out is a limb again.
LEMMA AddLimbExact ==
    ASSUME NEW l \in Limbs, NEW r \in Limbs, NEW c \in Limbs
    PROVE  /\ AddLimb(l, r, c).sum \in Limbs
           /\ AddLimb(l, r, c).carry \in Limbs
           /\ l + r + c = AddLimb(l, r, c).sum + Base * AddLimb(l, r, c).carry
<1> DEFINE B == Base
           s1 == overflowing_add(l, r).sum
           c1 == overflowing_add(l, r).carry
           s2 == overflowing_add(s1, c).sum
           c2 == overflowing_add(s1, c).carry
<1>1. B \in Nat /\ B > 1
  BY BaseFacts
<1>2. s1 \in Limbs /\ c1 \in 0..1 /\ l + r = s1 + B * c1
  BY OverflowingAddExact
<1>3. s2 \in Limbs /\ c2 \in 0..1 /\ s1 + c = s2 + B * c2
  BY <1>2, OverflowingAddExact
<1>4. /\ AddLimb(l, r, c).sum = s2
      /\ AddLimb(l, r, c).carry = c1 + c2
  BY DEF AddLimb
<1>5. /\ l \in 0..B - 1 /\ r \in 0..B - 1 /\ c \in 0..B - 1
      /\ s1 \in 0..B - 1 /\ s2 \in 0..B - 1
  BY <1>2, <1>3 DEF Limbs
<1> HIDE DEF B, s1, c1, s2, c2
<1>6. l + r + c = s2 + B * (c1 + c2)
  <2>1. CASE c1 = 0 /\ c2 = 0  BY <1>1, <1>2, <1>3, <1>5, <2>1
  <2>2. CASE c1 = 1 /\ c2 = 0  BY <1>1, <1>2, <1>3, <1>5, <2>2
  <2>3. CASE c1 = 0 /\ c2 = 1  BY <1>1, <1>2, <1>3, <1>5, <2>3
  <2>4. CASE c1 = 1 /\ c2 = 1  BY <1>1, <1>2, <1>3, <1>5, <2>4
  <2> QED
    BY <1>2, <1>3, <2>1, <2>2, <2>3, <2>4
<1>7. c1 + c2 \in 0..B - 1
  <2>1. CASE B = 2 /\ c1 = 1 /\ c2 = 1
    BY <1>5, <1>6, <2>1
  <2> QED
    BY <1>1, <1>2, <1>3, <2>1
<1> QED
  BY <1>4, <1>5, <1>6, <1>7 DEF B, Limbs

\* Adding the weighted limbs of one pass to both sides.
LEMMA Rearrange ==
    ASSUME NEW L \in Nat, NEW R \in Nat, NEW S \in Nat, NEW c0 \in Nat,
           NEW lw \in Nat, NEW rw \in Nat, NEW kw \in Nat, NEW sw \in Nat,
           NEW cw \in Nat,
           S + kw = L + R + c0,
           lw + rw + kw = sw + cw
    PROVE  S + sw + cw = L + lw + (R + rw) + c0
OBVIOUS

\* What AddLimb returns.
Sums == [sum : Limbs, carry : Limbs]

\* p holds the passes of carrying_add's loop.
Passes(p, l, r, c) ==
    /\ p \in [0..N - 1 -> Sums]
    /\ p[0] = AddLimb(l[0], r[0], c)
    /\ \A k \in 1..N - 1 : p[k] = AddLimb(l[k], r[k], p[k - 1].carry)

\* carrying_add's recursion is a run of its passes.
LEMMA CarryingAddPasses ==
    ASSUME NEW l \in Vlis, NEW r \in Vlis, NEW c \in Limbs
    PROVE  \E p : /\ Passes(p, l, r, c)
                  /\ carrying_add(l, r, c)
                       = <<[k \in 0..N - 1 |-> p[k].sum], p[N - 1].carry>>
<1> DEFINE n == N - 1
           s0 == AddLimb(l[0], r[0], c)
           F == [k \in 1..n |-> [x \in Sums |-> AddLimb(l[k], r[k], x.carry)]]
           E(p, k) == AddLimb(l[k], r[k], IF k = 0 THEN c ELSE p[k - 1].carry)
           R(p) == p = [k \in 0..n |-> E(p, k)]
           P == CHOOSE p : R(p)
<1>1. n \in Nat /\ 0 \in 0..n
  BY BaseFacts
<1>2. \A k \in 0..n : l[k] \in Limbs /\ r[k] \in Limbs
  BY DEF Vlis
<1>3. \A x, y, z \in Limbs : AddLimb(x, y, z) \in Sums
  <2> SUFFICES ASSUME NEW x \in Limbs, NEW y \in Limbs, NEW z \in Limbs
               PROVE  AddLimb(x, y, z) \in Sums
    OBVIOUS
  <2>1. AddLimb(x, y, z).sum \in Limbs /\ AddLimb(x, y, z).carry \in Limbs
    BY AddLimbExact
  <2> QED
    BY <2>1 DEF AddLimb, Sums
<1>4. s0 \in Sums
  BY <1>1, <1>2, <1>3, Zenon
<1>5. \A x \in Sums : x.carry \in Limbs
  BY DEF Sums
<1>6. \A k \in 1..n : k \in 0..n /\ k # 0 /\ k - 1 \in 0..n
  BY <1>1
<1>7. Steps(F, n, Sums)
  BY <1>2, <1>3, <1>5, <1>6, Zenon DEF Steps
<1>8. \A k \in 1..n : \A x \in Sums : F[k][x] = AddLimb(l[k], r[k], x.carry)
  BY Zenon
<1> HIDE DEF F, n, s0
<1>9. PICK p : Run(p, F, n, s0, Sums)
  BY <1>1, <1>4, <1>7, RunExists, Zenon
<1>10. R(p)
  <2>1. p \in [0..n -> Sums] /\ p[0] = s0
    BY <1>9, Zenon DEF Run
  <2>2. \A k \in 1..n : p[k - 1] \in Sums
    BY <1>6, <2>1
  <2>3. \A k \in 1..n : p[k] = E(p, k)
    BY <1>6, <1>8, <1>9, <2>2, Zenon DEF Run
  <2>4. p[0] = E(p, 0)
    BY <2>1, Zenon DEF s0
  <2> HIDE DEF E
  <2>5. \A k \in 0..n : p[k] = E(p, k)
    BY <1>1, <2>3, <2>4
  <2> QED
    BY <2>1, <2>5
<1>11. R(P)
  BY <1>10, Zenon
<1>12. carrying_add(l, r, c) = <<[k \in 0..n |-> P[k].sum], P[n].carry>>
  BY Zenon DEF carrying_add, n
<1> HIDE DEF P
<1>13. P = [k \in 0..n |-> P[k]] /\ \A k \in 0..n : P[k] = E(P, k)
  <2> HIDE DEF E
  <2> QED
    BY <1>11, Zenon
<1>14. Weak(P, F, n, s0, Sums)
  <2>1. P[0] = s0
    BY <1>1, <1>13, Zenon DEF s0
  <2>2. \A k \in 1..n : P[k] = AddLimb(l[k], r[k], P[k - 1].carry)
    BY <1>6, <1>13, Zenon
  <2> QED
    BY <1>8, <1>13, <2>1, <2>2, Zenon DEF Weak
<1>15. Run(P, F, n, s0, Sums)
  BY <1>1, <1>4, <1>7, <1>14, RunOf, Zenon
<1>16. Passes(P, l, r, c)
  <2>1. P \in [0..n -> Sums] /\ P[0] = s0
    BY <1>15, Zenon DEF Run
  <2>2. \A k \in 1..n : P[k] = AddLimb(l[k], r[k], P[k - 1].carry)
    BY <1>6, <1>13, Zenon
  <2> QED
    BY <2>1, <2>2, Zenon DEF Passes, n, s0
<1> QED
  BY <1>12, <1>16, Zenon DEF n

\* The result of carrying_add and its overflow are the sum of the operands and
\* the initial carry, for every number of limbs.
THEOREM CarryingAddSum ==
    ASSUME NEW l \in Vlis, NEW r \in Vlis, NEW c \in Limbs
    PROVE  /\ carrying_add(l, r, c)[1] \in Vlis
           /\ carrying_add(l, r, c)[2] \in Limbs
           /\ IntOf(carrying_add(l, r, c)[1])
                  + carrying_add(l, r, c)[2] * Radix
                = IntOf(l) + IntOf(r) + c
<1>1. PICK p : /\ Passes(p, l, r, c)
               /\ carrying_add(l, r, c)
                    = <<[k \in 0..N - 1 |-> p[k].sum], p[N - 1].carry>>
  BY CarryingAddPasses
<1> DEFINE s == [k \in 0..N - 1 |-> p[k].sum]
           cin(k) == IF k = 0 THEN c ELSE p[k - 1].carry
           V(d, k) == Value(d, k, Base)
           T == {k \in Nat : k <= N =>
                   V(s, k) + cin(k) * Power(Base, k) = V(l, k) + V(r, k) + c}
<1>2. N \in Nat \ {0} /\ Base \in Nat \ {0} /\ Base \in Nat
  BY BaseFacts
<1>3. \A k \in 0..N - 1 : /\ p[k].sum \in Limbs /\ p[k].carry \in Limbs
                          /\ l[k] \in Limbs /\ r[k] \in Limbs
  BY <1>1 DEF Passes, Sums, Vlis
<1>4. \A k \in 0..N : cin(k) \in Limbs
  BY <1>2, <1>3
<1>5. \A k \in 0..N - 1 : p[k] = AddLimb(l[k], r[k], cin(k))
  BY <1>1, <1>2 DEF Passes
<1>6. \A k \in 0..N - 1 : cin(k + 1) = p[k].carry
  BY <1>2
<1>7. s \in Vlis /\ \A k \in 0..N - 1 : s[k] = p[k].sum
  BY <1>3 DEF Vlis
<1>8. \A x \in Limbs : x \in Nat
  BY <1>2 DEF Limbs
<1>9. Digits(s, N, Base) /\ Digits(l, N, Base) /\ Digits(r, N, Base)
  BY <1>7 DEF Digits, Vlis, Limbs
<1> HIDE DEF s, cin
<1>10. 0 \in T
  <2>1. /\ V(s, 0) = 0 /\ V(l, 0) = 0 /\ V(r, 0) = 0 /\ Power(Base, 0) = 1
        /\ cin(0) = c
    BY <1>2, ValueZero, PowerStep, Zenon DEF cin
  <2>2. c \in Nat /\ 0 + c * 1 = 0 + 0 + c
    BY <1>8
  <2> QED
    BY <2>1, <2>2
<1>11. ASSUME NEW k \in T PROVE k + 1 \in T
  <2> SUFFICES ASSUME k + 1 <= N
               PROVE  V(s, k + 1) + cin(k + 1) * Power(Base, k + 1)
                        = V(l, k + 1) + V(r, k + 1) + c
    OBVIOUS
  <2> DEFINE w == Power(Base, k)
             a == l[k]
             b == r[k]
             e == s[k]
             x == cin(k)
             y == cin(k + 1)
             B == Base
  <2>1. /\ k \in Nat /\ k \in 0..N - 1 /\ k \in 0..N /\ k + 1 \in 0..N
        /\ V(s, k) + x * w = V(l, k) + V(r, k) + c
    BY <1>2
  <2>2. a + b + x = e + B * y
    <3>1. a \in Limbs /\ b \in Limbs /\ x \in Limbs
      BY <1>3, <1>4, <2>1, Zenon
    <3>2. a + b + x = AddLimb(a, b, x).sum + Base * AddLimb(a, b, x).carry
      BY <3>1, AddLimbExact
    <3> QED
      BY <1>5, <1>6, <1>7, <2>1, <3>2, Zenon
  <2>3. /\ Digits(s, k + 1, Base) /\ Digits(l, k + 1, Base)
        /\ Digits(r, k + 1, Base)
    BY <1>2, <1>9, <2>1 DEF Digits
  <2>4. /\ V(s, k + 1) = V(s, k) + e * w /\ V(s, k) \in Nat
        /\ V(l, k + 1) = V(l, k) + a * w /\ V(l, k) \in Nat
        /\ V(r, k + 1) = V(r, k) + b * w /\ V(r, k) \in Nat
    BY <1>2, <2>1, <2>3, ValueStep, Zenon
  <2>5. Power(Base, k + 1) = B * w /\ w \in Nat
    BY <1>2, <2>1, PowerStep
  <2>6. /\ a \in Nat /\ b \in Nat /\ e \in Nat /\ x \in Nat /\ y \in Nat
        /\ c \in Nat /\ B \in Nat
    <3>1. /\ e \in Limbs /\ a \in Limbs /\ b \in Limbs
          /\ x \in Limbs /\ y \in Limbs
      BY <1>3, <1>4, <1>7, <2>1, Zenon
    <3> QED
      BY <1>2, <1>8, <3>1, Zenon
  <2> HIDE DEF w, a, b, e, x, y, B, V
  <2>7. a * w + b * w + x * w = e * w + y * (B * w)
    <3>1. (a + b + x) * w = (e + B * y) * w
      BY <2>2
    <3>2. (a + b + x) * w = a * w + b * w + x * w
      BY <2>5, <2>6, Z3
    <3>3. (e + B * y) * w = e * w + y * (B * w)
      BY <2>5, <2>6, Z3
    <3> QED
      BY <3>1, <3>2, <3>3
  <2>8. /\ a * w \in Nat /\ b * w \in Nat /\ e * w \in Nat
        /\ x * w \in Nat /\ y * (B * w) \in Nat
    BY <2>5, <2>6
  <2>9. V(s, k) + e * w + y * (B * w) = V(l, k) + a * w + (V(r, k) + b * w) + c
    BY <2>1, <2>4, <2>6, <2>7, <2>8, Rearrange
  <2> QED
    BY <2>4, <2>5, <2>9, Zenon DEF y
<1>12. T \in SUBSET Nat
  OBVIOUS
<1> HIDE DEF T
<1>13. T = Nat
  BY <1>10, <1>11, <1>12, SetInduction
<1>14. V(s, N) + cin(N) * Power(Base, N) = V(l, N) + V(r, N) + c
  BY <1>2, <1>13 DEF T
<1>15. cin(N) = p[N - 1].carry /\ cin(N) \in Limbs
  BY <1>2, <1>4 DEF cin
<1>16. carrying_add(l, r, c)[1] = s /\ carrying_add(l, r, c)[2] = cin(N)
  BY <1>1, <1>15 DEF s
<1> QED
  BY <1>7, <1>14, <1>15, <1>16, Zenon DEF IntOf, Radix

-----------------------------------------------------------------------------
(* The loop of carrying_add                                                *)

\* The loop variables keep their types: a digit is a limb and so is the carry.
LEMMA AddTypeInvariant == AddSpec => []AddTypeOK
<1>1. AddInit => AddTypeOK
  BY BaseFacts DEF AddInit, AddTypeOK, Vlis, Limbs
<1>2. AddTypeOK /\ [Pass]_addVars => AddTypeOK'
  <2> SUFFICES ASSUME AddTypeOK, Pass PROVE AddTypeOK'
    BY DEF AddTypeOK, addVars
  <2> DEFINE add == AddLimb(left[done], right[done], carry)
  <2>1. done \in 0..N - 1 /\ done' \in 0..N
    BY BaseFacts DEF AddTypeOK, Pass
  <2>2. left[done] \in Limbs /\ right[done] \in Limbs /\ carry \in Limbs
    BY <2>1 DEF AddTypeOK, Vlis
  <2>3. add.sum \in Limbs /\ add.carry \in Limbs
    BY <2>2, AddLimbExact
  <2>4. limbs' = [limbs EXCEPT ![done] = add.sum] /\ carry' = add.carry
    BY DEF Pass
  <2> HIDE DEF add
  <2>5. limbs' \in Vlis /\ carry' \in Limbs
    BY <2>1, <2>3, <2>4 DEF AddTypeOK, Vlis
  <2> QED
    BY <2>1, <2>5 DEF AddTypeOK, Pass
<1> QED
  BY <1>1, <1>2, PTL DEF AddSpec

\* carrying_add (vli.rs:44-53) loses no carry, for any number of limbs, any
\* limb size and any initial carry: after every pass of the loop, the limbs
\* written and the carry are the sum of the limbs read and the initial carry.
THEOREM CarryingAddIsExact == AddSpec => []SumIsExact
<1>1. AddInit => SumIsExact
  <2> SUFFICES ASSUME AddInit PROVE SumIsExact
    OBVIOUS
  <2>1. initial \in Nat /\ Base \in Nat
    BY BaseFacts DEF AddInit, Limbs
  <2>2. /\ Value(limbs, 0, Base) = 0 /\ Value(left, 0, Base) = 0
        /\ Value(right, 0, Base) = 0 /\ Power(Base, 0) = 1
    BY <2>1, ValueZero, PowerStep, Zenon
  <2> QED
    BY <2>1, <2>2 DEF AddInit, SumIsExact
<1>2. AddTypeOK /\ AddTypeOK' /\ SumIsExact /\ [Pass]_addVars => SumIsExact'
  <2> SUFFICES ASSUME AddTypeOK, AddTypeOK', SumIsExact, Pass PROVE SumIsExact'
    BY DEF SumIsExact, addVars
  <2> DEFINE k == done
             add == AddLimb(left[k], right[k], carry)
             l == left[k]
             r == right[k]
             s == add.sum
             c == add.carry
             B == Base
             w == Power(Base, k)
             V(d) == Value(d, k, Base)
  <2>1. k \in 0..N - 1 /\ k \in Nat /\ N \in Nat
    BY BaseFacts DEF AddTypeOK, Pass
  <2>2. l \in Limbs /\ r \in Limbs /\ carry \in Limbs
    BY <2>1 DEF AddTypeOK, Vlis
  <2>3. s \in Limbs /\ c \in Limbs /\ l + r + carry = s + B * c
    BY <2>2, AddLimbExact
  <2>4. /\ B \in Nat /\ l \in Nat /\ r \in Nat /\ s \in Nat /\ c \in Nat
        /\ carry \in Nat /\ initial \in Nat
    BY <2>2, <2>3, BaseFacts DEF Limbs, AddTypeOK
  <2>5. /\ carry' = c /\ done' = k + 1
        /\ initial' = initial /\ left' = left /\ right' = right
    BY DEF Pass
  <2>6. limbs'[k] = s /\ \A j \in 0..k - 1 : limbs[j] = limbs'[j]
    BY <2>1 DEF AddTypeOK, Vlis, Pass
  <2>7. /\ Digits(left, k + 1, B) /\ Digits(right, k + 1, B)
        /\ Digits(limbs', k + 1, B) /\ Digits(limbs, k, B)
    <3>1. k \in 0..N /\ k + 1 \in 0..N
      BY <2>1
    <3> QED
      BY <3>1, VliDigits, Zenon DEF AddTypeOK
  <2>8. /\ Value(left, k + 1, B) = V(left) + l * w /\ V(left) \in Nat
        /\ Value(right, k + 1, B) = V(right) + r * w /\ V(right) \in Nat
        /\ Value(limbs', k + 1, B) = V(limbs') + s * w /\ V(limbs') \in Nat
    <3>1. Value(left, k + 1, B) = V(left) + l * w /\ V(left) \in Nat
      BY <2>1, <2>4, <2>7, ValueStep, Zenon
    <3>2. Value(right, k + 1, B) = V(right) + r * w /\ V(right) \in Nat
      BY <2>1, <2>4, <2>7, ValueStep, Zenon
    <3>3. /\ Value(limbs', k + 1, B) = V(limbs') + limbs'[k] * w
          /\ V(limbs') \in Nat
      BY <2>1, <2>4, <2>7, ValueStep, ZenonT(60)
    <3> HIDE DEF add, s, V, w
    <3> QED
      BY <2>6, <3>1, <3>2, <3>3, Zenon
  <2>9. V(limbs') = V(limbs)
    <3>1. B \in Nat \ {0}
      BY BaseFacts
    <3> QED
      BY <2>1, <2>6, <2>7, <3>1, ValueAgrees
  <2>10. Power(Base, k + 1) = B * w /\ w \in Nat
    BY <2>1, <2>4, PowerStep, Zenon
  <2>11. V(limbs) + carry * w = V(left) + V(right) + initial
    BY DEF SumIsExact
  <2> HIDE DEF add, k, l, r, s, c, B, w, V
  <2>12. l * w + r * w + carry * w = s * w + c * (B * w)
    <3>1. (l + r + carry) * w = (s + B * c) * w
      BY <2>3
    <3>2. (l + r + carry) * w = l * w + r * w + carry * w
      BY <2>4, <2>10, Z3
    <3>3. (s + B * c) * w = s * w + c * (B * w)
      BY <2>4, <2>10, Z3
    <3> QED
      BY <3>1, <3>2, <3>3
  <2>13. /\ l * w \in Nat /\ r * w \in Nat /\ s * w \in Nat
         /\ carry * w \in Nat /\ c * (B * w) \in Nat
    BY <2>4, <2>10
  <2>14. V(limbs) + s * w + c * (B * w)
            = V(left) + l * w + (V(right) + r * w) + initial
    BY <2>4, <2>8, <2>9, <2>11, <2>12, <2>13, Rearrange
  <2> QED
    BY <2>5, <2>8, <2>9, <2>10, <2>14, Zenon DEF SumIsExact, B
<1> QED
  BY <1>1, <1>2, AddTypeInvariant, PTL DEF AddSpec

\* The conversions of vli.rs, ecc.rs and ioctl.rs between limbs and bytes agree
\* about the order of limbs and bytes, for every number and size of limbs.
THEOREM ConversionsAgree == AddSpec => []BytesAgree
<1>1. AddTypeOK => BytesAgree
  BY SwapTwice, SerializedVli, SwappedBytes DEF AddTypeOK, BytesAgree
<1> QED
  BY <1>1, AddTypeInvariant, PTL

-----------------------------------------------------------------------------
(* Arithmetic modulo n                                                     *)

\* Multiples of n do not change a remainder.
LEMMA ModShift ==
    ASSUME NEW n \in Nat \ {0}, NEW q \in Nat, NEW x \in Nat
    PROVE  (n * q + x) % n = x % n
<1> DEFINE s == x \div n
           t == x % n
<1>1. s \in Nat /\ t \in 0..n - 1 /\ x = n * s + t
  BY DivMod, Zenon
<1> HIDE DEF s, t
<1>2. n * q + x = n * (q + s) + t
  BY <1>1, Z3
<1>3. q + s \in Nat
  BY <1>1
<1>4. (n * (q + s) + t) % n = t
  BY <1>1, <1>3, DivModUnique
<1> QED
  BY <1>2, <1>4, Zenon DEF t

\* Summands may be reduced before they are added ...
LEMMA ModPlus ==
    ASSUME NEW n \in Nat \ {0}, NEW a \in Nat, NEW b \in Nat
    PROVE  ((a % n) + (b % n)) % n = (a + b) % n
<1> DEFINE q == a \div n
           r == a % n
           s == b \div n
           t == b % n
<1>1. q \in Nat /\ r \in 0..n - 1 /\ a = n * q + r
  BY DivMod, Zenon
<1>2. s \in Nat /\ t \in 0..n - 1 /\ b = n * s + t
  BY DivMod, Zenon
<1> HIDE DEF q, r, s, t
<1>3. a + b = n * (q + s) + (r + t)
  BY <1>1, <1>2, Z3
<1>4. q + s \in Nat /\ r + t \in Nat
  BY <1>1, <1>2
<1>5. (n * (q + s) + (r + t)) % n = (r + t) % n
  BY <1>4, ModShift, Zenon
<1> QED
  BY <1>3, <1>5, Zenon DEF r, t

\* ... and factors before they are multiplied.
LEMMA ModTimes ==
    ASSUME NEW n \in Nat \ {0}, NEW a \in Nat, NEW b \in Nat
    PROVE  (a * (b % n)) % n = (a * b) % n
<1> DEFINE s == b \div n
           t == b % n
<1>1. s \in Nat /\ t \in 0..n - 1 /\ b = n * s + t
  BY DivMod, Zenon
<1> HIDE DEF s, t
<1>2. a * b = n * (a * s) + a * t
  BY <1>1, Z3
<1>3. a * s \in Nat /\ a * t \in Nat
  BY <1>1
<1>4. (n * (a * s) + a * t) % n = (a * t) % n
  BY <1>3, ModShift, Zenon
<1> QED
  BY <1>2, <1>4, Zenon DEF t

\* s = e / k, with the inverses v of k and w of s.
Signed(n, k, v, w, u, e, s) ==
    /\ e = u % n /\ s = (e * v) % n
    /\ (v * k) % n = 1 /\ (w * s) % n = 1

\* The equation of ECDSA: e / s is k again.
LEMMA SignatureEquation ==
    ASSUME NEW n \in Nat, n > 1, NEW k \in 1..n - 1,
           NEW v \in Nat, NEW w \in Nat,
           NEW u \in Nat, NEW e \in Nat, NEW s \in Nat,
           Signed(n, k, v, w, u, e, s)
    PROVE  (u * w) % n = k
<1>0. n \in Nat \ {0} /\ k \in Nat /\ 1 \in Nat
  OBVIOUS
<1>1. (k * s) % n = e
  <2>1. (k * ((e * v) % n)) % n = (k * (e * v)) % n
    <3>1. e * v \in Nat
      OBVIOUS
    <3> QED
      BY <1>0, <3>1, ModTimes, Zenon
  <2>2. k * (e * v) = e * (v * k)
    BY <1>0, Z3
  <2>3. (e * ((v * k) % n)) % n = (e * (v * k)) % n
    <3>1. v * k \in Nat
      BY <1>0
    <3> QED
      BY <1>0, <3>1, ModTimes, Zenon
  <2>4. e * 1 = e /\ e % n = e
    <3>1. e \in 0..n - 1
      BY <1>0, DivMod DEF Signed
    <3> QED
      BY <1>0, <3>1
  <2> QED
    BY <2>1, <2>2, <2>3, <2>4, Zenon DEF Signed
<1>2. (w * u) % n = (w * (k * s)) % n
  <2>1. (w * (u % n)) % n = (w * u) % n
    BY <1>0, ModTimes, Zenon
  <2>2. (w * ((k * s) % n)) % n = (w * (k * s)) % n
    <3>1. k * s \in Nat
      BY <1>0
    <3> QED
      BY <1>0, <3>1, ModTimes, Zenon
  <2> QED
    BY <1>1, <2>1, <2>2, Zenon DEF Signed
<1>3. w * (k * s) = k * (w * s)
  BY <1>0, Z3
<1>4. (k * ((w * s) % n)) % n = (k * (w * s)) % n
  <2>1. w * s \in Nat
    OBVIOUS
  <2> QED
    BY <1>0, <2>1, ModTimes, Zenon
<1>5. k * 1 = k /\ k % n = k
  BY <1>0
<1>6. u * w = w * u
  OBVIOUS
<1> QED
  BY <1>2, <1>3, <1>4, <1>5, <1>6, Zenon DEF Signed

\* One subtraction is enough below 2n.
LEMMA SubtractOnce ==
    ASSUME NEW n \in Nat \ {0}, NEW x \in Nat, x < 2 * n
    PROVE  x % n = IF x >= n THEN x - n ELSE x
<1>1. CASE x >= n
  <2> DEFINE r == x - n
  <2>1. r \in 0..n - 1 /\ x = n * 1 + r /\ 1 \in Nat
    BY <1>1
  <2> HIDE DEF r
  <2>2. (n * 1 + r) % n = r
    BY <2>1, DivModUnique
  <2> QED
    BY <1>1, <2>1, <2>2 DEF r
<1>2. CASE x < n
  BY <1>2
<1> QED
  BY <1>1, <1>2

\* Reducing modulo a multiple of m first changes nothing.
LEMMA ModMod ==
    ASSUME NEW x \in Nat, NEW p \in Nat \ {0}, NEW m \in Nat \ {0}
    PROVE  (x % (p * m)) % m = x % m
<1> DEFINE q == (x \div m) % p
           r == x % m
<1>1. x \div m \in Nat /\ r \in 0..m - 1
  BY DivMod, Zenon
<1>2. q \in 0..p - 1
  BY <1>1, DivMod
<1>3. x % (p * m) = r + q * m
  BY ModMul, Zenon
<1> HIDE DEF q, r
<1>4. q \in Nat /\ r + q * m = m * q + r
  BY <1>1, <1>2
<1>5. (m * q + r) % m = r
  BY <1>1, <1>4, DivModUnique
<1> QED
  BY <1>3, <1>4, <1>5, Zenon DEF r

-----------------------------------------------------------------------------
(* The kernel's functions, as vli.rs uses them with the order of the curve *)

\* The order and the coordinates are integers of N limbs, and one subtraction
\* of the order reduces every integer of N limbs.
LEMMA CurveFacts ==
    /\ CurveN \in Nat \ {0} /\ CurveN > 1 /\ Radix \in Nat \ {0}
    /\ CurveN < Radix /\ Radix < 2 * CurveN
    /\ get_curve_n \in Vlis /\ IntOf(get_curve_n) = CurveN
    /\ \A k \in 1..CurveN - 1 : /\ ToVli(k) \in Vlis /\ IntOf(ToVli(k)) = k
                                /\ Multiples[k].x \in Nat
                                /\ Multiples[k].x < Radix
                                /\ Multiples[k].y \in Nat
                                /\ Multiples[k].y < Radix
<1>1. Radix \in Nat \ {0}
  BY BaseFacts
<1>2. /\ CurveN \in Nat \ {0} /\ CurveN > 1
      /\ CurveN < Radix /\ Radix < 2 * CurveN
  BY <1>1, CurveAssumption
<1>3. get_curve_n \in Vlis /\ IntOf(get_curve_n) = CurveN
  BY <1>2, VliOfInt DEF get_curve_n
<1>4. ASSUME NEW k \in 1..CurveN - 1
      PROVE  ToVli(k) \in Vlis /\ IntOf(ToVli(k)) = k
  <2>1. k \in Nat /\ k < Radix
    BY <1>1, <1>2
  <2> QED
    BY <2>1, VliOfInt
<1>5. ASSUME NEW k \in 1..CurveN - 1
      PROVE  /\ Multiples[k].x \in Nat /\ Multiples[k].x < Radix
             /\ Multiples[k].y \in Nat /\ Multiples[k].y < Radix
  <2>1. Multiples[k] \in [x : 0..Radix - 1, y : 0..Radix - 1]
    BY CurveAssumption
  <2> QED
    BY <1>1, <2>1
<1> QED
  BY <1>1, <1>2, <1>3, <1>4, <1>5, Zenon

\* Ord for Vli (vli.rs) compares the integers.
LEMMA GeExact ==
    ASSUME NEW l \in Vlis, NEW r \in Vlis
    PROVE  ge(l, r) <=> IntOf(l) >= IntOf(r)
<1> DEFINE a == IntOf(l)
           b == IntOf(r)
<1>1. a \in Int /\ b \in Int
  BY IntOfVli, CurveFacts
<1>2. ge(l, r) <=> (CASE vli_cmp(l, r) = 0 -> "Equal"
                      [] vli_cmp(l, r) < 0 -> "Less"
                      [] vli_cmp(l, r) > 0 -> "Greater") # "Less"
  BY DEF ge, cmp_ffi
<1>3. vli_cmp(l, r) = IF a < b THEN -1 ELSE IF a > b THEN 1 ELSE 0
  BY DEF vli_cmp
<1> HIDE DEF a, b
<1>4. CASE a < b
  BY <1>1, <1>2, <1>3, <1>4 DEF a, b
<1>5. CASE a > b
  BY <1>1, <1>2, <1>3, <1>5 DEF a, b
<1>6. CASE a = b
  BY <1>1, <1>2, <1>3, <1>6 DEF a, b
<1> QED
  BY <1>1, <1>4, <1>5, <1>6

\* Sub for Vli subtracts, modulo the radix.
LEMMA SubExact ==
    ASSUME NEW l \in Vlis, NEW r \in Vlis
    PROVE  /\ sub(l, r) \in Vlis
           /\ IntOf(sub(l, r)) = IF IntOf(l) >= IntOf(r)
                                 THEN IntOf(l) - IntOf(r)
                                 ELSE Radix + IntOf(l) - IntOf(r)
<1> DEFINE a == IntOf(l)
           b == IntOf(r)
           x == Radix + a - b
           y == x % Radix
<1>1. Radix \in Nat \ {0} /\ a \in 0..Radix - 1 /\ b \in 0..Radix - 1
  BY IntOfVli, CurveFacts
<1>2. sub(l, r) = ToVli(y)
  BY DEF sub, sub_with_borrow, vli_sub
<1> HIDE DEF a, b
<1>3. x \in Nat /\ x < 2 * Radix
  BY <1>1
<1>4. y = IF x >= Radix THEN x - Radix ELSE x
  BY <1>1, <1>3, SubtractOnce, Zenon
<1>5. y \in Nat /\ y < Radix /\ y = IF a >= b THEN a - b ELSE Radix + a - b
  BY <1>1, <1>4
<1> HIDE DEF y
<1>6. ToVli(y) \in Vlis /\ IntOf(ToVli(y)) = y
  BY <1>5, VliOfInt
<1> QED
  BY <1>2, <1>5, <1>6 DEF a, b

\* `if v >= n { v - n }` is v mod n: an integer of N limbs is below 2n.
LEMMA ReduceExact ==
    ASSUME NEW v \in Vlis
    PROVE  /\ Reduce(v, get_curve_n) \in Vlis
           /\ IntOf(Reduce(v, get_curve_n)) = IntOf(v) % CurveN
<1> DEFINE x == IntOf(v)
           g == get_curve_n
<1>1. /\ CurveN \in Nat \ {0} /\ Radix \in Nat /\ Radix < 2 * CurveN
      /\ g \in Vlis /\ IntOf(g) = CurveN
  BY CurveFacts
<1>2. x \in Nat /\ x < 2 * CurveN
  BY <1>1, IntOfVli
<1>3. x % CurveN = IF x >= CurveN THEN x - CurveN ELSE x
  BY <1>1, <1>2, SubtractOnce
<1>4. ge(v, g) <=> x >= CurveN
  BY <1>1, GeExact
<1>5. sub(v, g) \in Vlis /\ (x >= CurveN => IntOf(sub(v, g)) = x - CurveN)
  BY <1>1, SubExact
<1> HIDE DEF x, g
<1>6. Reduce(v, g) = IF x >= CurveN THEN sub(v, g) ELSE v
  BY <1>4 DEF Reduce
<1> QED
  BY <1>3, <1>5, <1>6 DEF x, g

\* mod_mult multiplies modulo the order.
LEMMA MulExact ==
    ASSUME NEW l \in Vlis, NEW r \in Vlis
    PROVE  /\ mod_mult(l, r, get_curve_n) \in Vlis
           /\ IntOf(mod_mult(l, r, get_curve_n))
                = (IntOf(l) * IntOf(r)) % CurveN
<1> DEFINE x == IntOf(l) * IntOf(r)
           y == x % CurveN
<1>1. /\ CurveN \in Nat \ {0} /\ Radix \in Nat /\ CurveN < Radix
      /\ IntOf(get_curve_n) = CurveN
  BY CurveFacts
<1>2. x \in Nat
  <2>1. IntOf(l) \in Nat /\ IntOf(r) \in Nat
    BY <1>1, IntOfVli
  <2> QED
    BY <2>1
<1>3. mod_mult(l, r, get_curve_n) = ToVli(y)
  BY <1>1 DEF mod_mult, vli_mod_mult_slow
<1> HIDE DEF x
<1>4. y \in 0..CurveN - 1
  BY <1>1, <1>2, DivMod
<1> HIDE DEF y
<1>5. y \in Nat /\ y < Radix
  BY <1>1, <1>4
<1> QED
  BY <1>3, <1>5, VliOfInt DEF x, y

\* mod_inv inverts modulo the order.
LEMMA InvExact ==
    ASSUME NEW k \in 1..CurveN - 1
    PROVE  /\ mod_inv(ToVli(k), get_curve_n) \in Vlis
           /\ (IntOf(mod_inv(ToVli(k), get_curve_n)) * k) % CurveN = 1
<1> DEFINE I(j) == (j * k) % CurveN = 1
           y == CHOOSE j \in 0..CurveN - 1 : I(j)
<1>1. /\ CurveN \in Nat \ {0} /\ Radix \in Nat /\ CurveN < Radix
      /\ IntOf(get_curve_n) = CurveN /\ IntOf(ToVli(k)) = k
  BY CurveFacts
<1>2. mod_inv(ToVli(k), get_curve_n) = ToVli(y)
  BY <1>1 DEF mod_inv, vli_mod_inv
<1>3. \E j \in 0..CurveN - 1 : I(j)
  <2>1. PICK j \in 1..CurveN - 1 : I(j)
    BY CurveAssumption, Zenon
  <2>2. j \in 0..CurveN - 1
    BY <1>1
  <2> QED
    BY <2>1, <2>2, Zenon
<1>4. y \in 0..CurveN - 1 /\ I(y)
  BY <1>3, Zenon
<1> HIDE DEF y
<1>5. y \in Nat /\ y < Radix
  BY <1>1, <1>4
<1>6. ToVli(y) \in Vlis /\ IntOf(ToVli(y)) = y
  BY <1>5, VliOfInt
<1> QED
  BY <1>2, <1>4, <1>6, Zenon

\* The sum of two residues is reduced, whether or not it overflows the limbs.
LEMMA ReduceSumExact ==
    ASSUME NEW l \in Vlis, NEW r \in Vlis,
           IntOf(l) < CurveN, IntOf(r) < CurveN
    PROVE  LET s == ReduceSum(carrying_add(l, r, 0), get_curve_n)
           IN  s \in Vlis /\ IntOf(s) = (IntOf(l) + IntOf(r)) % CurveN
<1> DEFINE a == IntOf(l)
           b == IntOf(r)
           sum == carrying_add(l, r, 0)
           lo == IntOf(sum[1])
           hi == sum[2]
           g == get_curve_n
           d == sub(sum[1], g)
<1>1. /\ CurveN \in Nat \ {0} /\ Radix \in Nat \ {0}
      /\ CurveN < Radix /\ Radix < 2 * CurveN
      /\ g \in Vlis /\ IntOf(g) = CurveN
  BY CurveFacts
<1>2. 0 \in Limbs /\ \A x \in Limbs : x \in Nat
  BY BaseFacts DEF Limbs
<1>3. /\ sum[1] \in Vlis /\ hi \in Nat
      /\ lo + hi * Radix = a + b + 0
  BY <1>2, CarryingAddSum
<1>4. a \in Nat /\ b \in Nat /\ lo \in Nat /\ lo < Radix
  BY <1>1, <1>3, IntOfVli
<1>5. ge(sum[1], g) <=> lo >= CurveN
  BY <1>1, <1>3, GeExact
<1>6. /\ d \in Vlis
      /\ IntOf(d) = IF lo >= CurveN THEN lo - CurveN
                    ELSE Radix + lo - CurveN
  BY <1>1, <1>3, SubExact
<1>7. ReduceSum(sum, g) = IF hi # 0 \/ lo >= CurveN THEN d ELSE sum[1]
  BY <1>5 DEF ReduceSum
<1>8. a < CurveN /\ b < CurveN
  OBVIOUS
<1> HIDE DEF a, b, sum, lo, hi, g, d
<1>9. hi = 0 \/ hi = 1
  <2>1. hi * Radix < 2 * Radix
    <3>1. hi * Radix \in Nat
      BY <1>1, <1>3
    <3> QED
      BY <1>1, <1>3, <1>4, <1>8, <3>1
  <2>2. hi >= 2 => hi * Radix >= 2 * Radix
    BY <1>1, <1>3, Z3
  <2> QED
    BY <1>1, <1>3, <2>1, <2>2
<1>10. (a + b) % CurveN = IF a + b >= CurveN THEN a + b - CurveN ELSE a + b
  <2> DEFINE t == a + b
  <2>1. t \in Nat /\ t < 2 * CurveN
    BY <1>1, <1>4, <1>8
  <2> HIDE DEF t
  <2>2. t % CurveN = IF t >= CurveN THEN t - CurveN ELSE t
    BY <1>1, <2>1, SubtractOnce, Zenon
  <2> QED
    BY <1>1, <1>4, <2>2 DEF t
<1>11. /\ ReduceSum(sum, g) \in Vlis
       /\ IntOf(ReduceSum(sum, g)) = (a + b) % CurveN
  <2>1. CASE hi = 0
    <3>1. lo = a + b
      BY <1>1, <1>3, <1>4, <2>1
    <3>2. CASE lo >= CurveN
      <4>1. ReduceSum(sum, g) = d /\ IntOf(d) = lo - CurveN
        BY <1>6, <1>7, <3>2
      <4>2. (a + b) % CurveN = lo - CurveN
        BY <1>1, <1>4, <1>10, <3>1, <3>2
      <4> QED
        BY <1>6, <4>1, <4>2, Zenon
    <3>3. CASE ~(lo >= CurveN)
      <4>1. ReduceSum(sum, g) = sum[1]
        BY <1>7, <2>1, <3>3
      <4>2. (a + b) % CurveN = lo
        BY <1>10, <3>1, <3>3
      <4> QED
        BY <1>3, <4>1, <4>2, Zenon DEF lo
    <3> QED
      BY <3>2, <3>3
  <2>2. CASE hi = 1
    <3>1. lo + Radix = a + b
      BY <1>1, <1>3, <1>4, <2>2
    <3>2. /\ lo < CurveN /\ a + b >= CurveN
          /\ Radix + lo - CurveN = a + b - CurveN
      BY <1>1, <1>4, <1>8, <3>1
    <3> QED
      BY <1>1, <1>4, <1>6, <1>7, <1>10, <2>2, <3>2
  <2> QED
    BY <1>9, <2>1, <2>2
<1> QED
  BY <1>11, ZenonT(60) DEF a, b, sum, g

-----------------------------------------------------------------------------
(* The signature                                                           *)

\* The point k * G, as ecc_make_pub_key writes it.
LEMMA PublicPoint ==
    ASSUME NEW k \in 1..CurveN - 1
    PROVE  LET P == ecc_make_pub_key(ToVli(k))
           IN  /\ P \in Points
               /\ P.x = ecc_swap_digits(ToVli(Multiples[k].x))
               /\ P.y = ecc_swap_digits(ToVli(Multiples[k].y))
               /\ unswap(P.x) = ToVli(Multiples[k].x)
               /\ ToVli(Multiples[k].x) \in Vlis
               /\ ToVli(Multiples[k].y) \in Vlis
               /\ IntOf(ToVli(Multiples[k].x)) = Multiples[k].x
<1> DEFINE X == ToVli(Multiples[k].x)
           Y == ToVli(Multiples[k].y)
           P == ecc_make_pub_key(ToVli(k))
<1>1. IntOf(ToVli(k)) = k
  BY CurveFacts
<1>2. /\ X \in Vlis /\ Y \in Vlis /\ IntOf(X) = Multiples[k].x
  BY CurveFacts, VliOfInt
<1>3. P = [x |-> ecc_swap_digits(X), y |-> ecc_swap_digits(Y)]
  BY <1>1 DEF ecc_make_pub_key
<1>4. /\ ecc_swap_digits(X) \in Vlis /\ ecc_swap_digits(Y) \in Vlis
      /\ unswap(ecc_swap_digits(X)) = X
  BY <1>2, SwapTwice
<1> HIDE DEF X, Y, P
<1>5. P \in Points /\ P.x = ecc_swap_digits(X) /\ P.y = ecc_swap_digits(Y)
  BY <1>3, <1>4 DEF Points
<1> QED
  BY <1>2, <1>4, <1>5, Zenon DEF X, Y, P

\* The last byte of an integer has its parity.
LEMMA Parity ==
    ASSUME NEW y \in Nat
    PROVE  /\ Serialize(ToVli(y))[Size - 1] \in Nat
           /\ Serialize(ToVli(y))[Size - 1] % 2 = y % 2
<1> DEFINE v == ToVli(y)
           b == ByteBase
           L == LimbBytes
<1>1. /\ N \in Nat \ {0} /\ L \in Nat \ {0} /\ b \in Nat \ {0}
      /\ Base \in Nat \ {0} /\ Size \in Nat \ {0} /\ 0 \in 0..Size - 1
  BY BaseFacts
<1>2. 0 \div L = 0 /\ 0 % L = 0
  BY <1>1
<1>3. (Size - 1) \div L = N - 1 /\ (Size - 1) % L = L - 1
  <2>1. /\ (Size - 1 - 0) \div L = N - 1 - (0 \div L)
        /\ (Size - 1 - 0) % L = L - 1 - (0 % L)
    BY <1>1, ByteIndex, Zenon
  <2>2. Size - 1 - 0 = Size - 1 /\ N - 1 - 0 = N - 1 /\ L - 1 - 0 = L - 1
    BY <1>1
  <2> QED
    BY <1>2, <2>1, <2>2, Zenon
<1>4. Size - 1 \in 0..Size - 1 /\ N - 1 - (N - 1) = 0
      /\ L - 1 \in 0..L - 1 /\ L - 1 - (L - 1) = 0 /\ 0 \in 0..N - 1
  BY <1>1
<1>5. Serialize(v)[Size - 1] = Digit(v[0], 0, b)
  <2>1. Serialize(v)[Size - 1]
          = to_be_bytes(v[N - 1 - ((Size - 1) \div L)])[(Size - 1) % L]
    BY <1>4, Zenon DEF Serialize
  <2>2. to_be_bytes(v[0])[L - 1] = Digit(v[0], L - 1 - (L - 1), b)
    BY <1>4, Zenon DEF to_be_bytes
  <2> QED
    BY <1>3, <1>4, <2>1, <2>2, Zenon
<1>6. v[0] = y % Base
  <2>1. v[0] = Digit(y, 0, Base)
    BY <1>4, Zenon DEF ToVli
  <2>2. Power(Base, 0) = 1 /\ y \div 1 = y
    BY <1>1, PowerStep
  <2> QED
    BY <2>1, <2>2, Zenon DEF Digit
<1>7. v[0] \in Nat
  BY <1>1, <1>6, DivMod
<1>8. Digit(v[0], 0, b) = v[0] % b
  <2>1. Power(b, 0) = 1 /\ \A z \in Nat : z \div 1 = z
    BY <1>1, PowerStep
  <2> QED
    BY <1>7, <2>1, Zenon DEF Digit
<1>9. \E p \in Nat \ {0} : Base = p * b
  <2> DEFINE m == L - 1
             p == Power(b, m)
  <2>1. m \in Nat /\ L = m + 1 /\ b \in Nat
    BY <1>1
  <2> HIDE DEF m
  <2>2. p \in Nat \ {0} /\ Power(b, m + 1) = b * p
    BY <1>1, <2>1, PowerPositive, PowerStep
  <2> HIDE DEF p
  <2>3. b * p = p * b
    BY <1>1, <2>2
  <2>4. Base = Power(b, L)
    BY DEF Base
  <2> QED
    BY <2>1, <2>2, <2>3, <2>4, Zenon
<1>10. \E p \in Nat \ {0} : b = p * 2
  <2> DEFINE p == b \div 2
  <2>1. p \in Nat /\ b = 2 * p + (b % 2)
    BY <1>1, DivMod
  <2>2. b % 2 = 0
    BY CurveAssumption
  <2> HIDE DEF p
  <2>3. p \in Nat \ {0} /\ b = p * 2
    BY <1>1, <2>1, <2>2
  <2> QED
    BY <2>3
<1> HIDE DEF b, L, v
<1>11. (y % Base) % b = y % b
  <2>1. PICK p \in Nat \ {0} : Base = p * b
    BY <1>9
  <2> QED
    BY <1>1, <2>1, ModMod, ZenonT(60)
<1>12. (y % b) % 2 = y % 2
  <2>1. PICK p \in Nat \ {0} : b = p * 2
    BY <1>10
  <2>2. 2 \in Nat \ {0}
    OBVIOUS
  <2> QED
    BY <2>1, <2>2, ModMod, Zenon
<1>13. v[0] % b \in Nat
  BY <1>1, <1>7, DivMod
<1> QED
  BY <1>5, <1>6, <1>8, <1>11, <1>12, <1>13, Zenon DEF v

\* The discrete logarithm of the compressed public key d * G is d.
LEMMA LogOfKey ==
    ASSUME NEW d \in 1..CurveN - 1
    PROVE  LET K == Compress(ecc_make_pub_key(ToVli(d)))
           IN  K \in Pubkeys /\ LogOf(K) = d
<1> DEFINE P == ecc_make_pub_key(ToVli(d))
           K == Compress(P)
           X == Multiples[d].x
           Y == Multiples[d].y
           IsLog(k) == /\ Multiples[k].x = BigEndian(K.x, Size)
                       /\ Multiples[k].y % 2 = K.parity
<1>1. /\ P.x = ecc_swap_digits(ToVli(X)) /\ P.y = ecc_swap_digits(ToVli(Y))
      /\ ToVli(X) \in Vlis /\ ToVli(Y) \in Vlis /\ IntOf(ToVli(X)) = X
  BY PublicPoint
<1>2. Y \in Nat
  BY CurveFacts, Zenon
<1>3. /\ AsBytes(P.x) = Serialize(ToVli(X))
      /\ AsBytes(P.y) = Serialize(ToVli(Y))
      /\ AsBytes(P.x) \in Bytes
  BY <1>1, SwappedBytes, Zenon
<1>4. K = [parity |-> AsBytes(P.y)[Size - 1] % 2, x |-> AsBytes(P.x)]
  BY Zenon DEF Compress
<1>5. K.parity = Y % 2 /\ K.x = Serialize(ToVli(X))
  <2> HIDE DEF K, P, X, Y
  <2>1. K.parity = AsBytes(P.y)[Size - 1] % 2 /\ K.x = AsBytes(P.x)
    BY <1>4
  <2> QED
    BY <1>2, <1>3, <2>1, Parity, Zenon
<1>6. Y % 2 \in 0..1
  BY <1>2
<1>7. K \in Pubkeys
  BY <1>3, <1>4, <1>5, <1>6 DEF Pubkeys
<1>8. BigEndian(K.x, Size) = X
  BY <1>1, <1>5, SerializedValue, Zenon
<1> HIDE DEF K, P
<1>9. IsLog(d)
  BY <1>5, <1>8, Zenon
<1>10. LogOf(K) = CHOOSE k \in 1..CurveN - 1 : IsLog(k)
  BY Zenon DEF LogOf
<1>11. LogOf(K) \in 1..CurveN - 1 /\ IsLog(LogOf(K))
  BY <1>9, <1>10, Zenon
<1>12. LogOf(K) = d
  <2> DEFINE j == LogOf(K)
  <2>1. /\ Multiples[j].x = Multiples[d].x
        /\ Multiples[j].y % 2 = Multiples[d].y % 2
    BY <1>9, <1>11, Zenon
  <2> QED
    BY <1>11, <2>1, CurveAssumption, Zenon
<1> QED
  BY <1>7, <1>12, Zenon DEF K, P

\* The key pair of the private key d.
KeyPairOf(d) == [private |-> ToVli(d),
                 pubkey |-> Compress(ecc_make_pub_key(ToVli(d))),
                 curve_n |-> get_curve_n]

\* The locals of ecdsa_sign where it computes the signature.
Signing(k, d) == /\ scalar = ToVli(k)
                 /\ point = ecc_make_pub_key(ToVli(k))
                 /\ keypair = KeyPairOf(d)
                 /\ hash \in Bytes

\* What ecdsa_sign computes: r is the point's coordinate modulo n, and s is
\* (hash + r * d) / k.
LEMMA SignatureValues ==
    ASSUME NEW k \in 1..CurveN - 1, NEW d \in 1..CurveN - 1, Signing(k, d)
    PROVE  /\ SigR \in Vlis /\ SigS \in Vlis
           /\ IntOf(SigR) = Multiples[k].x % CurveN
           /\ \E v \in Nat :
                 /\ (v * k) % CurveN = 1
                 /\ IntOf(SigS)
                      = (((BigEndian(hash, Size) + IntOf(SigR) * d) % CurveN)
                            * v) % CurveN
<1> DEFINE n == CurveN
           g == get_curve_n
           h == from_be_bytes(hash)
           z == Reduce(h, g)
           rd == mod_mult(SigR, ToVli(d), g)
           sum == ReduceSum(carrying_add(z, rd, 0), g)
           inv == mod_inv(ToVli(k), g)
           H == BigEndian(hash, Size)
           r == IntOf(SigR)
           v == IntOf(inv)
<1>1. n \in Nat \ {0} /\ ToVli(d) \in Vlis /\ IntOf(ToVli(d)) = d /\ d \in Nat
  BY CurveFacts
<1>2. /\ keypair.curve_n = g /\ keypair.private = ToVli(d)
      /\ point.x = ecc_make_pub_key(ToVli(k)).x /\ scalar = ToVli(k)
  BY DEF Signing, KeyPairOf
<1>3. SigR = Reduce(ToVli(Multiples[k].x), g)
  BY <1>2, PublicPoint, Zenon DEF SigR
<1>4. SigR \in Vlis /\ r = Multiples[k].x % n
  <2>1. /\ ToVli(Multiples[k].x) \in Vlis
        /\ IntOf(ToVli(Multiples[k].x)) = Multiples[k].x
    BY PublicPoint, Zenon
  <2> QED
    BY <1>3, <2>1, ReduceExact, Zenon
<1>5. SigS = mod_mult(sum, inv, g)
  BY <1>2, Zenon DEF SigS
<1>6. h \in Vlis /\ IntOf(h) = H /\ H \in Nat
  <2>1. H \in 0..Radix - 1 /\ h = ToVli(H)
    BY BytesValue DEF Signing
  <2>2. H \in Nat /\ H < Radix
    BY <2>1, CurveFacts
  <2> QED
    BY <2>1, <2>2, VliOfInt, ZenonT(60)
<1>7. z \in Vlis /\ IntOf(z) = H % n
  BY <1>6, ReduceExact, Zenon
<1>8. rd \in Vlis /\ IntOf(rd) = (r * d) % n
  BY <1>1, <1>4, MulExact, ZenonT(60)
<1>9. r \in Nat
  BY <1>4, IntOfVli, CurveFacts
<1>10. inv \in Vlis /\ (v * k) % n = 1
  BY InvExact, Zenon
<1>11. v \in Nat
  BY <1>10, IntOfVli, CurveFacts
<1> HIDE DEF h, z, rd, inv, H, r, n, g, v
<1>12. r * d \in Nat
  BY <1>1, <1>9
<1>13. IntOf(z) < n /\ IntOf(rd) < n
  <2>1. H % n \in 0..n - 1 /\ (r * d) % n \in 0..n - 1
    BY <1>1, <1>6, <1>12, DivMod
  <2> QED
    BY <1>1, <1>7, <1>8, <2>1
<1>14. sum \in Vlis /\ IntOf(sum) = (IntOf(z) + IntOf(rd)) % n
  BY <1>7, <1>8, <1>13, ReduceSumExact, Zenon DEF n, g
<1>15. ((H % n) + ((r * d) % n)) % n = (H + r * d) % n
  BY <1>1, <1>6, <1>12, ModPlus, Zenon
<1>16. IntOf(sum) = (H + r * d) % n
  BY <1>7, <1>8, <1>14, <1>15, Zenon
<1> HIDE DEF sum
<1>17. SigS \in Vlis /\ IntOf(SigS) = (IntOf(sum) * v) % n
  BY <1>5, <1>10, <1>14, MulExact, Zenon DEF g, n, v
<1>18. (v * k) % n = 1 /\ IntOf(SigS) = (((H + r * d) % n) * v) % n
  BY <1>10, <1>16, <1>17, Zenon
<1> QED
  BY <1>4, <1>11, <1>17, <1>18, Zenon DEF H, r, n

\* A signature that is not retried verifies.
LEMMA AttemptVerifies ==
    ASSUME NEW k \in 1..CurveN - 1, NEW d \in 1..CurveN - 1, Signing(k, d),
           ~Unusable
    PROVE  LET req == [hash |-> hash, pubkey |-> keypair.pubkey,
                       sig_r |-> Serialize(SigR), sig_s |-> Serialize(SigS)]
           IN  req \in Signatures /\ Verifies(req)
<1> DEFINE n == CurveN
           K == keypair.pubkey
           req == [hash |-> hash, pubkey |-> K,
                   sig_r |-> Serialize(SigR), sig_s |-> Serialize(SigS)]
           r == IntOf(SigR)
           s == IntOf(SigS)
           H == BigEndian(hash, Size)
           u == H + r * d
           e == u % n
           w == CHOOSE j \in 1..CurveN - 1 : (j * s) % CurveN = 1
           R == (u * w) % n
<1>1. /\ SigR \in Vlis /\ SigS \in Vlis /\ r = Multiples[k].x % n
  BY SignatureValues
<1>2. PICK v \in Nat : (v * k) % n = 1 /\ s = (e * v) % n
  BY SignatureValues
<1>3. n \in Nat \ {0} /\ n > 1 /\ k \in Nat /\ d \in Nat
  BY CurveFacts
<1>4. K \in Pubkeys /\ LogOf(K) = d
  BY LogOfKey DEF Signing, KeyPairOf
<1>5. hash \in Bytes /\ H \in Nat
  <2>1. H \in 0..Radix - 1
    BY BytesValue DEF Signing
  <2> QED
    BY <2>1, CurveFacts DEF Signing
<1>6. Serialize(SigR) \in Bytes /\ Serialize(SigS) \in Bytes
  BY <1>1, SwappedBytes
<1>7. /\ BigEndian(Serialize(SigR), Size) = r
      /\ BigEndian(Serialize(SigS), Size) = s
  BY <1>1, SerializedValue
<1>8. r # 0 /\ s # 0
  BY DEF Unusable, is_zero, vli_is_zero
<1>9. req \in Signatures
  BY <1>4, <1>5, <1>6 DEF Signatures
<1>10. Multiples[k].x \in Nat
  BY CurveFacts
<1>11. Verifies(req) <=> /\ r \in 1..CurveN - 1 /\ s \in 1..CurveN - 1
                         /\ R # 0 /\ Multiples[R].x % CurveN = r
  <2> HIDE DEF K, r, s, H
  <2>1. /\ req.hash = hash /\ req.pubkey = K
        /\ req.sig_r = Serialize(SigR) /\ req.sig_s = Serialize(SigS)
    OBVIOUS
  <2> HIDE DEF req
  <2> QED
    BY <1>4, <1>7, <2>1, Zenon DEF Verifies, H
<1> HIDE DEF K, r, s, H, n, req
<1>12. r \in 1..n - 1
  <2>1. r \in 0..n - 1
    BY <1>1, <1>3, <1>10, DivMod, Zenon
  <2> QED
    BY <1>3, <1>8, <2>1
<1>13. u \in Nat
  <2>1. r \in Nat
    BY <1>3, <1>12
  <2> QED
    BY <1>3, <1>5, <2>1
<1> HIDE DEF u
<1>14. e \in Nat
  BY <1>3, <1>13, DivMod
<1>15. s \in 1..n - 1
  <2>1. e * v \in Nat
    BY <1>14
  <2>2. s \in 0..n - 1
    BY <1>2, <1>3, <2>1, DivMod, Zenon
  <2> QED
    BY <1>3, <1>8, <2>2
<1>16. w \in 1..n - 1 /\ (w * s) % n = 1
  <2>1. \E j \in 1..CurveN - 1 : (j * s) % CurveN = 1
    BY <1>15, CurveAssumption, Zenon DEF n
  <2> QED
    BY <2>1, Zenon DEF n
<1>17. w \in Nat /\ s \in Nat
  BY <1>3, <1>15, <1>16
<1> HIDE DEF w
<1>18. Signed(n, k, v, w, u, e, s)
  BY <1>2, <1>16, Zenon DEF Signed
<1> HIDE DEF e
<1>19. R = k
  BY <1>3, <1>13, <1>14, <1>17, <1>18, SignatureEquation DEF n
<1>20. k # 0
  OBVIOUS
<1> HIDE DEF R
<1> QED
  BY <1>1, <1>9, <1>11, <1>12, <1>15, <1>19, <1>20, Zenon DEF n, req, K

-----------------------------------------------------------------------------
(* The theorems on EcdsaSign                                               *)

\* A scalar has been drawn, so that the calls below are made with a multiple.
ScalarDrawn == pc \in {"point", "multiply", "use"} =>
                   \E k \in 1..CurveN - 1 : scalar = ToVli(k)

\* make_public_key's point is the scalar's multiple of the generator.
PointComputed == pc = "use" => point = ecc_make_pub_key(scalar)

\* The key pair in use is one that generate_key_pair made.
KeyPairMade == keypair # None =>
                   \E d \in 1..CurveN - 1 : keypair = KeyPairOf(d)

\* ecdsa_sign is called with a key pair.
SignsWithKeyPair == hash # None => keypair # None

\* The inductive invariant: what SignatureVerifies says of a finished call
\* depends on what each earlier step has left in the call's locals.
SignInv == /\ PointsFreed /\ SignatureVerifies
           /\ ScalarDrawn /\ PointComputed /\ KeyPairMade /\ SignsWithKeyPair

\* A call of ecdsa_sign that computes a signature has the locals it needs.
LEMMA AttemptSigns ==
    ASSUME SignInv, pc = "use", hash # None
    PROVE  \E k, d \in 1..CurveN - 1 : Signing(k, d)
<1>1. PICK k \in 1..CurveN - 1 : scalar = ToVli(k)
  BY DEF SignInv, ScalarDrawn
<1>2. point = ecc_make_pub_key(ToVli(k))
  BY <1>1 DEF SignInv, PointComputed
<1>3. PICK d \in 1..CurveN - 1 : keypair = KeyPairOf(d)
  BY DEF SignInv, SignsWithKeyPair, KeyPairMade
<1>4. hash \in Bytes
  BY DEF SignInv, PointsFreed, TypeOK
<1> QED
  BY <1>1, <1>2, <1>3, <1>4, Zenon DEF Signing

\* The key pair that generate_key_pair makes has its type.
LEMMA KeyPairType ==
    ASSUME NEW d \in 1..CurveN - 1
    PROVE  KeyPairOf(d) \in KeyPairs
<1>1. ToVli(d) \in Vlis /\ get_curve_n \in Vlis
  BY CurveFacts
<1>2. Compress(ecc_make_pub_key(ToVli(d))) \in Pubkeys
  BY LogOfKey, Zenon
<1> QED
  BY <1>1, <1>2 DEF KeyPairOf, KeyPairs

\* Steps of the calls preserve the invariant.
LEMMA SignStep ==
    ASSUME SignInv, [Next]_vars
    PROVE  SignInv'
<1> USE DEF Stages, Errors
<1>t. /\ TypeOK /\ live = (IF pc \in {"multiply", "use"} THEN 1 ELSE 0)
      /\ pc = "idle" => scalar = None /\ point = None
  BY DEF SignInv, PointsFreed
<1>i. /\ SignatureVerifies /\ ScalarDrawn /\ PointComputed
      /\ KeyPairMade /\ SignsWithKeyPair
  BY DEF SignInv
<1>m. MaxAttempts \in Nat \ {0}
  BY CurveAssumption, Zenon
<1>f. ASSUME NEW e \in Errors, Fail(e), live' = 0, keypair' = keypair
      PROVE  SignInv'
  <2>1. PointsFreed'
    BY <1>t, <1>f, <1>m
    DEF Fail, Return, DropLocals, PointsFreed, TypeOK
  <2> QED
    BY <1>i, <1>f, <2>1 DEF Fail, Return, DropLocals, SignInv,
       SignatureVerifies, ScalarDrawn, PointComputed, KeyPairMade,
       SignsWithKeyPair
<1>1. CASE GenerateKeyPair
  <2>1. PointsFreed'
    BY <1>t, <1>1 DEF GenerateKeyPair, PointsFreed, TypeOK
  <2> QED
    BY <1>i, <1>1, <2>1 DEF GenerateKeyPair, SignInv, SignatureVerifies,
       ScalarDrawn, PointComputed, KeyPairMade, SignsWithKeyPair
<1>2. CASE Sign
  <2>1. PointsFreed'
    BY <1>t, <1>2, <1>m DEF Sign, sha256_hash, PointsFreed, TypeOK
  <2> QED
    BY <1>i, <1>2, <2>1 DEF Sign, SignInv, SignatureVerifies,
       ScalarDrawn, PointComputed, KeyPairMade, SignsWithKeyPair
<1>3. CASE generate_private_key
  <2>1. CASE Fail("errno")
    BY <1>t, <1>3, <1>f, <2>1 DEF generate_private_key
  <2>2. CASE ~Fail("errno")
    <3>1. PICK k \in 1..CurveN - 1 : scalar' = ToVli(k)
      BY <1>3, <2>2, CurveAssumption, Zenon DEF generate_private_key
    <3>2. /\ pc' = "point"
          /\ UNCHANGED <<hash, attempt, point, ret, sig, keypair, live>>
      BY <1>3, <2>2 DEF generate_private_key
    <3>3. ToVli(k) \in Vlis
      BY CurveFacts
    <3>4. pc = "scalar"
      BY <1>3 DEF generate_private_key
    <3>5. PointsFreed'
      BY <1>t, <3>1, <3>2, <3>3, <3>4 DEF PointsFreed, TypeOK
    <3>6. ScalarDrawn'
      BY <3>1 DEF ScalarDrawn
    <3> QED
      BY <1>i, <3>2, <3>5, <3>6 DEF SignInv, SignatureVerifies, PointComputed,
         KeyPairMade, SignsWithKeyPair
  <2> QED
    BY <2>1, <2>2
<1>4. CASE AllocPoint
  <2>1. pc = "point" /\ keypair' = keypair /\ live = 0
    BY <1>t, <1>4 DEF AllocPoint
  <2>2. CASE Fail("ENOMEM") /\ UNCHANGED live
    BY <1>f, <2>1, <2>2
  <2>3. CASE Fail("EFAULT") /\ UNCHANGED live
    BY <1>f, <2>1, <2>3
  <2>4. CASE /\ pc' = "multiply" /\ live' = live + 1
             /\ point' = [x |-> ToVli(0), y |-> ToVli(0)]
             /\ UNCHANGED <<hash, attempt, scalar, ret, sig>>
    <3>1. ToVli(0) \in Vlis
      BY CurveFacts, VliOfInt
    <3>2. PointsFreed'
      BY <1>t, <2>1, <2>4, <3>1 DEF PointsFreed, TypeOK, Points
    <3> QED
      BY <1>i, <2>1, <2>4, <3>2 DEF SignInv, SignatureVerifies, ScalarDrawn,
         PointComputed, KeyPairMade, SignsWithKeyPair
  <2> QED
    BY <1>4, <2>2, <2>3, <2>4 DEF AllocPoint
<1>5. CASE MakePubKey
  <2>1. pc = "multiply" /\ keypair' = keypair /\ live = 1
    BY <1>t, <1>5 DEF MakePubKey
  <2>2. CASE Fail("errno") /\ FreePoint
    BY <1>f, <2>1, <2>2 DEF FreePoint
  <2>3. CASE /\ point' = ecc_make_pub_key(scalar) /\ pc' = "use"
             /\ UNCHANGED <<hash, attempt, scalar, ret, sig, live>>
    <3>1. PICK k \in 1..CurveN - 1 : scalar = ToVli(k)
      BY <1>i, <2>1 DEF ScalarDrawn
    <3>2. ecc_make_pub_key(scalar) \in Points
      BY <3>1, PublicPoint, Zenon
    <3>3. PointsFreed'
      BY <1>t, <2>1, <2>3, <3>2 DEF PointsFreed, TypeOK
    <3>4. PointComputed'
      BY <2>3 DEF PointComputed, ecc_make_pub_key
    <3> QED
      BY <1>i, <2>1, <2>3, <3>3, <3>4 DEF SignInv, SignatureVerifies,
         ScalarDrawn, KeyPairMade, SignsWithKeyPair
  <2> QED
    BY <1>5, <2>2, <2>3 DEF MakePubKey
<1>6. CASE FinishKeyPair
  <2>1. pc = "use" /\ live = 1 /\ live' = 0
    BY <1>t, <1>6 DEF FinishKeyPair, FreePoint
  <2>2. CASE Fail("EINVAL") /\ UNCHANGED keypair
    BY <1>f, <2>1, <2>2
  <2>3. CASE /\ keypair' = [private |-> scalar, pubkey |-> Compress(point),
                            curve_n |-> get_curve_n]
             /\ Return("ok", None)
    <3>1. PICK d \in 1..CurveN - 1 : scalar = ToVli(d)
      BY <1>i, <2>1 DEF ScalarDrawn
    <3>2. point = ecc_make_pub_key(scalar)
      BY <1>i, <2>1 DEF PointComputed
    <3>3. keypair' = KeyPairOf(d)
      BY <2>3, <3>1, <3>2, Zenon DEF KeyPairOf
    <3>4. KeyPairOf(d) \in KeyPairs
      BY KeyPairType
    <3>5. PointsFreed'
      BY <1>t, <1>m, <2>1, <2>3, <3>3, <3>4
      DEF PointsFreed, TypeOK, Return, DropLocals
    <3>6. KeyPairMade'
      BY <3>3, Zenon DEF KeyPairMade, KeyPairOf, get_curve_n
    <3> QED
      BY <1>i, <2>3, <3>5, <3>6 DEF SignInv, SignatureVerifies, ScalarDrawn,
         PointComputed, SignsWithKeyPair, Return, DropLocals
  <2> QED
    BY <1>6, <2>2, <2>3 DEF FinishKeyPair
<1>7. CASE Attempt
  <2>1. /\ pc = "use" /\ hash # None /\ live = 1 /\ live' = 0
        /\ keypair' = keypair
    BY <1>t, <1>7 DEF Attempt, FreePoint
  <2>2. CASE Unusable /\ attempt = MaxAttempts
    BY <1>7, <1>f, <2>1, <2>2 DEF Attempt, Retry
  <2>3. CASE Unusable /\ attempt # MaxAttempts
    <3>1. /\ attempt' = attempt + 1 /\ pc' = "scalar" /\ DropLocals
          /\ UNCHANGED <<hash, ret, sig>>
      BY <1>7, <2>3 DEF Attempt, Retry
    <3>2. PointsFreed'
      BY <1>t, <1>m, <2>1, <2>3, <3>1
      DEF PointsFreed, TypeOK, DropLocals
    <3> QED
      BY <1>i, <2>1, <3>1, <3>2 DEF SignInv, SignatureVerifies, ScalarDrawn,
         PointComputed, KeyPairMade, SignsWithKeyPair
  <2>4. CASE ~Unusable
    <3> DEFINE req == [hash |-> hash, pubkey |-> keypair.pubkey,
                       sig_r |-> Serialize(SigR), sig_s |-> Serialize(SigS)]
    <3>1. Return("ok", req)
      BY <1>7, <2>4 DEF Attempt
    <3>2. req \in Signatures /\ Verifies(req)
      BY <2>1, <2>4, AttemptSigns, AttemptVerifies, Zenon
    <3> HIDE DEF req
    <3>3. PointsFreed'
      BY <1>t, <1>m, <2>1, <3>1, <3>2
      DEF PointsFreed, TypeOK, Return, DropLocals
    <3>4. SignatureVerifies'
      <4>1. sig' = req
        BY <3>1 DEF Return
      <4> QED
        BY <3>2, <4>1, Zenon DEF SignatureVerifies, Verifies, LogOf
    <3> QED
      BY <1>i, <2>1, <3>1, <3>3, <3>4 DEF SignInv, ScalarDrawn,
         PointComputed, KeyPairMade, SignsWithKeyPair, Return, DropLocals
  <2> QED
    BY <2>2, <2>3, <2>4
<1>8. CASE UNCHANGED vars
  <2>1. PointsFreed'
    BY <1>t, <1>8 DEF vars, PointsFreed, TypeOK
  <2>2. SignatureVerifies'
    BY <1>i, <1>8 DEF vars, SignatureVerifies
  <2> QED
    BY <1>i, <1>8, <2>1, <2>2 DEF vars, SignInv, ScalarDrawn, PointComputed,
       KeyPairMade, SignsWithKeyPair
<1> QED
  BY <1>1, <1>2, <1>3, <1>4, <1>5, <1>6, <1>7, <1>8 DEF Next

\* The invariant holds in every state.
LEMMA SignInvariant == Spec => []SignInv
<1>1. Init => SignInv
  <2> SUFFICES ASSUME Init PROVE SignInv
    OBVIOUS
  <2>1. PointsFreed
    BY CurveAssumption DEF Init, PointsFreed, TypeOK, Stages
  <2> QED
    BY <2>1 DEF Init, SignInv, SignatureVerifies, ScalarDrawn, PointComputed,
       KeyPairMade, SignsWithKeyPair
<1>2. SignInv /\ [Next]_vars => SignInv'
  BY SignStep
<1> QED
  BY <1>1, <1>2, PTL DEF Spec

\* Each ecc_point is freed exactly once, on every path of generate_key_pair and
\* ecdsa_sign.
THEOREM EveryPointFreed == Spec => []PointsFreed
<1>1. SignInv => PointsFreed
  BY DEF SignInv
<1> QED
  BY <1>1, SignInvariant, PTL

\* Every signature that is written verifies.
THEOREM SignaturesVerify == Spec => []SignatureVerifies
<1>1. SignInv => SignatureVerifies
  BY DEF SignInv
<1> QED
  BY <1>1, SignInvariant, PTL
==============================================================================
