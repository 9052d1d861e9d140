---------------------------- MODULE RecordProofs ----------------------------
(***************************************************************************)
(* Proofs about the values of records: what an output record writes is what*)
(* an input record shows and what the output record shows and writes again *)
(* after a restart, for all configurations and values, all widths of a byte*)
(* and all contents of the memory.  The lemmas lead from numbers and their *)
(* digits over data types, buffers and strings to each kind of record; the *)
(* inductive invariant and the theorems about the loop are at the end.     *)
(***************************************************************************)
EXTENDS RecordLoop, SequenceTheorems, WellFoundedInduction, TLAPS

------------------------------------------------------------------------------
(***************************************************************************)
(* Natural numbers, sums and powers of two.                                *)
(***************************************************************************)
\* A set of natural numbers that is not empty has a least element.
LEMMA LeastNatural ==
  ASSUME NEW S, S \subseteq Nat, S # {}
  PROVE  \E m \in S : \A k \in S : m <= k
<1>. DEFINE R == OpToRel(<, Nat)
<1>1. IsWellFoundedOn(R, Nat)
  BY NatLessThanWellFounded
<1>2. \A x, y \in Nat : y < x => <<y, x>> \in R
  BY DEF OpToRel
<1>. HIDE DEF R
<1>3. PICK m \in S : \A y \in S : ~(<<y, m>> \in R)
  BY <1>1, WFMin
<1>4. ASSUME NEW k \in S PROVE m <= k
  <2>1. ~(<<k, m>> \in R) /\ k \in Nat /\ m \in Nat
    BY <1>3
  <2>2. ~(k < m)
    BY <2>1, <1>2
  <2>. QED
    BY <2>1, <2>2
<1>. QED
  BY <1>4

\* Induction, for a set of natural numbers.
LEMMA SetOfAllNaturals ==
  ASSUME NEW T, 0 \in T, \A n \in Nat : n \in T => n + 1 \in T
  PROVE  Nat \subseteq T
<1>. DEFINE S == Nat \ T
<1>1. SUFFICES ASSUME S # {} PROVE FALSE
  OBVIOUS
<1>2. PICK m \in S : \A k \in S : m <= k
  BY <1>1, LeastNatural
<1>3. m # 0 /\ m \in Nat
  OBVIOUS
<1>4. m - 1 \in T
  BY <1>2, <1>3
<1>. QED
  BY <1>3, <1>4

------------------------------------------------------------------------------
(***************************************************************************)
(* Sums.                                                                   *)
(***************************************************************************)
\* What the recursive definition of SumOf says: s is a function of the sums up to m.
Sums(f, m, s) == s = [i \in 0..m |-> IF i = 0 THEN 0 ELSE s[i - 1] + f[i - 1]]

\* Such a function exists for every m.
LEMMA SumsExist ==
  ASSUME NEW f, NEW m \in Nat
  PROVE  \E s : Sums(f, m, s)
<1>. DEFINE T == {n \in Nat : \E s : Sums(f, n, s)}
<1>1. 0 \in T
  <2>. DEFINE s == [i \in 0..0 |-> 0]
  <2>1. Sums(f, 0, s)
    BY DEF Sums
  <2>. QED
    BY <2>1
<1>2. ASSUME NEW n \in Nat, n \in T PROVE n + 1 \in T
  <2>1. PICK s : Sums(f, n, s)
    BY <1>2
  <2>. DEFINE t == [i \in 0..(n + 1) |-> IF i = n + 1 THEN s[n] + f[n] ELSE s[i]]
  <2>2. ASSUME NEW i \in 0..(n + 1)
        PROVE  t[i] = IF i = 0 THEN 0 ELSE t[i - 1] + f[i - 1]
    <3>1. CASE i = 0
      BY <2>1, <3>1 DEF Sums
    <3>2. CASE i \in 1..n
      <4>1. t[i] = s[i] /\ t[i - 1] = s[i - 1]
        BY <3>2
      <4>2. s[i] = s[i - 1] + f[i - 1]
        BY <2>1, <3>2 DEF Sums
      <4>. QED
        BY <3>2, <4>1, <4>2
    <3>3. CASE i = n + 1
      BY <3>3
    <3>. QED
      BY <3>1, <3>2, <3>3
  <2>3. t = [i \in 0..(n + 1) |-> IF i = 0 THEN 0 ELSE t[i - 1] + f[i - 1]]
    BY <2>2
  <2>4. Sums(f, n + 1, t)
    BY <2>3 DEF Sums
  <2>. QED
    BY <2>4
<1>. HIDE DEF T
<1>3. Nat \subseteq T
  BY <1>1, <1>2, SetOfAllNaturals
<1>. QED
  BY <1>3 DEF T

\* Two such functions agree where both are defined, whatever they are sums of further on.
LEMMA SumsAgree ==
  ASSUME NEW f, NEW g, NEW m \in Nat, NEW n \in Nat, NEW s, NEW t, Sums(f, m, s), Sums(g, n, t),
         NEW k \in Nat, k <= m, k <= n, \A i \in 0..(k - 1) : f[i] = g[i]
  PROVE  s[k] = t[k]
<1>. DEFINE T == {i \in Nat : i <= k => s[i] = t[i]}
<1>1. 0 \in T
  BY DEF Sums
<1>2. ASSUME NEW i \in Nat, i \in T PROVE i + 1 \in T
  <2>1. SUFFICES ASSUME i + 1 <= k PROVE s[i + 1] = t[i + 1]
    OBVIOUS
  <2>2. s[i] = t[i] /\ f[i] = g[i]
    BY <1>2, <2>1
  <2>3. s[i + 1] = s[i] + f[i] /\ t[i + 1] = t[i] + g[i]
    <3>1. i + 1 \in 0..m /\ i + 1 \in 0..n /\ i + 1 # 0 /\ (i + 1) - 1 = i
      BY <2>1
    <3>. QED
      BY <3>1 DEF Sums
  <2>. QED
    BY <2>2, <2>3
<1>. HIDE DEF T
<1>3. k \in T
  BY <1>1, <1>2, SetOfAllNaturals
<1>. QED
  BY <1>3 DEF T

\* SumOf is the last of these sums.
LEMMA SumOfSums ==
  ASSUME NEW f, NEW n \in Nat
  PROVE  \E s : Sums(f, n, s) /\ SumOf(f, n) = s[n]
<1>. DEFINE s == CHOOSE t : t = [i \in 0..n |-> IF i = 0 THEN 0 ELSE t[i - 1] + f[i - 1]]
<1>1. Sums(f, n, s)
  BY SumsExist DEF Sums
<1>2. SumOf(f, n) = s[n]
  BY DEF SumOf
<1>. QED
  BY <1>1, <1>2

\* A sum of no numbers, and of one number more.
LEMMA SumStep ==
  ASSUME NEW f
  PROVE  /\ SumOf(f, 0) = 0
         /\ \A n \in Nat : SumOf(f, n + 1) = SumOf(f, n) + f[n]
<1>1. SumOf(f, 0) = 0
  BY SumOfSums DEF Sums
<1>2. ASSUME NEW n \in Nat PROVE SumOf(f, n + 1) = SumOf(f, n) + f[n]
  <2>1. PICK s : Sums(f, n + 1, s) /\ SumOf(f, n + 1) = s[n + 1]
    BY SumOfSums
  <2>2. PICK t : Sums(f, n, t) /\ SumOf(f, n) = t[n]
    BY SumOfSums
  <2>3. s[n] = t[n]
    <3>1. n <= n + 1 /\ n <= n /\ n + 1 \in Nat /\ \A i \in 0..(n - 1) : f[i] = f[i]
      OBVIOUS
    <3>. QED
      BY <2>1, <2>2, <3>1, SumsAgree
  <2>4. s[n + 1] = s[n] + f[n]
    <3>1. n + 1 \in 0..(n + 1) /\ n + 1 # 0 /\ (n + 1) - 1 = n
      OBVIOUS
    <3>. QED
      BY <2>1, <3>1 DEF Sums
  <2>. QED
    BY <2>1, <2>2, <2>3, <2>4
<1>. QED
  BY <1>1, <1>2

\* Sums of the same numbers.
LEMMA SameSums ==
  ASSUME NEW f, NEW g, NEW n \in Nat, \A i \in 0..(n - 1) : f[i] = g[i]
  PROVE  SumOf(f, n) = SumOf(g, n)
<1>1. PICK s : Sums(f, n, s) /\ SumOf(f, n) = s[n]
  BY SumOfSums
<1>2. PICK t : Sums(g, n, t) /\ SumOf(g, n) = t[n]
  BY SumOfSums
<1>. QED
  BY <1>1, <1>2, SumsAgree

------------------------------------------------------------------------------
(***************************************************************************)
(* Powers of two.                                                          *)
(***************************************************************************)
\* What the recursive definition of TwoTo says: p is a function of the powers up to m.
Powers(m, p) == p = [i \in 0..m |-> IF i = 0 THEN 1 ELSE 2 * p[i - 1]]

\* What the recursive definition of TwoTo says has a solution up to every m.
LEMMA PowersExist ==
  ASSUME NEW m \in Nat
  PROVE  \E p : Powers(m, p)
<1>. DEFINE T == {n \in Nat : \E p : Powers(n, p)}
<1>1. 0 \in T
  <2>. DEFINE p == [i \in 0..0 |-> 1]
  <2>1. Powers(0, p)
    BY DEF Powers
  <2>. QED
    BY <2>1
<1>2. ASSUME NEW n \in Nat, n \in T PROVE n + 1 \in T
  <2>1. PICK p : Powers(n, p)
    BY <1>2
  <2>. DEFINE q == [i \in 0..(n + 1) |-> IF i = n + 1 THEN 2 * p[n] ELSE p[i]]
  <2>2. ASSUME NEW i \in 0..(n + 1)
        PROVE  q[i] = IF i = 0 THEN 1 ELSE 2 * q[i - 1]
    <3>1. CASE i = 0
      BY <2>1, <3>1 DEF Powers
    <3>2. CASE i \in 1..n
      <4>1. q[i] = p[i] /\ q[i - 1] = p[i - 1]
        BY <3>2
      <4>2. p[i] = 2 * p[i - 1]
        BY <2>1, <3>2 DEF Powers
      <4>. QED
        BY <3>2, <4>1, <4>2
    <3>3. CASE i = n + 1
      BY <3>3
    <3>. QED
      BY <3>1, <3>2, <3>3
  <2>3. q = [i \in 0..(n + 1) |-> IF i = 0 THEN 1 ELSE 2 * q[i - 1]]
    BY <2>2
  <2>4. Powers(n + 1, q)
    BY <2>3 DEF Powers
  <2>. QED
    BY <2>4
<1>. HIDE DEF T
<1>3. Nat \subseteq T
  BY <1>1, <1>2, SetOfAllNaturals
<1>. QED
  BY <1>3 DEF T

\* Two solutions agree where both are defined.
LEMMA PowersAgree ==
  ASSUME NEW m \in Nat, NEW n \in Nat, NEW p, NEW q, Powers(m, p), Powers(n, q),
         NEW k \in Nat, k <= m, k <= n
  PROVE  p[k] = q[k]
<1>. DEFINE T == {i \in Nat : i <= k => p[i] = q[i]}
<1>1. 0 \in T
  BY DEF Powers
<1>2. ASSUME NEW i \in Nat, i \in T PROVE i + 1 \in T
  <2>1. SUFFICES ASSUME i + 1 <= k PROVE p[i + 1] = q[i + 1]
    OBVIOUS
  <2>2. p[i] = q[i]
    BY <1>2, <2>1
  <2>3. p[i + 1] = 2 * p[i] /\ q[i + 1] = 2 * q[i]
    <3>1. i + 1 \in 0..m /\ i + 1 \in 0..n /\ i + 1 # 0 /\ (i + 1) - 1 = i
      BY <2>1
    <3>. QED
      BY <3>1 DEF Powers
  <2>. QED
    BY <2>2, <2>3
<1>. HIDE DEF T
<1>3. k \in T
  BY <1>1, <1>2, SetOfAllNaturals
<1>. QED
  BY <1>3 DEF T

\* The recursive definition has a solution.
LEMMA TwoToDef ==
  TwoTo = [n \in Nat |-> IF n = 0 THEN 1 ELSE 2 * TwoTo[n - 1]]
<1>. DEFINE P(n) == CHOOSE p : Powers(n, p)
            F == [n \in Nat |-> P(n)[n]]
<1>1. ASSUME NEW n \in Nat PROVE Powers(n, P(n))
  BY PowersExist
<1>. HIDE DEF P
<1>2. ASSUME NEW n \in Nat PROVE F[n] = IF n = 0 THEN 1 ELSE 2 * F[n - 1]
  <2>1. CASE n = 0
    BY <1>1, <2>1 DEF Powers
  <2>2. CASE n # 0
    <3>1. n - 1 \in Nat /\ n - 1 <= n
      BY <2>2
    <3>2. P(n)[n] = 2 * P(n)[n - 1]
      BY <1>1, <2>2 DEF Powers
    <3>3. P(n)[n - 1] = P(n - 1)[n - 1]
      BY <1>1, <3>1, PowersAgree
    <3>. QED
      BY <2>2, <3>1, <3>2, <3>3
  <2>. QED
    BY <2>1, <2>2
<1>3. F = [n \in Nat |-> IF n = 0 THEN 1 ELSE 2 * F[n - 1]]
  BY <1>2
<1>4. \E G : G = [n \in Nat |-> IF n = 0 THEN 1 ELSE 2 * G[n - 1]]
  BY <1>3
<1>. QED
  BY <1>4 DEF TwoTo

\* The first power, and the next one.
LEMMA TwoToStep ==
  TwoTo[0] = 1 /\ \A n \in Nat : TwoTo[n + 1] = 2 * TwoTo[n]
<1>1. TwoTo[0] = 1
  BY TwoToDef
<1>2. ASSUME NEW n \in Nat PROVE TwoTo[n + 1] = 2 * TwoTo[n]
  <2>1. n + 1 \in Nat /\ n + 1 # 0 /\ (n + 1) - 1 = n
    OBVIOUS
  <2>. QED
    BY <2>1, TwoToDef
<1>. QED
  BY <1>1, <1>2

\* Powers are positive.
LEMMA TwoToIsPositive ==
  ASSUME NEW n \in Nat
  PROVE  TwoTo[n] \in Nat /\ TwoTo[n] >= 1
<1>. DEFINE T == {k \in Nat : TwoTo[k] \in Nat /\ TwoTo[k] >= 1}
<1>1. 0 \in T
  BY TwoToStep
<1>2. ASSUME NEW k \in Nat, k \in T PROVE k + 1 \in T
  BY <1>2, TwoToStep
<1>. HIDE DEF T
<1>3. n \in T
  BY <1>1, <1>2, SetOfAllNaturals
<1>. QED
  BY <1>3 DEF T

\* The power of a sum.
LEMMA TwoToSum ==
  ASSUME NEW m \in Nat, NEW n \in Nat
  PROVE  TwoTo[m + n] = TwoTo[m] * TwoTo[n]
<1>. DEFINE T == {k \in Nat : TwoTo[m + k] = TwoTo[m] * TwoTo[k]}
<1>1. 0 \in T
  <2>1. TwoTo[m] \in Nat /\ m + 0 = m
    BY TwoToIsPositive
  <2>. QED
    BY <2>1, TwoToStep
<1>2. ASSUME NEW k \in Nat, k \in T PROVE k + 1 \in T
  <2>1. TwoTo[m + (k + 1)] = 2 * TwoTo[m + k]
    <3>1. m + (k + 1) = (m + k) + 1 /\ m + k \in Nat
      OBVIOUS
    <3>. QED
      BY <3>1, TwoToStep
  <2>2. TwoTo[k + 1] = 2 * TwoTo[k] /\ TwoTo[m] \in Nat /\ TwoTo[k] \in Nat
    BY TwoToStep, TwoToIsPositive
  <2>. QED
    BY <1>2, <2>1, <2>2
<1>. HIDE DEF T
<1>3. n \in T
  BY <1>1, <1>2, SetOfAllNaturals
<1>. QED
  BY <1>3 DEF T

\* Greater exponents have greater powers.
LEMMA TwoToGrows ==
  ASSUME NEW m \in Nat, NEW n \in Nat, m <= n
  PROVE  TwoTo[m] <= TwoTo[n]
<1>1. TwoTo[n] = TwoTo[m] * TwoTo[n - m]
  <2>1. n - m \in Nat /\ m + (n - m) = n
    OBVIOUS
  <2>. QED
    BY <2>1, TwoToSum
<1>2. TwoTo[m] \in Nat /\ TwoTo[n - m] \in Nat /\ TwoTo[n - m] >= 1
  BY TwoToIsPositive
<1>. QED
  BY <1>1, <1>2

------------------------------------------------------------------------------
(***************************************************************************)
(* Division.                                                               *)
(***************************************************************************)
\* There is one quotient and one remainder.
LEMMA DivisionIsUnique ==
  ASSUME NEW d \in Nat, d >= 1, NEW q \in Int, NEW r \in 0..(d - 1), NEW n, n = q * d + r
  PROVE  n \div d = q /\ n % d = r
<1>. DEFINE p == n \div d
            s == n % d
<1>1. n \in Int /\ p \in Int /\ s \in 0..(d - 1) /\ n = d * p + s
  OBVIOUS
<1>. HIDE DEF p, s
<1>2. d * (q - p) = s - r
  BY <1>1
<1>3. q - p = 0
  <2>1. s - r < d /\ s - r > -d
    BY <1>1
  <2>2. CASE q - p >= 1
    <3>1. d * (q - p) >= d
      BY <1>1, <2>2
    <3>. QED
      BY <1>1, <1>2, <2>1, <3>1
  <2>3. CASE q - p <= -1
    <3>1. d * (q - p) <= -d
      BY <1>1, <2>3
    <3>. QED
      BY <1>1, <1>2, <2>1, <3>1
  <2>. QED
    BY <1>1, <2>2, <2>3
<1>4. p = q /\ s = r
  BY <1>1, <1>2, <1>3
<1>. QED
  BY <1>4 DEF p, s

\* A number is put together from its quotient and its remainder.
LEMMA Division ==
  ASSUME NEW n \in Int, NEW d \in Nat, d >= 1
  PROVE  n \div d \in Int /\ n % d \in 0..(d - 1) /\ n = (n \div d) * d + (n % d)
<1>. DEFINE q == n \div d
            r == n % d
<1>1. q \in Int /\ r \in 0..(d - 1) /\ n = d * q + r
  OBVIOUS
<1>. HIDE DEF q, r
<1>2. q \in Int /\ r \in 0..(d - 1) /\ n = q * d + r
  BY <1>1
<1>. QED
  BY <1>2, Zenon DEF q, r

\* A multiple of the divisor does not change the remainder.
LEMMA MultipleAdded ==
  ASSUME NEW n \in Int, NEW k \in Int, NEW d \in Nat, d >= 1
  PROVE  (n + k * d) % d = n % d /\ (n + k * d) \div d = n \div d + k
<1>1. n \div d \in Int /\ n % d \in 0..(d - 1) /\ n = (n \div d) * d + (n % d)
  BY Division
<1>. DEFINE q == n \div d
            r == n % d
<1>. HIDE DEF q, r
<1>2. n + k * d = (q + k) * d + r /\ q + k \in Int /\ r \in 0..(d - 1)
  BY <1>1 DEF q, r
<1>3. (n + k * d) \div d = q + k /\ (n + k * d) % d = r
  BY <1>2, DivisionIsUnique
<1>. QED
  BY <1>3 DEF q, r

\* A number that is smaller than the divisor is the remainder.
LEMMA SmallNumber ==
  ASSUME NEW d \in Nat, NEW n \in 0..(d - 1)
  PROVE  n % d = n /\ n \div d = 0
<1>1. d >= 1 /\ 0 \in Int /\ n = 0 * d + n
  OBVIOUS
<1>. QED
  BY <1>1, DivisionIsUnique

\* The quotient and the remainder of two divisions, one after the other.
LEMMA DivideTwice ==
  ASSUME NEW n \in Int, NEW d \in Nat, NEW e \in Nat, d >= 1, e >= 1
  PROVE  /\ d * e \in Nat /\ d * e >= 1
         /\ n \div (d * e) = (n \div d) \div e
         /\ n % (d * e) = (n % d) + d * ((n \div d) % e)
<1>. DEFINE q == n \div d
            r == n % d
            p == q \div e
            s == q % e
<1>1. q \in Int /\ r \in 0..(d - 1) /\ n = q * d + r
  BY Division
<1>. HIDE DEF q, r
<1>2. p \in Int /\ s \in 0..(e - 1) /\ q = p * e + s
  BY <1>1, Division
<1>. HIDE DEF p, s
<1>3. d * e \in Nat /\ d * e >= 1
  OBVIOUS
<1>4. n = p * (d * e) + (r + d * s)
  <2>1. n = (p * e + s) * d + r
    BY <1>1, <1>2
  <2>2. (p * e + s) * d = p * (d * e) + d * s
    BY <1>2
  <2>. QED
    BY <1>1, <1>2, <2>1, <2>2
<1>5. r + d * s \in 0..(d * e - 1)
  <2>1. d * s \in Nat /\ d * s <= d * (e - 1)
    BY <1>2
  <2>2. d * (e - 1) = d * e - d
    OBVIOUS
  <2>. QED
    BY <1>1, <1>3, <2>1, <2>2
<1>6. n \div (d * e) = p /\ n % (d * e) = r + d * s
  <2>. DEFINE m == d * e
              t == r + d * s
  <2>1. m \in Nat /\ m >= 1 /\ t \in 0..(m - 1) /\ n = p * m + t /\ p \in Int
    BY <1>2, <1>3, <1>4, <1>5
  <2>. HIDE DEF m, t
  <2>2. n \div m = p /\ n % m = t
    BY <2>1, DivisionIsUnique
  <2>. QED
    BY <2>2 DEF m, t
<1>. QED
  <2>1. /\ d * e \in Nat /\ d * e >= 1
        /\ n \div (d * e) = q \div e
        /\ n % (d * e) = r + d * (q % e)
    BY <1>3, <1>6 DEF p, s
  <2>. QED
    BY <2>1 DEF q, r

\* A remainder has the low digits of the number: n \div d % e is found in n % (d * e * k).
LEMMA DigitOfRemainder ==
  ASSUME NEW n \in Int, NEW d \in Nat, NEW e \in Nat, NEW k \in Nat, d >= 1, e >= 1, k >= 1
  PROVE  ((n % (d * e * k)) \div d) % e = (n \div d) % e
<1>. DEFINE m == d * e * k
            q == n \div m
            r == n % m
<1>1. m \in Nat /\ m >= 1
  <2>1. d * e \in Nat /\ d * e >= 1
    BY DivideTwice
  <2>. QED
    BY <2>1
<1>2. q \in Int /\ r \in 0..(m - 1) /\ n = q * m + r
  BY <1>1, Division
<1>3. m = (e * k) * d
  OBVIOUS
<1>. HIDE DEF m, q, r
<1>4. n = r + (q * (e * k)) * d
  <2>1. q * m = (q * (e * k)) * d
    BY <1>2, <1>3
  <2>. QED
    BY <1>1, <1>2, <2>1
<1>5. n \div d = r \div d + q * (e * k)
  <2>. DEFINE j == q * (e * k)
  <2>1. j \in Int /\ r \in Int /\ n = r + j * d
    BY <1>1, <1>2, <1>4
  <2>. HIDE DEF j
  <2>2. n \div d = r \div d + j
    BY <2>1, MultipleAdded
  <2>. QED
    BY <2>2 DEF j
<1>6. q * (e * k) = (q * k) * e /\ q * k \in Int /\ r \div d \in Int
  BY <1>1, <1>2
<1>7. (r \div d + (q * k) * e) % e = (r \div d) % e
  BY <1>6, MultipleAdded
<1>. QED
  BY <1>5, <1>6, <1>7 DEF r, m

\* The remainder of a remainder.
LEMMA RemainderOfRemainder ==
  ASSUME NEW n \in Int, NEW d \in Nat, NEW k \in Nat, d >= 1, k >= 1
  PROVE  (n % (d * k)) % d = n % d
<1>1. n % (d * k) = (n % d) + d * ((n \div d) % k)
  BY DivideTwice
<1>2. n \div d \in Int /\ n % d \in 0..(d - 1)
  BY Division
<1>3. (n \div d) % k \in Int
  BY <1>2, Division
<1>. DEFINE r == n % d
            s == (n \div d) % k
<1>. HIDE DEF r, s
<1>4. r \in 0..(d - 1) /\ s \in Int /\ n % (d * k) = r + d * s
  BY <1>1, <1>2, <1>3 DEF r, s
<1>5. (r + s * d) % d = r % d
  <2>1. r \in Int /\ s \in Int
    BY <1>4
  <2>. QED
    BY <2>1, MultipleAdded
<1>6. r % d = r
  BY <1>4, SmallNumber
<1>7. d * s = s * d
  BY <1>4
<1>. QED
  BY <1>4, <1>5, <1>6, <1>7, Zenon DEF r

\* Numbers that differ by a multiple of the divisor have the same remainder, and the reverse.
LEMMA SameRemainder ==
  ASSUME NEW m \in Int, NEW n \in Int, NEW d \in Nat, d >= 1
  PROVE  m % d = n % d <=> \E k \in Int : m = n + k * d
<1>1. ASSUME m % d = n % d PROVE \E k \in Int : m = n + k * d
  <2>1. /\ m \div d \in Int /\ m = (m \div d) * d + (m % d)
        /\ n \div d \in Int /\ n = (n \div d) * d + (n % d)
        /\ m % d \in Int
    BY Division
  <2>. DEFINE p == m \div d
              q == n \div d
              r == m % d
  <2>2. p \in Int /\ q \in Int /\ r \in Int /\ m = p * d + r /\ n = q * d + r
    BY <1>1, <2>1
  <2>. HIDE DEF p, q, r
  <2>3. m = n + (p - q) * d /\ p - q \in Int
    BY <2>2
  <2>. QED
    BY <2>3
<1>2. ASSUME NEW k \in Int, m = n + k * d PROVE m % d = n % d
  BY <1>2, MultipleAdded
<1>. QED
  BY <1>1, <1>2

------------------------------------------------------------------------------
(***************************************************************************)
(* Digits of k bits: bits for k = 1, and bytes for k = ByteBits.           *)
(***************************************************************************)
\* The powers that the digits from n on are multiples of.
LEMMA NextPower ==
  ASSUME NEW k \in Nat, NEW n \in Nat
  PROVE  /\ k * n \in Nat
         /\ TwoTo[k * (n + 1)] = TwoTo[k * n] * TwoTo[k]
         /\ TwoTo[k * n] \in Nat /\ TwoTo[k * n] >= 1
         /\ TwoTo[k] \in Nat /\ TwoTo[k] >= 1
<1>1. k * n \in Nat /\ k * (n + 1) = k * n + k
  OBVIOUS
<1>. QED
  BY <1>1, TwoToSum, TwoToIsPositive

\* Where a digit lies below the power n.
LEMMA PowerAbove ==
  ASSUME NEW k \in Nat, NEW n \in Nat, NEW j \in 0..(n - 1)
  PROVE  \E m \in Nat : m >= 1 /\ TwoTo[k * n] = TwoTo[k * j] * TwoTo[k] * m
<1>1. /\ n - j - 1 \in Nat /\ k * (n - j - 1) \in Nat /\ k * (j + 1) \in Nat
      /\ k * n = k * (j + 1) + k * (n - j - 1)
  OBVIOUS
<1>2. TwoTo[k * n] = TwoTo[k * (j + 1)] * TwoTo[k * (n - j - 1)]
  BY <1>1, TwoToSum
<1>3. j \in Nat
  OBVIOUS
<1>5. TwoTo[k * (j + 1)] = TwoTo[k * j] * TwoTo[k]
  BY <1>3, NextPower
<1>4. TwoTo[k * (n - j - 1)] \in Nat /\ TwoTo[k * (n - j - 1)] >= 1
  BY <1>1, TwoToIsPositive
<1>. QED
  BY <1>2, <1>5, <1>4

\* The sum of the digits of a number, each with its weight, is the number.
LEMMA SumOfDigits ==
  ASSUME NEW x \in Int, NEW k \in Nat, NEW f, NEW n \in Nat,
         \A i \in 0..(n - 1) : f[i] = ((x \div TwoTo[k * i]) % TwoTo[k]) * TwoTo[k * i]
  PROVE  SumOf(f, n) = x % TwoTo[k * n]
<1>. DEFINE T == {m \in Nat : m <= n => SumOf(f, m) = x % TwoTo[k * m]}
<1>1. 0 \in T
  <2>1. k * 0 = 0 /\ x % 1 = 0
    OBVIOUS
  <2>. QED
    BY <2>1, SumStep, TwoToStep
<1>2. ASSUME NEW m \in Nat, m \in T PROVE m + 1 \in T
  <2>1. SUFFICES ASSUME m + 1 <= n PROVE SumOf(f, m + 1) = x % TwoTo[k * (m + 1)]
    OBVIOUS
  <2>. DEFINE d == TwoTo[k * m]
              e == TwoTo[k]
  <2>2. d \in Nat /\ d >= 1 /\ e \in Nat /\ e >= 1 /\ TwoTo[k * (m + 1)] = d * e
    BY NextPower
  <2>3. SumOf(f, m + 1) = (x % d) + f[m] /\ f[m] = ((x \div d) % e) * d
    BY <1>2, <2>1, SumStep
  <2>. HIDE DEF d, e
  <2>4. x % (d * e) = (x % d) + d * ((x \div d) % e)
    BY <2>2, DivideTwice
  <2>5. (x \div d) % e \in Int
    <3>1. x \div d \in Int
      BY <2>2, Division
    <3>. QED
      BY <2>2, <3>1, Division
  <2>6. ((x \div d) % e) * d = d * ((x \div d) % e)
    <3>. DEFINE q == (x \div d) % e
    <3>1. q \in Int
      BY <2>5
    <3>. HIDE DEF q
    <3>2. q * d = d * q
      BY <2>2, <3>1
    <3>. QED
      BY <3>2 DEF q
  <2>. QED
    BY <2>2, <2>3, <2>4, <2>6
<1>. HIDE DEF T
<1>3. n \in T
  BY <1>1, <1>2, SetOfAllNaturals
<1>. QED
  BY <1>3 DEF T

\* The digits below a power are those of the remainder.
LEMMA DigitsOfRemainder ==
  ASSUME NEW x \in Int, NEW k \in Nat, NEW n \in Nat, NEW j \in 0..(n - 1)
  PROVE  ((x % TwoTo[k * n]) \div TwoTo[k * j]) % TwoTo[k] = (x \div TwoTo[k * j]) % TwoTo[k]
<1>1. PICK r \in Nat : r >= 1 /\ TwoTo[k * n] = TwoTo[k * j] * TwoTo[k] * r
  BY PowerAbove
<1>. DEFINE d == TwoTo[k * j]
            e == TwoTo[k]
            p == TwoTo[k * n]
<1>2. d \in Nat /\ d >= 1 /\ e \in Nat /\ e >= 1 /\ p = d * e * r
  BY <1>1, NextPower
<1>. HIDE DEF d, e, p
<1>3. ((x % (d * e * r)) \div d) % e = (x \div d) % e
  BY <1>1, <1>2, DigitOfRemainder, ZenonT(30)
<1>4. ((x % p) \div d) % e = (x \div d) % e
  BY <1>2, <1>3, Zenon
<1>. QED
  BY <1>4 DEF d, e, p
\* A number that is put together from digits has these digits.
LEMMA DigitsOfSum ==
  ASSUME NEW k \in Nat, NEW f, NEW g, NEW n \in Nat,
         \A i \in 0..(n - 1) : g[i] \in 0..(TwoTo[k] - 1) /\ f[i] = g[i] * TwoTo[k * i]
  PROVE  /\ SumOf(f, n) \in 0..(TwoTo[k * n] - 1)
         /\ \A j \in 0..(n - 1) : (SumOf(f, n) \div TwoTo[k * j]) % TwoTo[k] = g[j]
<1>. DEFINE Digits1(m) == /\ SumOf(f, m) \in 0..(TwoTo[k * m] - 1)
                          /\ \A j \in 0..(m - 1) : (SumOf(f, m) \div TwoTo[k * j]) % TwoTo[k] = g[j]
            T == {m \in Nat : m <= n => Digits1(m)}
<1>1. 0 \in T
  <2>1. k * 0 = 0
    OBVIOUS
  <2>. QED
    BY <2>1, SumStep, TwoToStep
<1>2. ASSUME NEW m \in Nat, m \in T PROVE m + 1 \in T
  <2>1. SUFFICES ASSUME m + 1 <= n PROVE Digits1(m + 1)
    OBVIOUS
  <2>. DEFINE d == TwoTo[k * m]
              e == TwoTo[k]
              v == SumOf(f, m)
              w == SumOf(f, m + 1)
  <2>2. d \in Nat /\ d >= 1 /\ e \in Nat /\ e >= 1 /\ TwoTo[k * (m + 1)] = d * e
    BY NextPower
  <2>3. v \in 0..(d - 1) /\ \A j \in 0..(m - 1) : (v \div TwoTo[k * j]) % e = g[j]
    BY <1>2, <2>1
  <2>4. w = v + f[m] /\ g[m] \in 0..(e - 1) /\ f[m] = g[m] * d
    BY <2>1, SumStep
  <2>. HIDE DEF d, e, v, w
  <2>5. w = g[m] * d + v
    BY <2>2, <2>3, <2>4
  <2>6. w \in 0..(d * e - 1)
    <3>1. g[m] * d <= (e - 1) * d /\ g[m] * d \in Nat /\ (e - 1) * d = d * e - d
      BY <2>2, <2>4
    <3>. QED
      BY <2>2, <2>3, <2>5, <3>1
  <2>7. w \div d = g[m] /\ w % d = v
    <3>. DEFINE q == g[m]
    <3>1. q \in Int /\ v \in 0..(d - 1) /\ w = q * d + v
      BY <2>2, <2>3, <2>4, <2>5
    <3>. HIDE DEF q
    <3>2. w \div d = q /\ w % d = v
      BY <2>2, <3>1, DivisionIsUnique
    <3>. QED
      BY <3>2 DEF q
  <2>8. ASSUME NEW j \in 0..m PROVE (w \div TwoTo[k * j]) % e = g[j]
    <3>1. CASE j = m
      <4>1. g[m] % e = g[m]
        BY <2>2, <2>4, SmallNumber
      <4>. QED
        BY <2>7, <3>1, <4>1 DEF d
    <3>2. CASE j \in 0..(m - 1)
      <4>1. w \in Int
        BY <2>2, <2>6
      <4>2. ((w % TwoTo[k * m]) \div TwoTo[k * j]) % TwoTo[k] = (w \div TwoTo[k * j]) % TwoTo[k]
        BY <4>1, <3>2, DigitsOfRemainder
      <4>3. ((w % d) \div TwoTo[k * j]) % e = (w \div TwoTo[k * j]) % e
        BY <4>2, Zenon DEF d, e
      <4>. QED
        BY <2>3, <2>7, <3>2, <4>3
    <3>. QED
      BY <3>1, <3>2
  <2>9. (m + 1) - 1 = m
    OBVIOUS
  <2>. QED
    BY <2>2, <2>6, <2>8, <2>9 DEF w, e
<1>. HIDE DEF T
<1>3. n \in T
  BY <1>1, <1>2, SetOfAllNaturals
<1>. QED
  BY <1>3 DEF T

------------------------------------------------------------------------------
(***************************************************************************)
(* Bits.                                                                   *)
(***************************************************************************)
\* The widths.
LEMMA Widths ==
  /\ ByteBits \in Nat /\ ByteBits >= 2
  /\ Int32Bits = ByteBits * 4 /\ Int32Bits \in Nat /\ Int32Bits >= 8
  /\ TwoTo[1] = 2 /\ TwoTo[2] = 4 /\ TwoTo[3] = 8
  /\ BytesOf("bit") = 1 /\ BytesOf("byte") = 1 /\ BytesOf("word") = 2 /\ BytesOf("dword") = 4
  /\ BitsOf("bit") = 1 /\ BitsOf("byte") = ByteBits
  /\ BitsOf("word") = ByteBits * 2 /\ BitsOf("dword") = ByteBits * 4
<1>1. ByteBits \in Nat /\ ByteBits >= 2
  BY SizeAssumption
<1>2. /\ BytesOf("bit") = 1 /\ BytesOf("byte") = 1 /\ BytesOf("word") = 2 /\ BytesOf("dword") = 4
  BY DEF BytesOf
<1>3. /\ BitsOf("bit") = 1 /\ BitsOf("byte") = ByteBits
      /\ BitsOf("word") = ByteBits * 2 /\ BitsOf("dword") = ByteBits * 4
  BY <1>1, <1>2 DEF BitsOf
<1>4. Int32Bits = ByteBits * 4 /\ Int32Bits \in Nat /\ Int32Bits >= 8
  BY <1>1, <1>3 DEF Int32Bits
<1>5. TwoTo[1] = 2 /\ TwoTo[2] = 4 /\ TwoTo[3] = 8
  <2>1. 0 + 1 = 1 /\ 1 + 1 = 2 /\ 2 + 1 = 3
    OBVIOUS
  <2>. QED
    BY <2>1, TwoToStep
<1>. QED
  BY <1>1, <1>2, <1>3, <1>4, <1>5

\* The number of a set of bits.
LEMMA BitsOfNumber ==
  ASSUME NEW S
  PROVE  /\ NumberOf(S) \in 0..(TwoTo[Int32Bits] - 1)
         /\ BitsIn(NumberOf(S)) = S \intersect (0..(Int32Bits - 1))
<1>. DEFINE f == [i \in 0..(Int32Bits - 1) |-> IF i \in S THEN TwoTo[i] ELSE 0]
            g == [i \in 0..(Int32Bits - 1) |-> IF i \in S THEN 1 ELSE 0]
<1>1. Int32Bits \in Nat /\ 1 \in Nat /\ TwoTo[1] = 2 /\ 1 * Int32Bits = Int32Bits
  BY Widths
<1>2. \A i \in 0..(Int32Bits - 1) : g[i] \in 0..(TwoTo[1] - 1) /\ f[i] = g[i] * TwoTo[1 * i]
  <2>. TAKE i \in 0..(Int32Bits - 1)
  <2>1. 1 * i = i /\ i \in Nat
    BY <1>1
  <2>2. TwoTo[i] \in Nat
    BY <2>1, TwoToIsPositive
  <2>3. f[i] = (IF i \in S THEN TwoTo[i] ELSE 0) /\ g[i] = (IF i \in S THEN 1 ELSE 0)
    OBVIOUS
  <2>. QED
    BY <1>1, <2>1, <2>2, <2>3
<1>3. NumberOf(S) = SumOf(f, Int32Bits)
  BY DEF NumberOf
<1>4. \A i \in 0..(Int32Bits - 1) : g[i] = 1 <=> i \in S
  OBVIOUS
<1>. HIDE DEF f, g
<1>5. /\ SumOf(f, Int32Bits) \in 0..(TwoTo[1 * Int32Bits] - 1)
      /\ \A j \in 0..(Int32Bits - 1) : (SumOf(f, Int32Bits) \div TwoTo[1 * j]) % TwoTo[1] = g[j]
  BY <1>1, <1>2, DigitsOfSum
<1>6. ASSUME NEW j \in 0..(Int32Bits - 1) PROVE (NumberOf(S) \div TwoTo[j]) % 2 = g[j]
  <2>1. 1 * j = j
    OBVIOUS
  <2>. QED
    BY <1>1, <1>3, <1>5, <2>1, Zenon
<1>7. BitsIn(NumberOf(S)) = {j \in 0..(Int32Bits - 1) : g[j] = 1}
  BY <1>6 DEF BitsIn
<1>. QED
  BY <1>1, <1>3, <1>4, <1>5, <1>7

\* The number of the bits of a number.
LEMMA NumberOfBits ==
  ASSUME NEW x \in Int
  PROVE  NumberOf(BitsIn(x)) = x % TwoTo[Int32Bits]
<1>. DEFINE f == [i \in 0..(Int32Bits - 1) |-> IF i \in BitsIn(x) THEN TwoTo[i] ELSE 0]
<1>1. Int32Bits \in Nat /\ 1 \in Nat /\ TwoTo[1] = 2 /\ 1 * Int32Bits = Int32Bits
  BY Widths
<1>2. \A i \in 0..(Int32Bits - 1) : f[i] = ((x \div TwoTo[1 * i]) % TwoTo[1]) * TwoTo[1 * i]
  <2>. TAKE i \in 0..(Int32Bits - 1)
  <2>1. 1 * i = i /\ i \in Nat
    BY <1>1
  <2>2. TwoTo[i] \in Nat /\ TwoTo[i] >= 1
    BY <2>1, TwoToIsPositive
  <2>. DEFINE p == TwoTo[i]
              b == (x \div p) % 2
  <2>3. b \in 0..1
    <3>1. x \div p \in Int
      BY <2>2, Division
    <3>. QED
      BY <3>1, Division, SMTT(30)
  <2>4. i \in BitsIn(x) <=> b = 1
    BY DEF BitsIn
  <2>5. f[i] = IF i \in BitsIn(x) THEN p ELSE 0
    OBVIOUS
  <2>. HIDE DEF b, p, f
  <2>6. f[i] = b * p
    <3>1. p \in Nat
      BY <2>2 DEF p
    <3>. QED
      BY <2>3, <2>4, <2>5, <3>1
  <2>7. f[i] = ((x \div TwoTo[i]) % 2) * TwoTo[i]
    BY <2>6, Zenon DEF b, p
  <2>. QED
    BY <1>1, <2>1, <2>7, Zenon
<1>3. NumberOf(BitsIn(x)) = SumOf(f, Int32Bits)
  BY DEF NumberOf
<1>. HIDE DEF f
<1>4. SumOf(f, Int32Bits) = x % TwoTo[1 * Int32Bits]
  BY <1>1, <1>2, SumOfDigits
<1>. QED
  BY <1>1, <1>3, <1>4

\* Numbers with the same bits are the same.
LEMMA SameBits ==
  ASSUME NEW x \in 0..(TwoTo[Int32Bits] - 1), NEW y \in 0..(TwoTo[Int32Bits] - 1),
         BitsIn(x) = BitsIn(y)
  PROVE  x = y
<1>1. Int32Bits \in Nat /\ TwoTo[Int32Bits] \in Nat
  BY Widths, TwoToIsPositive
<1>2. x % TwoTo[Int32Bits] = x /\ y % TwoTo[Int32Bits] = y
  BY <1>1, SmallNumber
<1>3. x \in Int /\ y \in Int
  BY <1>1
<1>4. NumberOf(BitsIn(x)) = x /\ NumberOf(BitsIn(y)) = y
  BY <1>2, <1>3, NumberOfBits
<1>. QED
  BY <1>4

\* The bits of a remainder.
LEMMA BitsOfRemainder ==
  ASSUME NEW x \in Int, NEW n \in 0..Int32Bits
  PROVE  /\ BitsIn(x % TwoTo[n]) = BitsIn(x) \intersect (0..(n - 1))
         /\ x % TwoTo[n] \in 0..(TwoTo[n] - 1) /\ TwoTo[n] <= TwoTo[Int32Bits]
         /\ x % TwoTo[n] \in 0..(TwoTo[Int32Bits] - 1)
<1>1. Int32Bits \in Nat /\ n \in Nat /\ TwoTo[n] \in Nat /\ TwoTo[n] >= 1 /\ TwoTo[1] = 2
  BY Widths, TwoToIsPositive
<1>. DEFINE r == x % TwoTo[n]
<1>2. r \in 0..(TwoTo[n] - 1)
  BY <1>1, Division
<1>3. ASSUME NEW i \in 0..(n - 1) PROVE (r \div TwoTo[i]) % 2 = (x \div TwoTo[i]) % 2
  <2>1. 1 \in Nat /\ 1 * n = n /\ 1 * i = i
    BY <1>1
  <2>2. ((x % TwoTo[1 * n]) \div TwoTo[1 * i]) % TwoTo[1] = (x \div TwoTo[1 * i]) % TwoTo[1]
    BY <1>1, <2>1, DigitsOfRemainder
  <2>. QED
    BY <1>1, <2>1, <2>2, Zenon
<1>. HIDE DEF r
<1>4. ASSUME NEW i \in n..(Int32Bits - 1) PROVE (r \div TwoTo[i]) % 2 = 0
  <2>1. i \in Nat /\ n <= i
    BY <1>1
  <2>2. TwoTo[n] <= TwoTo[i] /\ TwoTo[i] \in Nat
    BY <1>1, <2>1, TwoToGrows, TwoToIsPositive
  <2>3. r \in 0..(TwoTo[i] - 1)
    BY <1>1, <1>2, <2>2
  <2>4. r \div TwoTo[i] = 0
    BY <2>2, <2>3, SmallNumber
  <2>. QED
    BY <2>4
<1>5. BitsIn(r) = BitsIn(x) \intersect (0..(n - 1))
  <2>1. ASSUME NEW i \in 0..(Int32Bits - 1)
        PROVE  (r \div TwoTo[i]) % 2 = 1 <=> ((x \div TwoTo[i]) % 2 = 1 /\ i \in 0..(n - 1))
    <3>1. CASE i \in 0..(n - 1)
      BY <1>3, <3>1
    <3>2. CASE i \in n..(Int32Bits - 1)
      <4>1. (r \div TwoTo[i]) % 2 = 0 /\ i \notin 0..(n - 1)
        BY <1>1, <1>4, <3>2
      <4>. QED
        BY <4>1
    <3>3. i \in 0..(n - 1) \/ i \in n..(Int32Bits - 1)
      BY <1>1
    <3>. QED
      BY <3>1, <3>2, <3>3
  <2>. QED
    BY <2>1, Zenon DEF BitsIn
<1>6. TwoTo[n] <= TwoTo[Int32Bits] /\ TwoTo[Int32Bits] \in Nat
  BY <1>1, TwoToGrows, TwoToIsPositive
<1>7. r \in 0..(TwoTo[Int32Bits] - 1)
  BY <1>1, <1>2, <1>6
<1>. QED
  BY <1>2, <1>5, <1>6, <1>7 DEF r

\* And of two numbers.
LEMMA BitsOfAnd ==
  ASSUME NEW m, NEW n
  PROVE  /\ And(m, n) \in 0..(TwoTo[Int32Bits] - 1)
         /\ BitsIn(And(m, n)) = BitsIn(m) \intersect BitsIn(n)
<1>1. BitsIn(m) \subseteq 0..(Int32Bits - 1)
  BY DEF BitsIn
<1>. QED
  BY <1>1, BitsOfNumber DEF And

\* The lowest bits of a multiple of a power are zeros.
LEMMA BitsOfMultiple ==
  ASSUME NEW v \in Int, NEW s \in Nat
  PROVE  BitsIn(v * TwoTo[s]) \intersect (0..(s - 1)) = {}
<1>. SUFFICES ASSUME NEW i \in 0..(s - 1) PROVE ((v * TwoTo[s]) \div TwoTo[i]) % 2 # 1
  BY DEF BitsIn
<1>1. i \in Nat /\ s - i - 1 \in Nat /\ s = (s - i - 1) + (i + 1)
  OBVIOUS
<1>. DEFINE p == TwoTo[i]
            q == TwoTo[s - i - 1]
<1>2. TwoTo[s] = q * (2 * p)
  BY <1>1, TwoToSum, TwoToStep
<1>3. p \in Nat /\ p >= 1 /\ q \in Nat
  BY <1>1, TwoToIsPositive
<1>. HIDE DEF p, q
<1>4. v * TwoTo[s] = (v * q * 2) * p + 0
  BY <1>2, <1>3
<1>5. (v * TwoTo[s]) \div p = v * q * 2
  <2>. DEFINE j == v * q * 2
              x == v * TwoTo[s]
  <2>1. j \in Int /\ x = j * p + 0 /\ 0 \in 0..(p - 1)
    BY <1>3, <1>4
  <2>. HIDE DEF j, x
  <2>2. x \div p = j
    BY <1>3, <2>1, DivisionIsUnique
  <2>. QED
    BY <2>2 DEF j, x
<1>6. (v * q * 2) % 2 = 0
  <2>. DEFINE j == v * q
  <2>1. j \in Int
    BY <1>3
  <2>. HIDE DEF j
  <2>2. j * 2 = j * 2 + 0 /\ 0 \in 0..(2 - 1) /\ 2 \in Nat /\ 2 >= 1
    BY <2>1
  <2>3. (j * 2) % 2 = 0
    BY <2>1, <2>2, DivisionIsUnique
  <2>. QED
    BY <2>3 DEF j
<1>7. ((v * TwoTo[s]) \div TwoTo[i]) % 2 = 0
  BY <1>5, <1>6, Zenon DEF p
<1>. QED
  BY <1>7

\* A number whose lowest bits are zeros is a multiple of the power.
LEMMA MultipleOfBits ==
  ASSUME NEW m \in 0..(TwoTo[Int32Bits] - 1), NEW s \in Nat,
         BitsIn(m) \intersect (0..(s - 1)) = {}
  PROVE  (m \div TwoTo[s]) * TwoTo[s] = m
<1>1. Int32Bits \in Nat /\ TwoTo[Int32Bits] \in Nat /\ m \in Int /\ 0 \in Int
      /\ TwoTo[s] \in Nat /\ TwoTo[s] >= 1 /\ TwoTo[Int32Bits] >= 1
  BY Widths, TwoToIsPositive
<1>2. m % TwoTo[s] = 0
  <2>1. BitsIn(0) = {}
    <3>1. ASSUME NEW i \in 0..(Int32Bits - 1) PROVE (0 \div TwoTo[i]) % 2 = 0
      <4>1. TwoTo[i] \in Nat /\ TwoTo[i] >= 1
        BY <1>1, TwoToIsPositive
      <4>2. 0 \in 0..(TwoTo[i] - 1)
        BY <4>1
      <4>3. 0 \div TwoTo[i] = 0
        BY <4>1, <4>2, SmallNumber
      <4>. QED
        BY <4>3
    <3>. QED
      BY <3>1 DEF BitsIn
  <2>2. CASE s <= Int32Bits
    <3>1. s \in 0..Int32Bits
      BY <1>1, <2>2
    <3>2. BitsIn(m % TwoTo[s]) = {} /\ m % TwoTo[s] \in 0..(TwoTo[Int32Bits] - 1)
      BY <1>1, <3>1, BitsOfRemainder
    <3>3. 0 \in 0..(TwoTo[Int32Bits] - 1)
      BY <1>1
    <3>. QED
      BY <2>1, <3>2, <3>3, SameBits
  <2>3. CASE s > Int32Bits
    <3>1. BitsIn(m) \subseteq 0..(s - 1)
      BY <1>1, <2>3 DEF BitsIn
    <3>2. BitsIn(m) = BitsIn(0)
      BY <2>1, <3>1
    <3>3. 0 \in 0..(TwoTo[Int32Bits] - 1) /\ 0 \in 0..(TwoTo[s] - 1)
      BY <1>1
    <3>4. m = 0
      BY <3>2, <3>3, SameBits
    <3>. QED
      BY <1>1, <3>3, <3>4, SmallNumber
  <2>. QED
    BY <1>1, <2>2, <2>3
<1>3. m = (m \div TwoTo[s]) * TwoTo[s] + (m % TwoTo[s]) /\ m \div TwoTo[s] \in Int
  BY <1>1, Division
<1>. DEFINE q == (m \div TwoTo[s]) * TwoTo[s]
<1>4. q \in Int
  BY <1>1, <1>3
<1>5. m = q + 0
  BY <1>2, <1>3
<1>. HIDE DEF q
<1>6. q = m
  BY <1>4, <1>5
<1>. QED
  BY <1>6 DEF q

\* MASK.
LEMMA MaskRange ==
  ASSUME NEW c, c.nobt \in Nat, c.shft \in Nat
  PROVE  Mask(c) \in 0..(TwoTo[Int32Bits] - 1)
<1>1. Int32Bits \in Nat /\ TwoTo[Int32Bits] \in Nat /\ TwoTo[Int32Bits] >= 1
  BY Widths, TwoToIsPositive
<1>2. TwoTo[c.nobt] \in Nat /\ TwoTo[c.shft] \in Nat
  BY TwoToIsPositive
<1>. DEFINE n == (TwoTo[c.nobt] - 1) * TwoTo[c.shft]
<1>3. n \in Int
  BY <1>2
<1>. HIDE DEF n
<1>4. n % TwoTo[Int32Bits] \in 0..(TwoTo[Int32Bits] - 1)
  BY <1>1, <1>3, Division
<1>5. Mask(c) = 0 \/ Mask(c) = n % TwoTo[Int32Bits]
  BY DEF Mask, Unsigned, n
<1>6. 0 \in 0..(TwoTo[Int32Bits] - 1)
  BY <1>1
<1>. QED
  BY <1>4, <1>5, <1>6

\* A masked number has those bits of the number that the mask lets pass.
LEMMA MaskedBits ==
  ASSUME NEW c, NEW n \in 0..(TwoTo[Int32Bits] - 1)
  PROVE  /\ Masked(c, n) \in 0..(TwoTo[Int32Bits] - 1)
         /\ Mask(c) = 0 => Masked(c, n) = n
         /\ Mask(c) # 0 => BitsIn(Masked(c, n)) = BitsIn(n) \intersect BitsIn(Mask(c))
         /\ BitsIn(Masked(c, n)) \subseteq BitsIn(n)
  BY BitsOfAnd DEF Masked

\* What is masked passes the mask.
LEMMA MaskedTwice ==
  ASSUME NEW c, NEW n \in 0..(TwoTo[Int32Bits] - 1)
  PROVE  Masked(c, Masked(c, n)) = Masked(c, n)
<1>. DEFINE m == Masked(c, n)
<1>1. m \in 0..(TwoTo[Int32Bits] - 1)
  BY MaskedBits
<1>2. Mask(c) # 0 => BitsIn(m) = BitsIn(n) \intersect BitsIn(Mask(c))
  BY MaskedBits
<1>. HIDE DEF m
<1>3. /\ Masked(c, m) \in 0..(TwoTo[Int32Bits] - 1)
      /\ Mask(c) = 0 => Masked(c, m) = m
      /\ Mask(c) # 0 => BitsIn(Masked(c, m)) = BitsIn(m) \intersect BitsIn(Mask(c))
  BY <1>1, MaskedBits
<1>4. Masked(c, m) = m
  <2>1. Mask(c) # 0 => BitsIn(Masked(c, m)) = BitsIn(m)
    BY <1>2, <1>3
  <2>. QED
    BY <1>1, <1>3, <2>1, SameBits
<1>. QED
  BY <1>4 DEF m

\* The low bits of what passes the mask pass it, too.
LEMMA MaskedRemainder ==
  ASSUME NEW c, NEW x \in 0..(TwoTo[Int32Bits] - 1), Masked(c, x) = x, NEW n \in 0..Int32Bits
  PROVE  Masked(c, x % TwoTo[n]) = x % TwoTo[n]
<1>. DEFINE r == x % TwoTo[n]
<1>1. r \in 0..(TwoTo[Int32Bits] - 1) /\ BitsIn(r) = BitsIn(x) \intersect (0..(n - 1))
  <2>1. x \in Int
    BY Widths, TwoToIsPositive
  <2>. QED
    BY <2>1, BitsOfRemainder
<1>. HIDE DEF r
<1>2. /\ Masked(c, r) \in 0..(TwoTo[Int32Bits] - 1)
      /\ Mask(c) = 0 => Masked(c, r) = r
      /\ Mask(c) # 0 => BitsIn(Masked(c, r)) = BitsIn(r) \intersect BitsIn(Mask(c))
  BY <1>1, MaskedBits
<1>3. Mask(c) # 0 => BitsIn(x) = BitsIn(x) \intersect BitsIn(Mask(c))
  BY MaskedBits
<1>4. Mask(c) # 0 => BitsIn(Masked(c, r)) = BitsIn(r)
  BY <1>1, <1>2, <1>3
<1>5. Masked(c, r) = r
  BY <1>1, <1>2, <1>4, SameBits
<1>. QED
  BY <1>5 DEF r

\* A mask does not make a number greater than its data type.
LEMMA MaskedSmall ==
  ASSUME NEW c, NEW n \in 0..Int32Bits, NEW x \in 0..(TwoTo[n] - 1)
  PROVE  Masked(c, x) \in 0..(TwoTo[n] - 1)
<1>1. /\ Int32Bits \in Nat /\ n \in Nat /\ TwoTo[n] \in Nat /\ TwoTo[n] >= 1
      /\ TwoTo[Int32Bits] \in Nat /\ TwoTo[n] <= TwoTo[Int32Bits]
  BY Widths, TwoToIsPositive, TwoToGrows
<1>2. x \in 0..(TwoTo[Int32Bits] - 1) /\ x \in Int
  BY <1>1
<1>3. x % TwoTo[n] = x
  BY <1>1, SmallNumber
<1>4. BitsIn(x) = BitsIn(x) \intersect (0..(n - 1))
  BY <1>2, <1>3, BitsOfRemainder
<1>. DEFINE m == Masked(c, x)
            r == m % TwoTo[n]
<1>5. m \in 0..(TwoTo[Int32Bits] - 1) /\ BitsIn(m) \subseteq 0..(n - 1)
  BY <1>2, <1>4, MaskedBits
<1>. HIDE DEF m
<1>6. m \in Int
  BY <1>1, <1>5
<1>7. /\ r \in 0..(TwoTo[n] - 1) /\ r \in 0..(TwoTo[Int32Bits] - 1)
      /\ BitsIn(r) = BitsIn(m) \intersect (0..(n - 1))
  BY <1>6, BitsOfRemainder
<1>. HIDE DEF r
<1>8. r = m
  BY <1>5, <1>7, SameBits
<1>. QED
  BY <1>7, <1>8 DEF m

------------------------------------------------------------------------------
(***************************************************************************)
(* Numbers of a width.                                                     *)
(***************************************************************************)
\* A conversion to an unsigned integer keeps the low bits, and a number that fits.
LEMMA UnsignedRange ==
  ASSUME NEW n \in Int, NEW bits \in Nat
  PROVE  /\ Unsigned(n, bits) \in 0..(TwoTo[bits] - 1)
         /\ Unsigned(n, bits) % TwoTo[bits] = n % TwoTo[bits]
         /\ n \in 0..(TwoTo[bits] - 1) => Unsigned(n, bits) = n
<1>1. TwoTo[bits] \in Nat /\ TwoTo[bits] >= 1
  BY TwoToIsPositive
<1>. DEFINE u == n % TwoTo[bits]
<1>2. u \in 0..(TwoTo[bits] - 1)
  BY <1>1, Division
<1>. HIDE DEF u
<1>3. u % TwoTo[bits] = u
  BY <1>1, <1>2, SmallNumber
<1>4. n \in 0..(TwoTo[bits] - 1) => n % TwoTo[bits] = n
  BY <1>1, SmallNumber
<1>5. Unsigned(n, bits) = u
  BY DEF Unsigned, u
<1>. QED
  BY <1>2, <1>3, <1>4, <1>5 DEF u

\* So does a conversion to a signed integer.
LEMMA SignedRange ==
  ASSUME NEW n \in Int, NEW bits \in Nat, bits >= 1
  PROVE  /\ Signed(n, bits) \in (-TwoTo[bits - 1])..(TwoTo[bits - 1] - 1)
         /\ Signed(n, bits) % TwoTo[bits] = n % TwoTo[bits]
         /\ n \in (-TwoTo[bits - 1])..(TwoTo[bits - 1] - 1) => Signed(n, bits) = n
         /\ Signed(Unsigned(n, bits), bits) = Signed(n, bits)
<1>. DEFINE h == TwoTo[bits - 1]
            d == TwoTo[bits]
            u == Unsigned(n, bits)
            s == Signed(n, bits)
<1>1. h \in Nat /\ h >= 1 /\ d = 2 * h
  <2>1. bits - 1 \in Nat /\ (bits - 1) + 1 = bits
    OBVIOUS
  <2>. QED
    BY <2>1, TwoToIsPositive, TwoToStep
<1>2. u \in 0..(d - 1) /\ u % d = n % d
  BY UnsignedRange
<1>3. s = IF u < h THEN u ELSE u - d
  BY DEF Signed
<1>4. Unsigned(u, bits) = u
  <2>1. u \in Int
    BY <1>1, <1>2
  <2>. QED
    BY <1>2, <2>1, UnsignedRange
<1>5. u = n % d
  BY DEF Unsigned
<1>. HIDE DEF u
<1>6. Signed(u, bits) = IF u < h THEN u ELSE u - d
  BY <1>4 DEF Signed
<1>. HIDE DEF h, d, s
<1>7. s \in (-h)..(h - 1)
  BY <1>1, <1>2, <1>3
<1>8. s % d = n % d
  <2>1. CASE u < h
    BY <1>2, <1>3, <2>1
  <2>2. CASE ~(u < h)
    <3>1. s = u + (-1) * d /\ u \in Int /\ -1 \in Int /\ d \in Nat /\ d >= 1
      BY <1>1, <1>2, <1>3, <2>2
    <3>2. s % d = u % d
      BY <3>1, MultipleAdded
    <3>. QED
      BY <1>2, <3>2
  <2>. QED
    BY <2>1, <2>2
<1>9. ASSUME n \in (-h)..(h - 1) PROVE s = n
  <2>1. CASE n >= 0
    <3>1. n \in 0..(d - 1)
      BY <1>1, <1>9, <2>1
    <3>2. n % d = n
      BY <1>1, <3>1, SmallNumber
    <3>. QED
      BY <1>1, <1>3, <1>5, <1>9, <3>2
  <2>2. CASE n < 0
    <3>1. d \in Nat /\ d >= 1 /\ -1 \in Int /\ n + d \in 0..(d - 1) /\ n = (-1) * d + (n + d)
      BY <1>1, <1>9, <2>2
    <3>2. n % d = n + d
      <4>. DEFINE r == n + d
      <4>1. r \in 0..(d - 1) /\ n = (-1) * d + r
        BY <3>1
      <4>. HIDE DEF r
      <4>2. n % d = r
        BY <3>1, <4>1, DivisionIsUnique
      <4>. QED
        BY <4>2 DEF r
    <3>. QED
      BY <1>1, <1>3, <1>5, <1>9, <2>2, <3>2
  <2>. QED
    BY <2>1, <2>2
<1>. QED
  BY <1>3, <1>6, <1>7, <1>8, <1>9 DEF h, d, s, u

\* Signed numbers of the same bits are the same.
LEMMA SameSigned ==
  ASSUME NEW m \in Int, NEW n \in Int, NEW bits \in Nat, m % TwoTo[bits] = n % TwoTo[bits]
  PROVE  Signed(m, bits) = Signed(n, bits)
  BY Zenon DEF Signed, Unsigned

------------------------------------------------------------------------------
(***************************************************************************)
(* Floats.                                                                 *)
(***************************************************************************)
\* The special floats are outside of the range of 32-bit integers.
LEMMA SpecialNumbers ==
  /\ DOMAIN Special = 1..3
  /\ Special[1] = NaN /\ Special[2] = Inf /\ Special[3] = -Inf
  /\ NaN = 2 * TwoTo[Int32Bits] /\ Inf = 4 * TwoTo[Int32Bits]
  /\ TwoTo[Int32Bits] = 2 * FirstSpecial
  /\ FirstSpecial \in Nat /\ FirstSpecial >= 128
<1>1. Int32Bits \in Nat /\ Int32Bits >= 8
  BY Widths
<1>2. TwoTo[Int32Bits + 1] = 2 * TwoTo[Int32Bits] /\ TwoTo[Int32Bits + 2] = 4 * TwoTo[Int32Bits]
  <2>1. TwoTo[Int32Bits] \in Nat /\ Int32Bits + 1 \in Nat
        /\ Int32Bits + 2 = (Int32Bits + 1) + 1
    BY <1>1, TwoToIsPositive
  <2>2. TwoTo[Int32Bits + 1] = 2 * TwoTo[Int32Bits]
    BY <1>1, TwoToStep
  <2>3. TwoTo[(Int32Bits + 1) + 1] = 2 * TwoTo[Int32Bits + 1]
    BY <2>1, TwoToStep
  <2>. QED
    BY <2>1, <2>2, <2>3
<1>3. TwoTo[Int32Bits] = 2 * TwoTo[Int32Bits - 1]
  <2>1. Int32Bits - 1 \in Nat /\ (Int32Bits - 1) + 1 = Int32Bits
    BY <1>1
  <2>. QED
    BY <2>1, TwoToStep
<1>4. TwoTo[Int32Bits - 1] \in Nat /\ TwoTo[Int32Bits - 1] >= 128
  <2>1. TwoTo[7] = 128
    <3>1. 3 + 1 = 4 /\ 4 + 3 = 7 /\ 3 \in Nat /\ 4 \in Nat
      OBVIOUS
    <3>2. TwoTo[4] = 16
      BY <3>1, Widths, TwoToStep
    <3>3. TwoTo[4 + 3] = TwoTo[4] * TwoTo[3]
      BY <3>1, TwoToSum
    <3>. QED
      BY <3>1, <3>2, <3>3, Widths
  <2>2. 7 \in Nat /\ Int32Bits - 1 \in Nat /\ 7 <= Int32Bits - 1
    BY <1>1
  <2>. QED
    BY <2>1, <2>2, TwoToGrows, TwoToIsPositive
<1>5. DOMAIN Special = 1..3 /\ Special[1] = NaN /\ Special[2] = Inf /\ Special[3] = -Inf
  BY DEF Special
<1>. QED
  BY <1>2, <1>3, <1>4, <1>5 DEF NaN, Inf, FirstSpecial

\* A float is one of the special numbers, or a signed number of the same bits.
LEMMA FloatOfPattern ==
  ASSUME NEW n \in 0..(TwoTo[Int32Bits] - 1)
  PROVE  /\ n = FirstSpecial => FloatOf(n) = NaN
         /\ n = FirstSpecial + 1 => FloatOf(n) = Inf
         /\ n = FirstSpecial + 2 => FloatOf(n) = -Inf
         /\ n \notin FirstSpecial..(FirstSpecial + 2) =>
              FloatOf(n) = IF n < FirstSpecial THEN n ELSE n - TwoTo[Int32Bits]
<1>. DEFINE p == n - FirstSpecial + 1
<1>1. Int32Bits \in Nat /\ Int32Bits >= 1 /\ n \in Int /\ FirstSpecial \in Nat
  BY Widths, TwoToIsPositive, SpecialNumbers
<1>2. Unsigned(n, Int32Bits) = n
  BY <1>1, UnsignedRange
<1>3. FloatOf(n) = IF p \in DOMAIN Special THEN Special[p] ELSE Signed(n, Int32Bits)
  BY <1>2 DEF FloatOf
<1>4. Signed(n, Int32Bits) = IF n < FirstSpecial THEN n ELSE n - TwoTo[Int32Bits]
  BY <1>2 DEF Signed, FirstSpecial
<1>. QED
  BY <1>1, <1>3, <1>4, SpecialNumbers

\* The pattern of a special float, and of all others.
LEMMA PatternOfFloat ==
  ASSUME NEW x \in Int
  PROVE  /\ x = NaN => FloatPattern(x) = FirstSpecial
         /\ x = Inf => FloatPattern(x) = FirstSpecial + 1
         /\ x = -Inf => FloatPattern(x) = FirstSpecial + 2
         /\ x \notin {NaN, Inf, -Inf} => FloatPattern(x) = x
<1>1. NaN # Inf /\ NaN # -Inf /\ Inf # -Inf
  BY SpecialNumbers
<1>. DEFINE P(p) == p \in DOMAIN Special /\ Special[p] = x
<1>2. ASSUME NEW q \in 1..3, Special[q] = x
      PROVE  FloatPattern(x) = FirstSpecial - 1 + q
  <2>1. \E p \in DOMAIN Special : Special[p] = x
    BY <1>2, SpecialNumbers
  <2>2. \A p \in DOMAIN Special : Special[p] = x => p = q
    <3>. SUFFICES ASSUME NEW p \in 1..3, Special[p] = x PROVE p = q
      BY SpecialNumbers
    <3>1. (p = 1 \/ p = 2 \/ p = 3) /\ (q = 1 \/ q = 2 \/ q = 3)
      OBVIOUS
    <3>. QED
      BY <1>1, <1>2, <3>1, SpecialNumbers
  <2>3. (CHOOSE p \in DOMAIN Special : Special[p] = x) = q
    BY <2>1, <2>2
  <2>. QED
    BY <2>1, <2>3 DEF FloatPattern
<1>3. ASSUME x \notin {NaN, Inf, -Inf} PROVE FloatPattern(x) = x
  <2>1. ~\E p \in DOMAIN Special : Special[p] = x
    <3>. SUFFICES ASSUME NEW p \in 1..3, Special[p] = x PROVE FALSE
      BY SpecialNumbers
    <3>1. p = 1 \/ p = 2 \/ p = 3
      OBVIOUS
    <3>. QED
      BY <1>3, <3>1, SpecialNumbers
  <2>. QED
    BY <2>1 DEF FloatPattern
<1>4. 1 \in 1..3 /\ 2 \in 1..3 /\ 3 \in 1..3
  OBVIOUS
<1>5. (x = NaN => FloatPattern(x) = FirstSpecial - 1 + 1)
      /\ (x = Inf => FloatPattern(x) = FirstSpecial - 1 + 2)
      /\ (x = -Inf => FloatPattern(x) = FirstSpecial - 1 + 3)
  BY <1>2, <1>4, SpecialNumbers
<1>. QED
  BY <1>3, <1>5, SpecialNumbers

\* The float of the pattern of a float.
LEMMA FloatIsKept ==
  ASSUME NEW x \in RangeOf("float")
  PROVE  /\ x \in Int /\ FloatPattern(x) \in Int
         /\ FloatOf(FloatPattern(x) % TwoTo[Int32Bits]) = x
<1>. DEFINE d == TwoTo[Int32Bits]
            k == FirstSpecial
<1>1. PICK n \in 0..(d - 1) : x = FloatOf(n)
  BY DEF RangeOf, SignedTypes
<1>2. d = 2 * k /\ k \in Nat /\ k >= 128 /\ NaN = 2 * d /\ Inf = 4 * d
  BY SpecialNumbers
<1>3. /\ n = k => FloatOf(n) = NaN
      /\ n = k + 1 => FloatOf(n) = Inf
      /\ n = k + 2 => FloatOf(n) = -Inf
      /\ n \notin k..(k + 2) => FloatOf(n) = IF n < k THEN n ELSE n - d
  BY FloatOfPattern
<1>. HIDE DEF d, k
<1>4. x \in Int
  BY <1>1, <1>2, <1>3
<1>5. /\ x = NaN => FloatPattern(x) = k
      /\ x = Inf => FloatPattern(x) = k + 1
      /\ x = -Inf => FloatPattern(x) = k + 2
      /\ x \notin {NaN, Inf, -Inf} => FloatPattern(x) = x
  BY <1>4, PatternOfFloat DEF k
<1>6. FloatPattern(x) = n \/ FloatPattern(x) = n + (-1) * d
  BY <1>1, <1>2, <1>3, <1>5
<1>7. n \in Int /\ -1 \in Int /\ d \in Nat /\ d >= 1 /\ (n + (-1) * d) % d = n % d /\ n % d = n
  <2>1. n \in Int /\ -1 \in Int /\ d \in Nat /\ d >= 1
    BY <1>2
  <2>2. (n + (-1) * d) % d = n % d
    BY <2>1, MultipleAdded
  <2>3. n % d = n
    BY <2>1, SmallNumber
  <2>. QED
    BY <2>1, <2>2, <2>3
<1>8. FloatPattern(x) \in Int /\ FloatPattern(x) % d = n
  BY <1>2, <1>6, <1>7
<1>. QED
  BY <1>1, <1>4, <1>8 DEF d

\* Small numbers are floats.
LEMMA NumbersAreFloats ==
  ASSUME NEW x \in (-FirstSpecial + 3)..(FirstSpecial - 1)
  PROVE  x \in RangeOf("float")
<1>. DEFINE d == TwoTo[Int32Bits]
            k == FirstSpecial
<1>1. d = 2 * k /\ k \in Nat /\ k >= 128
  BY SpecialNumbers
<1>2. \A n \in 0..(d - 1) : n \notin k..(k + 2) => FloatOf(n) = IF n < k THEN n ELSE n - d
  BY FloatOfPattern
<1>. HIDE DEF k
<1>3. x \in (-k + 3)..(k - 1)
  BY DEF k
<1>. HIDE DEF d
<1>4. CASE x >= 0
  <2>1. x \in 0..(d - 1) /\ x \notin k..(k + 2) /\ x < k
    BY <1>1, <1>3, <1>4
  <2>2. FloatOf(x) = x
    BY <1>2, <2>1
  <2>. QED
    BY <2>1, <2>2 DEF RangeOf, SignedTypes, d
<1>5. CASE x < 0
  <2>. DEFINE n == x + d
  <2>1. n \in 0..(d - 1) /\ n \notin k..(k + 2) /\ ~(n < k) /\ n - d = x
    BY <1>1, <1>3, <1>5
  <2>2. FloatOf(n) = x
    BY <1>2, <2>1
  <2>. HIDE DEF n
  <2>. QED
    BY <2>1, <2>2 DEF RangeOf, SignedTypes, d
<1>6. x \in Int
  BY <1>1, <1>3
<1>. QED
  BY <1>4, <1>5, <1>6

------------------------------------------------------------------------------
(***************************************************************************)
(* Numbers in the memory of the PLC.                                       *)
(***************************************************************************)
\* The widths of the data types.
LEMMA TypeSizes ==
  ASSUME NEW type \in PlcDataTypes
  PROVE  /\ BytesOf(SizeOfType(type)) \in {1, 2, 4}
         /\ type = "bool" => Bits(type) = 1 /\ BytesOf(SizeOfType(type)) = 1
         /\ type # "bool" => Bits(type) = ByteBits * BytesOf(SizeOfType(type))
         /\ type = "float" => BytesOf(SizeOfType(type)) = 4
         /\ Bits(type) \in 1..Int32Bits
<1>1. type \in {"bool", "int8", "uint8", "int16", "uint16", "int32", "uint32", "float"}
  BY DEF PlcDataTypes
<1>2. /\ SizeOfType("bool") = "bit"
      /\ SizeOfType("int8") = "byte" /\ SizeOfType("uint8") = "byte"
      /\ SizeOfType("int16") = "word" /\ SizeOfType("uint16") = "word"
      /\ SizeOfType("int32") = "dword" /\ SizeOfType("uint32") = "dword"
      /\ SizeOfType("float") = "dword"
  BY DEF SizeOfType
<1>3. Bits(type) = BitsOf(SizeOfType(type))
  BY DEF Bits
<1>4. /\ type = "bool" => SizeOfType(type) = "bit"
      /\ type \in {"int8", "uint8"} => SizeOfType(type) = "byte"
      /\ type \in {"int16", "uint16"} => SizeOfType(type) = "word"
      /\ type \in {"int32", "uint32", "float"} => SizeOfType(type) = "dword"
  BY <1>2
<1>5. \/ SizeOfType(type) = "bit" /\ type = "bool"
      \/ SizeOfType(type) = "byte" /\ type # "bool" /\ type # "float"
      \/ SizeOfType(type) = "word" /\ type # "bool" /\ type # "float"
      \/ SizeOfType(type) = "dword" /\ type # "bool"
  BY <1>1, <1>4
<1>. QED
  BY <1>3, <1>5, Widths

\* A sequence of a given length.
LEMMA SequenceOf ==
  ASSUME NEW S, NEW n \in Nat, NEW f \in [1..n -> S]
  PROVE  f \in Seq(S) /\ Len(f) = n
<1>1. f \in Seq(S)
  BY SeqDef
<1>2. Len(f) \in Nat /\ DOMAIN f = 1..Len(f)
  BY <1>1, LenProperties
<1>3. 1..n = 1..Len(f)
  BY <1>2
<1>. QED
  BY <1>1, <1>2, <1>3

\* The integer that is transferred for a number.
PatternOf(type, x) == IF type = "float" THEN FloatPattern(x) ELSE x

\* An encoded number is a sequence of bytes, its digits.
LEMMA EncodeBytes ==
  ASSUME NEW type \in PlcDataTypes, NEW x, PatternOf(type, x) \in Int
  PROVE  LET size == BytesOf(SizeOfType(type))
         IN /\ Encode(type, x) \in [1..size -> Bytes]
            /\ Len(Encode(type, x)) = size
            /\ \A i \in 1..size : Encode(type, x)[i] =
                 (PatternOf(type, x) \div TwoTo[ByteBits * (size - i)]) % TwoTo[ByteBits]
<1>. DEFINE size == BytesOf(SizeOfType(type))
            n == PatternOf(type, x)
            e == Encode(type, x)
<1>1. size \in Nat /\ ByteBits \in Nat
  BY TypeSizes, Widths
<1>2. e = [i \in 1..size |-> (n \div TwoTo[ByteBits * (size - i)]) % TwoTo[ByteBits]]
  BY DEF Encode, PatternOf, Unsigned
<1>3. ASSUME NEW i \in 1..size
      PROVE  (n \div TwoTo[ByteBits * (size - i)]) % TwoTo[ByteBits] \in Bytes
  <2>1. size - i \in Nat
    BY <1>1
  <2>. DEFINE k == size - i
              p == TwoTo[ByteBits * k]
              q == n \div p
  <2>. HIDE DEF k, n
  <2>2. p \in Nat /\ p >= 1 /\ TwoTo[ByteBits] \in Nat /\ TwoTo[ByteBits] >= 1
    BY <1>1, <2>1, NextPower DEF k
  <2>. HIDE DEF p
  <2>3. q \in Int
    BY <2>2, Division DEF n
  <2>. HIDE DEF q
  <2>4. q % TwoTo[ByteBits] \in 0..(TwoTo[ByteBits] - 1)
    BY <2>2, <2>3, Division
  <2>. QED
    BY <2>4 DEF Bytes, k, p, q
<1>. HIDE DEF size, n, e
<1>4. e \in [1..size -> Bytes]
  BY <1>2, <1>3
<1>5. Len(e) = size
  BY <1>1, <1>4, SequenceOf
<1>. QED
  BY <1>2, <1>4, <1>5 DEF size, n, e

\* What DigitsOfSum says, in two names.
Weighted(k, f, g, n) ==
  \A i \in 0..(n - 1) : g[i] \in 0..(TwoTo[k] - 1) /\ f[i] = g[i] * TwoTo[k * i]
HasDigits(k, x, g, n) == \A j \in 0..(n - 1) : (x \div TwoTo[k * j]) % TwoTo[k] = g[j]

\* DigitsOfSum, in these two names.
LEMMA DigitsOfWeighted ==
  ASSUME NEW k \in Nat, NEW f, NEW g, NEW n \in Nat, Weighted(k, f, g, n)
  PROVE  SumOf(f, n) \in 0..(TwoTo[k * n] - 1) /\ HasDigits(k, SumOf(f, n), g, n)
<1>1. \A i \in 0..(n - 1) : g[i] \in 0..(TwoTo[k] - 1) /\ f[i] = g[i] * TwoTo[k * i]
  BY DEF Weighted
<1>2. /\ SumOf(f, n) \in 0..(TwoTo[k * n] - 1)
      /\ \A j \in 0..(n - 1) : (SumOf(f, n) \div TwoTo[k * j]) % TwoTo[k] = g[j]
  BY <1>1, DigitsOfSum
<1>. QED
  BY <1>2 DEF HasDigits

\* The number of bytes has these bytes.
LEMMA NumberOfBytesRange ==
  ASSUME NEW size \in Nat, NEW bytes \in [1..size -> Bytes]
  PROVE  /\ NumberOfBytes(bytes) \in 0..(TwoTo[ByteBits * size] - 1)
         /\ \A j \in 0..(size - 1) :
              (NumberOfBytes(bytes) \div TwoTo[ByteBits * j]) % TwoTo[ByteBits] = bytes[size - j]
<1>. DEFINE f == [i \in 0..(size - 1) |-> bytes[size - i] * TwoTo[ByteBits * i]]
            g == [i \in 0..(size - 1) |-> bytes[size - i]]
<1>1. ByteBits \in Nat /\ Len(bytes) = size
  BY Widths, SequenceOf
<1>2. NumberOfBytes(bytes) = SumOf(f, size)
  BY <1>1 DEF NumberOfBytes
<1>3. Weighted(ByteBits, f, g, size)
  <2>. SUFFICES ASSUME NEW i \in 0..(size - 1)
                PROVE  g[i] \in 0..(TwoTo[ByteBits] - 1) /\ f[i] = g[i] * TwoTo[ByteBits * i]
    BY DEF Weighted
  <2>1. size - i \in 1..size
    OBVIOUS
  <2>. QED
    BY <2>1 DEF Bytes
<1>4. \A i \in 0..(size - 1) : g[i] = bytes[size - i]
  OBVIOUS
<1>. HIDE DEF f, g
<1>5. SumOf(f, size) \in 0..(TwoTo[ByteBits * size] - 1) /\ HasDigits(ByteBits, SumOf(f, size), g, size)
  BY <1>1, <1>3, DigitsOfWeighted
<1>. QED
  BY <1>2, <1>4, <1>5, Zenon DEF HasDigits

\* The number of an encoded number.
LEMMA NumberOfEncoded ==
  ASSUME NEW type \in PlcDataTypes, NEW x, PatternOf(type, x) \in Int
  PROVE  NumberOfBytes(Encode(type, x))
           = PatternOf(type, x) % TwoTo[ByteBits * BytesOf(SizeOfType(type))]
<1>. DEFINE size == BytesOf(SizeOfType(type))
            n == PatternOf(type, x)
            e == Encode(type, x)
            f == [i \in 0..(size - 1) |-> e[size - i] * TwoTo[ByteBits * i]]
<1>1. size \in Nat /\ ByteBits \in Nat /\ n \in Int
  BY TypeSizes, Widths
<1>2. Len(e) = size
      /\ \A i \in 1..size : e[i] = (n \div TwoTo[ByteBits * (size - i)]) % TwoTo[ByteBits]
  BY EncodeBytes
<1>3. NumberOfBytes(e) = SumOf(f, size)
  BY <1>2 DEF NumberOfBytes
<1>. HIDE DEF size, n, e
<1>4. \A i \in 0..(size - 1) :
         f[i] = ((n \div TwoTo[ByteBits * i]) % TwoTo[ByteBits]) * TwoTo[ByteBits * i]
  <2>. TAKE i \in 0..(size - 1)
  <2>1. size - i \in 1..size /\ size - (size - i) = i
    BY <1>1
  <2>2. e[size - i] = (n \div TwoTo[ByteBits * i]) % TwoTo[ByteBits]
    BY <1>2, <2>1
  <2>3. f[i] = e[size - i] * TwoTo[ByteBits * i]
    OBVIOUS
  <2>. QED
    BY <2>2, <2>3, Zenon
<1>. HIDE DEF f
<1>5. SumOf(f, size) = n % TwoTo[ByteBits * size]
  BY <1>1, <1>4, SumOfDigits
<1>. QED
  BY <1>3, <1>5 DEF size, n, e

\* Numbers with the same low bits are encoded alike.
LEMMA EncodeSame ==
  ASSUME NEW type \in PlcDataTypes, type # "float", NEW x \in Int, NEW y \in Int,
         x % TwoTo[ByteBits * BytesOf(SizeOfType(type))] = y % TwoTo[ByteBits * BytesOf(SizeOfType(type))]
  PROVE  Encode(type, x) = Encode(type, y)
<1>. DEFINE size == BytesOf(SizeOfType(type))
            d == Encode(type, x)
            e == Encode(type, y)
<1>1. size \in Nat /\ ByteBits \in Nat
  BY TypeSizes, Widths
<1>2. PatternOf(type, x) = x /\ PatternOf(type, y) = y
  BY DEF PatternOf
<1>3. /\ d \in [1..size -> Bytes]
      /\ \A i \in 1..size : d[i] = (x \div TwoTo[ByteBits * (size - i)]) % TwoTo[ByteBits]
  BY <1>2, EncodeBytes
<1>4. /\ e \in [1..size -> Bytes]
      /\ \A i \in 1..size : e[i] = (y \div TwoTo[ByteBits * (size - i)]) % TwoTo[ByteBits]
  BY <1>2, EncodeBytes
<1>5. x % TwoTo[ByteBits * size] = y % TwoTo[ByteBits * size]
  OBVIOUS
<1>. HIDE DEF size, d, e
<1>6. ASSUME NEW i \in 1..size PROVE d[i] = e[i]
  <2>. DEFINE j == size - i
  <2>1. j \in 0..(size - 1)
    BY <1>1
  <2>. HIDE DEF j
  <2>2. ((x % TwoTo[ByteBits * size]) \div TwoTo[ByteBits * j]) % TwoTo[ByteBits]
          = (x \div TwoTo[ByteBits * j]) % TwoTo[ByteBits]
    BY <1>1, <2>1, DigitsOfRemainder
  <2>3. ((y % TwoTo[ByteBits * size]) \div TwoTo[ByteBits * j]) % TwoTo[ByteBits]
          = (y \div TwoTo[ByteBits * j]) % TwoTo[ByteBits]
    BY <1>1, <2>1, DigitsOfRemainder
  <2>4. (x \div TwoTo[ByteBits * j]) % TwoTo[ByteBits] = (y \div TwoTo[ByteBits * j]) % TwoTo[ByteBits]
    BY <1>5, <2>2, <2>3, Zenon
  <2>5. /\ d[i] = (x \div TwoTo[ByteBits * j]) % TwoTo[ByteBits]
        /\ e[i] = (y \div TwoTo[ByteBits * j]) % TwoTo[ByteBits]
    BY <1>3, <1>4, Zenon DEF j
  <2>. QED
    BY <2>4, <2>5, Zenon
<1>7. d \in [1..size -> Bytes] /\ e \in [1..size -> Bytes]
  BY <1>3, <1>4
<1>8. \A i \in 1..size : d[i] = e[i]
  BY <1>6
<1>9. d = e
  BY <1>1, <1>7, <1>8
<1>. QED
  BY <1>9 DEF d, e

\* The numbers of each data type.
LEMMA RangesOfTypes ==
  /\ RangeOf("bool") = 0..1
  /\ RangeOf("float") = {FloatOf(n) : n \in 0..(TwoTo[Int32Bits] - 1)}
  /\ \A type \in SignedTypes :
       RangeOf(type) = (-TwoTo[Bits(type) - 1])..(TwoTo[Bits(type) - 1] - 1)
  /\ \A type \in PlcDataTypes \ (SignedTypes \union {"bool", "float"}) :
       RangeOf(type) = 0..(TwoTo[Bits(type)] - 1)
<1>1. RangeOf("bool") = 0..1
  BY DEF RangeOf, SignedTypes
<1>2. RangeOf("float") = {FloatOf(n) : n \in 0..(TwoTo[Int32Bits] - 1)}
  BY DEF RangeOf, SignedTypes
<1>3. ASSUME NEW type \in SignedTypes
      PROVE  RangeOf(type) = (-TwoTo[Bits(type) - 1])..(TwoTo[Bits(type) - 1] - 1)
  <2>1. type # "bool" /\ type # "float"
    BY DEF SignedTypes
  <2>. QED
    BY <2>1 DEF RangeOf
<1>4. ASSUME NEW type \in PlcDataTypes \ (SignedTypes \union {"bool", "float"})
      PROVE  RangeOf(type) = 0..(TwoTo[Bits(type)] - 1)
  BY DEF RangeOf
<1>. QED
  BY <1>1, <1>2, <1>3, <1>4

\* What bytes are decoded to is in the range of the data type.
LEMMA DecodeRange ==
  ASSUME NEW type \in PlcDataTypes, NEW bytes \in [1..BytesOf(SizeOfType(type)) -> Bytes],
         type = "bool" => bytes[1] \in 0..1
  PROVE  Decode(type, bytes) \in RangeOf(type)
<1>. DEFINE size == BytesOf(SizeOfType(type))
            n == NumberOfBytes(bytes)
<1>1. size \in Nat /\ size >= 1 /\ ByteBits \in Nat /\ ByteBits >= 2 /\ Int32Bits = ByteBits * 4
  BY TypeSizes, Widths
<1>2. n \in 0..(TwoTo[ByteBits * size] - 1) /\ Len(bytes) = size
  BY <1>1, NumberOfBytesRange, SequenceOf
<1>3. n \in Int /\ TwoTo[ByteBits * size] \in Nat
  BY <1>1, <1>2, NextPower
<1>4. CASE type = "float"
  <2>1. size = 4 /\ ByteBits * size = Int32Bits
    BY <1>1, <1>4, TypeSizes
  <2>2. Decode(type, bytes) = FloatOf(n)
    BY <1>4 DEF Decode, SignedTypes
  <2>. QED
    BY <1>2, <1>4, <2>1, <2>2, RangesOfTypes
<1>5. CASE type \in SignedTypes
  <2>1. type # "float" /\ type # "bool"
    BY <1>5 DEF SignedTypes
  <2>2. Bits(type) = ByteBits * size /\ Bits(type) \in Nat /\ Bits(type) >= 1
    BY <1>1, <2>1, TypeSizes
  <2>3. Decode(type, bytes) = Signed(n, ByteBits * size)
    BY <1>2, <1>5, <2>1 DEF Decode
  <2>. HIDE DEF n
  <2>4. Signed(n, Bits(type)) \in (-TwoTo[Bits(type) - 1])..(TwoTo[Bits(type) - 1] - 1)
    BY <1>3, <2>2, SignedRange
  <2>. QED
    BY <1>5, <2>2, <2>3, <2>4, RangesOfTypes
<1>6. CASE type = "bool"
  <2>1. size = 1 /\ Decode(type, bytes) = n
    BY <1>6, TypeSizes DEF Decode, SignedTypes
  <2>2. (n \div TwoTo[ByteBits * 0]) % TwoTo[ByteBits] = bytes[1 - 0]
    <3>1. \A j \in 0..(size - 1) :
            (n \div TwoTo[ByteBits * j]) % TwoTo[ByteBits] = bytes[size - j]
      BY <1>1, NumberOfBytesRange
    <3>2. 0 \in 0..(size - 1)
      BY <2>1
    <3>. HIDE DEF size, n
    <3>. QED
      BY <2>1, <3>1, <3>2, Zenon
  <2>3. ByteBits * 0 = 0 /\ TwoTo[0] = 1 /\ ByteBits * 1 = ByteBits
    BY <1>1, TwoToStep
  <2>. HIDE DEF n
  <2>4. n \div 1 = n /\ 1 - 0 = 1
    BY <1>3
  <2>5. n \in 0..(TwoTo[ByteBits] - 1) /\ TwoTo[ByteBits] \in Nat
    BY <1>2, <1>3, <2>1, <2>3
  <2>6. n % TwoTo[ByteBits] = n
    BY <2>5, SmallNumber
  <2>7. n = bytes[1]
    BY <2>2, <2>3, <2>4, <2>6
  <2>. QED
    BY <1>6, <2>1, <2>7, RangesOfTypes
<1>7. CASE type \notin SignedTypes /\ type # "float" /\ type # "bool"
  <2>1. Decode(type, bytes) = n
    BY <1>7 DEF Decode
  <2>2. Bits(type) = ByteBits * size
    BY <1>7, TypeSizes
  <2>. QED
    BY <1>2, <1>7, <2>1, <2>2, RangesOfTypes
<1>. QED
  BY <1>4, <1>5, <1>6, <1>7

\* What is read back.
LEMMA DecodeEncoded ==
  ASSUME NEW type \in PlcDataTypes, NEW x \in Int,
         type \in {"bool", "float"} => x \in RangeOf(type)
  PROVE  LET y == Decode(type, Encode(type, x))
         IN /\ y \in RangeOf(type) /\ y \in Int
            /\ x \in RangeOf(type) => y = x
            /\ y % TwoTo[Bits(type)] = x % TwoTo[Bits(type)]
            /\ Encode(type, y) = Encode(type, x)
<1>. DEFINE size == BytesOf(SizeOfType(type))
            e == Encode(type, x)
            y == Decode(type, e)
            d == TwoTo[ByteBits * size]
<1>1. /\ size \in Nat /\ size >= 1 /\ ByteBits \in Nat /\ ByteBits >= 2 /\ Int32Bits = ByteBits * 4
      /\ d \in Nat /\ d >= 1
  BY TypeSizes, Widths, NextPower
<1>2. PatternOf(type, x) \in Int
  BY FloatIsKept DEF PatternOf
<1>3. e \in [1..size -> Bytes] /\ Len(e) = size /\ NumberOfBytes(e) = PatternOf(type, x) % d
  BY <1>2, EncodeBytes, NumberOfEncoded
<1>4. CASE type = "float"
  <2>1. size = 4 /\ ByteBits * size = Int32Bits
    BY <1>1, <1>4, TypeSizes
  <2>2. y = FloatOf(NumberOfBytes(e)) /\ PatternOf(type, x) = FloatPattern(x)
    BY <1>4 DEF Decode, SignedTypes, PatternOf
  <2>3. y = x /\ x \in RangeOf(type)
    BY <1>3, <1>4, <2>1, <2>2, FloatIsKept
  <2>. QED
    BY <2>3
<1>5. CASE type \in SignedTypes
  <2>1. type # "float" /\ type # "bool"
    BY <1>5 DEF SignedTypes
  <2>2. Bits(type) = ByteBits * size /\ Bits(type) \in Nat /\ Bits(type) >= 1
    BY <1>1, <2>1, TypeSizes
  <2>3. y = Signed(NumberOfBytes(e), ByteBits * size)
    BY <1>3, <1>5, <2>1 DEF Decode
  <2>4. NumberOfBytes(e) = Unsigned(x, Bits(type))
    BY <1>3, <2>1, <2>2 DEF PatternOf, Unsigned
  <2>5. /\ Signed(x, Bits(type)) \in (-TwoTo[Bits(type) - 1])..(TwoTo[Bits(type) - 1] - 1)
        /\ Signed(x, Bits(type)) % TwoTo[Bits(type)] = x % TwoTo[Bits(type)]
        /\ x \in (-TwoTo[Bits(type) - 1])..(TwoTo[Bits(type) - 1] - 1) => Signed(x, Bits(type)) = x
        /\ Signed(Unsigned(x, Bits(type)), Bits(type)) = Signed(x, Bits(type))
    BY <2>2, SignedRange
  <2>6. y = Signed(x, Bits(type))
    BY <2>2, <2>3, <2>4, <2>5, Zenon
  <2>7. RangeOf(type) = (-TwoTo[Bits(type) - 1])..(TwoTo[Bits(type) - 1] - 1)
    BY <1>5, RangesOfTypes
  <2>8. TwoTo[Bits(type) - 1] \in Nat
    <3>1. Bits(type) - 1 \in Nat
      BY <2>2
    <3>. QED
      BY <3>1, TwoToIsPositive
  <2>. HIDE DEF y
  <2>9. y \in RangeOf(type) /\ y \in Int /\ (x \in RangeOf(type) => y = x)
        /\ y % TwoTo[Bits(type)] = x % TwoTo[Bits(type)]
    BY <2>5, <2>6, <2>7, <2>8
  <2>10. Encode(type, y) = Encode(type, x)
    BY <2>1, <2>2, <2>9, EncodeSame
  <2>. QED
    BY <2>9, <2>10 DEF y
<1>6. CASE type = "bool"
  <2>1. size = 1 /\ ByteBits * size = ByteBits /\ y = NumberOfBytes(e) /\ PatternOf(type, x) = x
    BY <1>1, <1>6, TypeSizes DEF Decode, SignedTypes, PatternOf
  <2>2. x \in 0..1
    BY <1>6, RangesOfTypes
  <2>3. TwoTo[ByteBits] >= 4 /\ TwoTo[ByteBits] \in Nat
    <3>1. 2 \in Nat /\ 2 <= ByteBits
      BY <1>1
    <3>. QED
      BY <1>1, <3>1, Widths, TwoToGrows, TwoToIsPositive
  <2>4. x \in 0..(TwoTo[ByteBits] - 1)
    BY <2>2, <2>3
  <2>5. x % TwoTo[ByteBits] = x
    BY <2>3, <2>4, SmallNumber
  <2>6. y = x
    BY <1>3, <2>1, <2>5
  <2>7. x \in RangeOf(type)
    BY <1>6
  <2>. QED
    BY <2>6, <2>7
<1>7. CASE type \notin SignedTypes /\ type # "float" /\ type # "bool"
  <2>1. y = NumberOfBytes(e) /\ PatternOf(type, x) = x
    BY <1>7 DEF Decode, PatternOf
  <2>2. Bits(type) = ByteBits * size
    BY <1>7, TypeSizes
  <2>3. y = x % d
    BY <1>3, <2>1
  <2>4. y \in 0..(d - 1)
    BY <1>1, <2>3, Division
  <2>. HIDE DEF y
  <2>5. y % d = y
    BY <1>1, <2>4, SmallNumber
  <2>6. x \in 0..(d - 1) => x % d = x
    BY <1>1, SmallNumber
  <2>7. RangeOf(type) = 0..(d - 1)
    BY <1>7, <2>2, RangesOfTypes
  <2>. HIDE DEF d
  <2>8. y \in Int /\ y % d = x % d
    BY <1>1, <2>3, <2>4, <2>5
  <2>9. Encode(type, y) = Encode(type, x)
    BY <1>7, <2>8, EncodeSame DEF d
  <2>. QED
    BY <2>2, <2>3, <2>4, <2>6, <2>7, <2>8, <2>9 DEF y, d
<1>. QED
  BY <1>4, <1>5, <1>6, <1>7

------------------------------------------------------------------------------
(***************************************************************************)
(* Kinds of records and their data types.                                  *)
(***************************************************************************)
\* The output records, and the input records of the same kind.
LEMMA Kinds ==
  /\ OutputTypes = {"aao", "ao", "bo", "longout", "mbbo", "mbboDirect", "stringout", "waveformOut"}
  /\ ClassOf["aao"].support = "array" /\ ClassOf["aai"].support = "array"
  /\ ClassOf["waveformOut"].support = "array" /\ ClassOf["waveformIn"].support = "array"
  /\ ClassOf["ao"].support = "analog" /\ ClassOf["ai"].support = "analog"
  /\ ClassOf["bo"].support = "binary" /\ ClassOf["bi"].support = "binary"
  /\ ClassOf["longout"].support = "long" /\ ClassOf["longin"].support = "long"
  /\ ClassOf["mbbo"].support = "multiBinary" /\ ClassOf["mbbi"].support = "multiBinary"
  /\ ClassOf["mbboDirect"].support = "multiBinary" /\ ClassOf["mbbiDirect"].support = "multiBinary"
  /\ ClassOf["stringout"].support = "string" /\ ClassOf["stringin"].support = "string"
  /\ \A r \in OutputTypes : ~ClassOf[r].input
  /\ ClassOf["aai"].input /\ ClassOf["waveformIn"].input
<1>. DEFINE T == {"aai", "aao", "ai", "ao", "bi", "bo", "longin", "longout", "mbbi", "mbbo",
                  "mbbiDirect", "mbboDirect", "stringin", "stringout", "waveformIn", "waveformOut"}
<1>1. DOMAIN ClassOf = T
  BY DEF ClassOf
<1>2. OutputTypes = {t \in T : ~ClassOf[t].input}
  BY <1>1 DEF OutputTypes, InputTypes, RecordTypes
<1>3. /\ ~ClassOf["aao"].input /\ ~ClassOf["ao"].input /\ ~ClassOf["bo"].input
      /\ ~ClassOf["longout"].input /\ ~ClassOf["mbbo"].input /\ ~ClassOf["mbboDirect"].input
      /\ ~ClassOf["stringout"].input /\ ~ClassOf["waveformOut"].input
  BY DEF ClassOf, Class, S7nodaveAaoRecord, S7nodaveAoRecord, S7nodaveBoRecord,
         S7nodaveLongoutRecord, S7nodaveMbboRecord, S7nodaveMbboDirectRecord,
         S7nodaveStringoutRecord, S7nodaveWaveformOutRecord
<1>4. /\ ClassOf["aai"].input /\ ClassOf["ai"].input /\ ClassOf["bi"].input
      /\ ClassOf["longin"].input /\ ClassOf["mbbi"].input /\ ClassOf["mbbiDirect"].input
      /\ ClassOf["stringin"].input /\ ClassOf["waveformIn"].input
  BY DEF ClassOf, Class, S7nodaveAaiRecord, S7nodaveAiRecord, S7nodaveBiRecord,
         S7nodaveLonginRecord, S7nodaveMbbiRecord, S7nodaveMbbiDirectRecord,
         S7nodaveStringinRecord, S7nodaveWaveformInRecord
<1>5. OutputTypes = {"aao", "ao", "bo", "longout", "mbbo", "mbboDirect", "stringout", "waveformOut"}
  BY <1>2, <1>3, <1>4
<1>6. /\ ClassOf["aao"].support = "array" /\ ClassOf["aai"].support = "array"
      /\ ClassOf["waveformOut"].support = "array" /\ ClassOf["waveformIn"].support = "array"
      /\ ClassOf["ao"].support = "analog" /\ ClassOf["ai"].support = "analog"
      /\ ClassOf["bo"].support = "binary" /\ ClassOf["bi"].support = "binary"
  BY DEF ClassOf, Class, S7nodaveAaiRecord, S7nodaveAiRecord, S7nodaveBiRecord, S7nodaveAaoRecord,
         S7nodaveAoRecord, S7nodaveBoRecord, S7nodaveWaveformInRecord, S7nodaveWaveformOutRecord
<1>7. /\ ClassOf["longout"].support = "long" /\ ClassOf["longin"].support = "long"
      /\ ClassOf["mbbo"].support = "multiBinary" /\ ClassOf["mbbi"].support = "multiBinary"
      /\ ClassOf["mbboDirect"].support = "multiBinary" /\ ClassOf["mbbiDirect"].support = "multiBinary"
      /\ ClassOf["stringout"].support = "string" /\ ClassOf["stringin"].support = "string"
  BY DEF ClassOf, Class, S7nodaveLonginRecord, S7nodaveMbbiRecord, S7nodaveMbbiDirectRecord,
         S7nodaveStringinRecord, S7nodaveLongoutRecord, S7nodaveMbboRecord,
         S7nodaveMbboDirectRecord, S7nodaveStringoutRecord
<1>8. \A r \in OutputTypes : ~ClassOf[r].input
  BY <1>2
<1>. QED
  BY <1>4, <1>5, <1>6, <1>7, <1>8

\* A configuration of an output record that is initialized.
IsActive(c) == IsConfiguration(c) /\ TypesOf(c) # {}

\* The fields of a configuration.
LEMMA Fields ==
  ASSUME NEW c, IsConfiguration(c)
  PROVE  /\ c.recordType \in OutputTypes /\ c.ftvl \in ElementTypes /\ c.dataSize \in DataSizes
         /\ c.requested = {} \/ \E t \in PlcDataTypes : c.requested = {t}
         /\ c.requested \subseteq PlcDataTypes
         /\ c.nelm \in Nat /\ c.nelm >= 1
         /\ c.linear \in BOOLEAN /\ c.egul \in Int /\ c.eguf \in Int
         /\ c.limits \subseteq [low: Int, high: Int] /\ c.eslo \in Int /\ c.eoff \in Int
         /\ c.states \in Seq(Nat) /\ Len(c.states) <= 16 /\ c.nobt \in Nat /\ c.shft \in Nat
<1>1. c \in Configurations
  BY DEF IsConfiguration
<1>2. /\ c.recordType \in OutputTypes /\ c.ftvl \in ElementTypes /\ c.dataSize \in DataSizes
      /\ c.requested \in {{}} \union {{t} : t \in PlcDataTypes}
      /\ c.nelm \in Nat \ {0}
      /\ c.linear \in BOOLEAN /\ c.egul \in Int /\ c.eguf \in Int
      /\ c.limits \in {s \in SUBSET [low: Int, high: Int] : \A l, m \in s : l = m}
      /\ c.eslo \in Int /\ c.eoff \in Int
      /\ c.states \in {s \in Seq(Nat) : Len(s) <= 16} /\ c.nobt \in Nat /\ c.shft \in Nat
  BY <1>1 DEF Configurations
<1>. QED
  BY <1>2

\* There is one default for each size of the memory.
LEMMA DefaultTypes ==
  /\ DefaultType("bit") = {"bool"} /\ DefaultType("byte") = {"int8"}
  /\ DefaultType("word") = {"int16"} /\ DefaultType("dword") = {"int32"}
  BY DEF DefaultType

\* The data types of each kind of record.
LEMMA TypesOfKinds ==
  ASSUME NEW recordType, NEW ftvl \in ElementTypes, NEW dataSize \in DataSizes,
         NEW requested \in SUBSET PlcDataTypes,
         NEW t \in GetPlcDataType(recordType, ftvl, dataSize, requested)
  PROVE  LET support == ClassOf[recordType].support
         IN /\ support \in {"analog", "long", "binary", "multiBinary", "string"} => t \in PlcDataTypes
            /\ support \in {"analog", "long", "binary", "multiBinary", "string", "array"} /\ requested # {}
                 => t \in requested
            /\ support = "analog" => t # "uint32"
            /\ support = "long" => t \notin {"uint32", "float"}
            /\ support = "multiBinary" => t \notin {"bool", "float"}
            /\ support = "string" => t \in {"bool", "int8", "uint8"}
            /\ support = "array" /\ ~ClassOf[recordType].input =>
                 t \in ArrayType(requested, dataSize, ArrayOutRequested(ftvl), ArrayOutDefault(ftvl))
            /\ support = "array" /\ ClassOf[recordType].input =>
                 t \in ArrayType(requested, dataSize, ArrayInRequested(ftvl), ArrayInDefault(ftvl))
<1>. DEFINE support == ClassOf[recordType].support
            input == ClassOf[recordType].input
            default == DefaultType(dataSize)
<1>1. default \in {{"bool"}, {"int8"}, {"int16"}, {"int32"}}
  BY DefaultTypes DEF DataSizes
<1>2. /\ support = "analog" => t \in AnalogType(requested, default)
      /\ support = "long" => t \in LongType(requested, default)
      /\ support = "binary" => t \in BinaryType(requested, default)
      /\ support = "multiBinary" => t \in MultiBinaryType(requested, default)
      /\ support = "string" => t \in StringType(requested, dataSize)
      /\ support = "array" /\ input =>
           t \in ArrayType(requested, dataSize, ArrayInRequested(ftvl), ArrayInDefault(ftvl))
      /\ support = "array" /\ ~input =>
           t \in ArrayType(requested, dataSize, ArrayOutRequested(ftvl), ArrayOutDefault(ftvl))
  BY DEF GetPlcDataType
<1>. HIDE DEF support, input, default
<1>3. support = "analog" => t \in PlcDataTypes /\ t # "uint32" /\ (requested # {} => t \in requested)
  BY <1>1, <1>2 DEF AnalogType, Instead, PlcDataTypes
<1>4. support = "long" =>
        t \in PlcDataTypes /\ t \notin {"uint32", "float"} /\ (requested # {} => t \in requested)
  BY <1>1, <1>2 DEF LongType, Instead, PlcDataTypes
<1>5. support = "binary" => t \in PlcDataTypes /\ (requested # {} => t \in requested)
  BY <1>1, <1>2 DEF BinaryType, PlcDataTypes
<1>6. support = "multiBinary" =>
        t \in PlcDataTypes /\ t \notin {"bool", "float"} /\ (requested # {} => t \in requested)
  BY <1>1, <1>2 DEF MultiBinaryType, Instead, PlcDataTypes
<1>7. support = "string" => t \in {"bool", "int8", "uint8"} /\ (requested # {} => t \in requested)
  BY <1>2 DEF StringType, DataSizes
<1>8. support = "array" => (requested # {} => t \in requested)
  BY <1>2 DEF ArrayType
<1>. QED
  BY <1>2, <1>3, <1>4, <1>5, <1>6, <1>7, <1>8 DEF support, input, PlcDataTypes

\* The data types that an array may have.
LEMMA ArrayOutTypes ==
  ASSUME NEW ftvl \in ElementTypes, NEW dataSize, NEW requested,
         NEW t \in ArrayType(requested, dataSize, ArrayOutRequested(ftvl), ArrayOutDefault(ftvl))
  PROVE  /\ t \in PlcDataTypes
         /\ ftvl = "STRING" => t \in {"int8", "uint8"}
         /\ ftvl = "CHAR" => t \in {"bool", "int8", "int16", "int32", "float"}
         /\ ftvl = "UCHAR" => t \in {"bool", "uint8", "int16", "uint16", "int32", "uint32", "float"}
         /\ ftvl = "SHORT" => t \in {"bool", "int16", "int32", "float"}
         /\ ftvl \in {"USHORT", "ENUM"} => t \in {"bool", "uint16", "int32", "uint32", "float"}
         /\ ftvl = "LONG" => t \in {"bool", "int32", "float"}
         /\ ftvl = "ULONG" => t \in {"bool", "uint32", "float"}
         /\ ftvl \in {"FLOAT", "DOUBLE"} => t \in {"bool", "float"}
<1>1. t \in ArrayOutRequested(ftvl)
      \/ \E s \in DOMAIN ArrayOutDefault(ftvl) : t = ArrayOutDefault(ftvl)[s]
  BY DEF ArrayType
<1>2. ftvl \in {"STRING", "CHAR", "UCHAR", "SHORT", "USHORT", "LONG", "ULONG", "FLOAT", "DOUBLE", "ENUM"}
  BY DEF ElementTypes
<1>3. CASE ftvl = "STRING"
  BY <1>1, <1>3 DEF ArrayOutRequested, ArrayOutDefault, PlcDataTypes
<1>4. CASE ftvl = "CHAR"
  BY <1>1, <1>4 DEF ArrayOutRequested, ArrayOutDefault, PlcDataTypes
<1>5. CASE ftvl = "UCHAR"
  BY <1>1, <1>5 DEF ArrayOutRequested, ArrayOutDefault, PlcDataTypes
<1>6. CASE ftvl = "SHORT"
  BY <1>1, <1>6 DEF ArrayOutRequested, ArrayOutDefault, PlcDataTypes
<1>7. CASE ftvl \in {"USHORT", "ENUM"}
  BY <1>1, <1>7 DEF ArrayOutRequested, ArrayOutDefault, PlcDataTypes
<1>8. CASE ftvl = "LONG"
  BY <1>1, <1>8 DEF ArrayOutRequested, ArrayOutDefault, PlcDataTypes
<1>9. CASE ftvl = "ULONG"
  BY <1>1, <1>9 DEF ArrayOutRequested, ArrayOutDefault, PlcDataTypes
<1>10. CASE ftvl \in {"FLOAT", "DOUBLE"}
  BY <1>1, <1>10 DEF ArrayOutRequested, ArrayOutDefault, PlcDataTypes
<1>. QED
  BY <1>2, <1>3, <1>4, <1>5, <1>6, <1>7, <1>8, <1>9, <1>10

\* The same for the arrays that read.
LEMMA ArrayInTypes ==
  ASSUME NEW ftvl \in ElementTypes, NEW dataSize, NEW requested,
         NEW t \in ArrayType(requested, dataSize, ArrayInRequested(ftvl), ArrayInDefault(ftvl))
  PROVE  /\ t \in PlcDataTypes
         /\ ftvl = "CHAR" => t \in {"bool", "int8"}
         /\ ftvl = "UCHAR" => t \in {"bool", "uint8"}
         /\ ftvl = "SHORT" => t \in {"bool", "int8", "uint8", "int16"}
         /\ ftvl \in {"USHORT", "ENUM"} => t \in {"bool", "uint8", "uint16"}
         /\ ftvl = "LONG" => t \in {"bool", "int8", "uint8", "int16", "uint16", "int32"}
         /\ ftvl = "ULONG" => t \in {"bool", "uint8", "uint16", "uint32"}
<1>1. t \in ArrayInRequested(ftvl)
      \/ \E s \in DOMAIN ArrayInDefault(ftvl) : t = ArrayInDefault(ftvl)[s]
  BY DEF ArrayType
<1>2. ftvl \in {"STRING", "CHAR", "UCHAR", "SHORT", "USHORT", "LONG", "ULONG", "FLOAT", "DOUBLE", "ENUM"}
  BY DEF ElementTypes
<1>3. CASE ftvl = "STRING"
  BY <1>1, <1>3 DEF ArrayInRequested, ArrayInDefault, PlcDataTypes
<1>4. CASE ftvl = "CHAR"
  BY <1>1, <1>4 DEF ArrayInRequested, ArrayInDefault, PlcDataTypes
<1>5. CASE ftvl = "UCHAR"
  BY <1>1, <1>5 DEF ArrayInRequested, ArrayInDefault, PlcDataTypes
<1>6. CASE ftvl = "SHORT"
  BY <1>1, <1>6 DEF ArrayInRequested, ArrayInDefault, PlcDataTypes
<1>7. CASE ftvl \in {"USHORT", "ENUM"}
  BY <1>1, <1>7 DEF ArrayInRequested, ArrayInDefault, PlcDataTypes
<1>8. CASE ftvl = "LONG"
  BY <1>1, <1>8 DEF ArrayInRequested, ArrayInDefault, PlcDataTypes
<1>9. CASE ftvl = "ULONG"
  BY <1>1, <1>9 DEF ArrayInRequested, ArrayInDefault, PlcDataTypes
<1>10. CASE ftvl \in {"FLOAT", "DOUBLE"}
  BY <1>1, <1>10 DEF ArrayInRequested, ArrayInDefault, PlcDataTypes
<1>. QED
  BY <1>2, <1>3, <1>4, <1>5, <1>6, <1>7, <1>8, <1>9, <1>10

------------------------------------------------------------------------------
(***************************************************************************)
(* Ranges.                                                                 *)
(***************************************************************************)
\* Half as many as the numbers of one, two and four bytes.
Byte2 == TwoTo[ByteBits - 1]
Word2 == TwoTo[ByteBits * 2 - 1]
Dword2 == FirstSpecial

\* How the limits of the integers are related.
LEMMA Halves ==
  /\ Byte2 \in Nat /\ Word2 \in Nat /\ Dword2 \in Nat
  /\ TwoTo[ByteBits] = 2 * Byte2 /\ TwoTo[ByteBits * 2] = 2 * Word2 /\ TwoTo[Int32Bits] = 2 * Dword2
  /\ Byte2 >= 2 /\ Word2 >= 2 * Byte2 /\ Dword2 >= 2 * Word2 /\ Dword2 >= 128
<1>. DEFINE b == ByteBits
            w == ByteBits * 2
            d == ByteBits * 4
<1>1. b \in Nat /\ b >= 2 /\ w \in Nat /\ d \in Nat /\ d = Int32Bits /\ w = 2 * b /\ d = 4 * b
  BY Widths
<1>. HIDE DEF b, w, d
<1>2. /\ b - 1 \in Nat /\ (b - 1) + 1 = b /\ w - 1 \in Nat /\ (w - 1) + 1 = w
      /\ d - 1 \in Nat /\ (d - 1) + 1 = d /\ 1 <= b - 1 /\ b <= w - 1 /\ w <= d - 1 /\ 1 \in Nat
  BY <1>1
<1>3. TwoTo[b] = 2 * TwoTo[b - 1] /\ TwoTo[w] = 2 * TwoTo[w - 1] /\ TwoTo[d] = 2 * TwoTo[d - 1]
  BY <1>2, TwoToStep
<1>4. TwoTo[1] <= TwoTo[b - 1] /\ TwoTo[b] <= TwoTo[w - 1] /\ TwoTo[w] <= TwoTo[d - 1]
  BY <1>1, <1>2, TwoToGrows
<1>5. TwoTo[b - 1] \in Nat /\ TwoTo[w - 1] \in Nat /\ TwoTo[d - 1] \in Nat
  BY <1>2, TwoToIsPositive
<1>6. Byte2 = TwoTo[b - 1] /\ Word2 = TwoTo[w - 1] /\ Dword2 = TwoTo[d - 1]
  BY <1>1 DEF Byte2, Word2, Dword2, FirstSpecial, b, w
<1>7. Dword2 >= 128
  BY SpecialNumbers DEF Dword2
<1>8. TwoTo[ByteBits] = TwoTo[b] /\ TwoTo[ByteBits * 2] = TwoTo[w] /\ TwoTo[Int32Bits] = TwoTo[d]
  BY <1>1 DEF b, w
<1>. QED
  BY <1>3, <1>4, <1>5, <1>6, <1>7, <1>8, Widths

\* The numbers of each data type, with these limits.
LEMMA Ranges ==
  /\ RangeOf("bool") = 0..1
  /\ RangeOf("int8") = (-Byte2)..(Byte2 - 1) /\ RangeOf("uint8") = 0..(2 * Byte2 - 1)
  /\ RangeOf("int16") = (-Word2)..(Word2 - 1) /\ RangeOf("uint16") = 0..(2 * Word2 - 1)
  /\ RangeOf("int32") = (-Dword2)..(Dword2 - 1) /\ RangeOf("uint32") = 0..(2 * Dword2 - 1)
  /\ \A x \in RangeOf("float") : x \in Int
<1>1. /\ SizeOfType("int8") = "byte" /\ SizeOfType("uint8") = "byte"
      /\ SizeOfType("int16") = "word" /\ SizeOfType("uint16") = "word"
      /\ SizeOfType("int32") = "dword" /\ SizeOfType("uint32") = "dword"
  BY DEF SizeOfType
<1>2. /\ Bits("int8") = ByteBits /\ Bits("uint8") = ByteBits
      /\ Bits("int16") = ByteBits * 2 /\ Bits("uint16") = ByteBits * 2
      /\ Bits("int32") = Int32Bits /\ Bits("uint32") = Int32Bits
  BY <1>1, Widths DEF Bits
<1>3. "int8" \in SignedTypes /\ "int16" \in SignedTypes /\ "int32" \in SignedTypes
  BY DEF SignedTypes
<1>4. \A t \in {"uint8", "uint16", "uint32"} : t \in PlcDataTypes \ (SignedTypes \union {"bool", "float"})
  BY DEF SignedTypes, PlcDataTypes
<1>5. /\ RangeOf("int8") = (-TwoTo[ByteBits - 1])..(TwoTo[ByteBits - 1] - 1)
      /\ RangeOf("int16") = (-TwoTo[ByteBits * 2 - 1])..(TwoTo[ByteBits * 2 - 1] - 1)
      /\ RangeOf("int32") = (-TwoTo[Int32Bits - 1])..(TwoTo[Int32Bits - 1] - 1)
  BY <1>2, <1>3, RangesOfTypes
<1>6. /\ RangeOf("uint8") = 0..(TwoTo[ByteBits] - 1)
      /\ RangeOf("uint16") = 0..(TwoTo[ByteBits * 2] - 1)
      /\ RangeOf("uint32") = 0..(TwoTo[Int32Bits] - 1)
  BY <1>2, <1>4, RangesOfTypes
<1>. QED
  BY <1>5, <1>6, Halves, RangesOfTypes, FloatIsKept DEF Byte2, Word2, Dword2, FirstSpecial

\* They are integers.
LEMMA RangesAreIntegers ==
  ASSUME NEW type \in PlcDataTypes, NEW x \in RangeOf(type)
  PROVE  x \in Int
<1>1. CASE type = "bool"
  BY <1>1, Ranges
<1>2. CASE type \in {"int8", "uint8"}
  <2>1. x \in (-Byte2)..(Byte2 - 1) \/ x \in 0..(2 * Byte2 - 1)
    BY <1>2, Ranges
  <2>. QED
    BY <2>1, Halves
<1>3. CASE type \in {"int16", "uint16"}
  <2>1. x \in (-Word2)..(Word2 - 1) \/ x \in 0..(2 * Word2 - 1)
    BY <1>3, Ranges
  <2>. QED
    BY <2>1, Halves
<1>4. CASE type \in {"int32", "uint32"}
  <2>1. x \in (-Dword2)..(Dword2 - 1) \/ x \in 0..(2 * Dword2 - 1)
    BY <1>4, Ranges
  <2>. QED
    BY <2>1, Halves
<1>5. CASE type = "float"
  BY <1>5, Ranges
<1>. QED
  BY <1>1, <1>2, <1>3, <1>4, <1>5 DEF PlcDataTypes

\* All but those of uint32 and of floats are 32-bit integers.
LEMMA SmallRanges ==
  ASSUME NEW type \in PlcDataTypes, type \notin {"uint32", "float"}
  PROVE  RangeOf(type) \subseteq RangeOf("int32")
<1>. SUFFICES ASSUME NEW x \in RangeOf(type) PROVE x \in (-Dword2)..(Dword2 - 1)
  BY Ranges
<1>1. CASE type = "bool"
  BY <1>1, Ranges, Halves
<1>2. CASE type \in {"int8", "uint8"}
  <2>1. x \in (-Byte2)..(Byte2 - 1) \/ x \in 0..(2 * Byte2 - 1)
    BY <1>2, Ranges
  <2>. QED
    BY <2>1, Halves
<1>3. CASE type \in {"int16", "uint16"}
  <2>1. x \in (-Word2)..(Word2 - 1) \/ x \in 0..(2 * Word2 - 1)
    BY <1>3, Ranges
  <2>. QED
    BY <2>1, Halves
<1>4. CASE type = "int32"
  BY <1>4, Ranges
<1>. QED
  BY <1>1, <1>2, <1>3, <1>4 DEF PlcDataTypes

\* The values of the elements of each type are those of a data type.
LEMMA ElementRanges ==
  /\ ElementRange("STRING") = Strings
  /\ ElementRange("CHAR") = RangeOf("int8") /\ ElementRange("UCHAR") = RangeOf("uint8")
  /\ ElementRange("SHORT") = RangeOf("int16") /\ ElementRange("USHORT") = RangeOf("uint16")
  /\ ElementRange("ENUM") = RangeOf("uint16")
  /\ ElementRange("LONG") = RangeOf("int32") /\ ElementRange("ULONG") = RangeOf("uint32")
  /\ ElementRange("FLOAT") = RangeOf("float") /\ ElementRange("DOUBLE") = RangeOf("float")
  /\ ElementBits("CHAR") = ByteBits /\ ElementBits("UCHAR") = ByteBits
  /\ ElementBits("SHORT") = ByteBits * 2 /\ ElementBits("USHORT") = ByteBits * 2
  /\ ElementBits("ENUM") = ByteBits * 2
  /\ ElementBits("LONG") = Int32Bits /\ ElementBits("ULONG") = Int32Bits
<1>1. /\ ElementBits("CHAR") = ByteBits /\ ElementBits("UCHAR") = ByteBits
      /\ ElementBits("SHORT") = ByteBits * 2 /\ ElementBits("USHORT") = ByteBits * 2
      /\ ElementBits("ENUM") = ByteBits * 2
      /\ ElementBits("LONG") = Int32Bits /\ ElementBits("ULONG") = Int32Bits
  BY Widths DEF ElementBits
<1>2. /\ ElementRange("CHAR") = (-TwoTo[ByteBits - 1])..(TwoTo[ByteBits - 1] - 1)
      /\ ElementRange("SHORT") = (-TwoTo[ByteBits * 2 - 1])..(TwoTo[ByteBits * 2 - 1] - 1)
      /\ ElementRange("LONG") = (-TwoTo[Int32Bits - 1])..(TwoTo[Int32Bits - 1] - 1)
  BY <1>1 DEF ElementRange
<1>3. /\ ElementRange("UCHAR") = 0..(TwoTo[ByteBits] - 1)
      /\ ElementRange("USHORT") = 0..(TwoTo[ByteBits * 2] - 1)
      /\ ElementRange("ENUM") = 0..(TwoTo[ByteBits * 2] - 1)
      /\ ElementRange("ULONG") = 0..(TwoTo[Int32Bits] - 1)
  BY <1>1 DEF ElementRange
<1>4. /\ ElementRange("STRING") = Strings
      /\ ElementRange("FLOAT") = RangeOf("float") /\ ElementRange("DOUBLE") = RangeOf("float")
  BY DEF ElementRange
<1>. QED
  BY <1>1, <1>2, <1>3, <1>4, Halves, Ranges DEF Byte2, Word2, Dword2, FirstSpecial

\* Assigning a number to an element.
LEMMA Elements ==
  ASSUME NEW ftvl \in ElementTypes \ {"STRING"}, NEW x \in Int,
         ftvl \in {"FLOAT", "DOUBLE"} => x \in RangeOf("float")
  PROVE  /\ ElementOf(ftvl, x) \in ElementRange(ftvl)
         /\ x \in ElementRange(ftvl) => ElementOf(ftvl, x) = x
<1>1. ByteBits \in Nat /\ ByteBits >= 1 /\ ByteBits * 2 \in Nat /\ ByteBits * 2 >= 1
      /\ Int32Bits \in Nat /\ Int32Bits >= 1
  BY Widths
<1>2. CASE ftvl \in {"FLOAT", "DOUBLE"}
  BY <1>2, ElementRanges DEF ElementOf
<1>3. CASE ftvl \in {"CHAR", "SHORT", "LONG"}
  <2>. DEFINE n == ElementBits(ftvl)
  <2>1. n \in Nat /\ n >= 1
    BY <1>1, <1>3, ElementRanges
  <2>2. ElementRange(ftvl) = (-TwoTo[n - 1])..(TwoTo[n - 1] - 1)
    BY <1>3 DEF ElementRange
  <2>3. ElementOf(ftvl, x) = Signed(x, n)
    BY <1>3 DEF ElementOf
  <2>. HIDE DEF n
  <2>. QED
    BY <2>1, <2>2, <2>3, SignedRange
<1>4. CASE ftvl \in {"UCHAR", "USHORT", "ULONG", "ENUM"}
  <2>. DEFINE n == ElementBits(ftvl)
  <2>1. n \in Nat
    BY <1>1, <1>4, ElementRanges
  <2>2. ElementRange(ftvl) = 0..(TwoTo[n] - 1)
    BY <1>4 DEF ElementRange
  <2>3. ElementOf(ftvl, x) = Unsigned(x, n)
    BY <1>4 DEF ElementOf
  <2>. HIDE DEF n
  <2>. QED
    BY <2>1, <2>2, <2>3, UnsignedRange
<1>. QED
  BY <1>2, <1>3, <1>4 DEF ElementTypes

\* The PLC holds whatever is written from an array, but for 32-bit integers in floats, and an
\* element holds whatever an array reads.
LEMMA PlcHoldsElements ==
  ASSUME NEW ftvl \in ElementTypes \ {"STRING"}, NEW dataSize, NEW requested,
         NEW t \in ArrayType(requested, dataSize, ArrayOutRequested(ftvl), ArrayOutDefault(ftvl)),
         t # "bool", ftvl \in {"LONG", "ULONG"} => t # "float",
         NEW x \in ElementRange(ftvl)
  PROVE  x \in RangeOf(t) /\ x \in Int
<1>1. CASE ftvl \in {"FLOAT", "DOUBLE"}
  BY <1>1, ArrayOutTypes, ElementRanges, Ranges
<1>2. CASE ftvl \in {"LONG", "ULONG"}
  BY <1>2, ArrayOutTypes, ElementRanges, Ranges, Halves
<1>3. CASE ftvl \in {"CHAR", "UCHAR", "SHORT", "USHORT", "ENUM"}
  <2>1. x \in (-Word2)..(2 * Word2 - 1) /\ x \in Int
    BY <1>3, ElementRanges, Ranges, Halves, SMTT(30)
  <2>2. x \in RangeOf("float")
    <3>1. x \in (-FirstSpecial + 3)..(FirstSpecial - 1)
      BY <2>1, Halves DEF Dword2
    <3>. QED
      BY <3>1, NumbersAreFloats
  <2>3. x \in RangeOf("int32")
    BY <2>1, Ranges, Halves
  <2>4. CASE t \in {"float", "int32"}
    BY <2>1, <2>2, <2>3, <2>4
  <2>5. CASE t \notin {"float", "int32"}
    <3>1. ftvl = "CHAR" => t \in {"int8", "int16"}
      BY <2>5, ArrayOutTypes
    <3>2. ftvl = "UCHAR" => t \in {"uint8", "int16", "uint16", "uint32"}
      BY <2>5, ArrayOutTypes
    <3>3. ftvl = "SHORT" => t \in {"int16"}
      BY <2>5, ArrayOutTypes
    <3>4. ftvl \in {"USHORT", "ENUM"} => t \in {"uint16", "uint32"}
      BY <2>5, ArrayOutTypes
    <3>. QED
      BY <1>3, <2>1, <3>1, <3>2, <3>3, <3>4, ElementRanges, Ranges, Halves
  <2>. QED
    BY <2>4, <2>5
<1>. QED
  BY <1>1, <1>2, <1>3 DEF ElementTypes

\* An element holds every number that an array may read into it.
LEMMA ElementsHoldPlc ==
  ASSUME NEW ftvl \in ElementTypes \ {"STRING"}, NEW dataSize, NEW requested,
         NEW t \in ArrayType(requested, dataSize, ArrayInRequested(ftvl), ArrayInDefault(ftvl)),
         t \notin {"bool", "float"}, NEW x \in RangeOf(t)
  PROVE  ElementOf(ftvl, x) = x
<1>1. x \in Int
  <2>1. t \in PlcDataTypes
    BY ArrayInTypes
  <2>. QED
    BY <2>1, RangesAreIntegers
<1>2. CASE ftvl \in {"FLOAT", "DOUBLE"}
  BY <1>2 DEF ElementOf
<1>3. CASE ftvl \notin {"FLOAT", "DOUBLE"}
  <2>1. ftvl = "CHAR" => t = "int8"
    BY ArrayInTypes
  <2>2. ftvl = "UCHAR" => t = "uint8"
    BY ArrayInTypes
  <2>3. ftvl = "SHORT" => t \in {"int8", "uint8", "int16"}
    BY ArrayInTypes
  <2>4. ftvl \in {"USHORT", "ENUM"} => t \in {"uint8", "uint16"}
    BY ArrayInTypes
  <2>5. ftvl = "LONG" => t \in {"int8", "uint8", "int16", "uint16", "int32"}
    BY ArrayInTypes
  <2>6. ftvl = "ULONG" => t \in {"uint8", "uint16", "uint32"}
    BY ArrayInTypes
  <2>7. ftvl \in {"CHAR", "UCHAR", "SHORT", "USHORT", "ENUM", "LONG", "ULONG"}
    BY <1>3 DEF ElementTypes
  <2>8. x \in ElementRange(ftvl)
    BY <2>1, <2>2, <2>3, <2>4, <2>5, <2>6, <2>7, ElementRanges, Ranges, Halves
  <2>. QED
    BY <1>1, <1>3, <2>8, Elements
<1>. QED
  BY <1>2, <1>3

------------------------------------------------------------------------------
(***************************************************************************)
(* Buffers.                                                                *)
(***************************************************************************)
\* Products with a natural number keep the order.
LEMMA Products ==
  ASSUME NEW m \in Int, NEW n \in Int, NEW d \in Nat, m <= n
  PROVE  m * d <= n * d /\ m * d \in Int /\ n * d \in Int
<1>1. n - m \in Nat /\ (n - m) * d \in Nat /\ (n - m) * d = n * d - m * d
  OBVIOUS
<1>2. m * d \in Int /\ n * d \in Int
  OBVIOUS
<1>. QED
  BY <1>1, <1>2

\* How many bytes there are for a number of bits, and how many bits of the last one are used.
LEMMA BytesForBits ==
  ASSUME NEW used \in Nat, used >= 1
  PROVE  LET n == (used + ByteBits - 1) \div ByteBits
         IN /\ n \in Nat /\ n >= 1
            /\ used <= n * ByteBits
            /\ \A i \in Nat : i <= n <=> (i - 1) * ByteBits < used
            /\ \A i \in 1..n : i * ByteBits > used =>
                 used % ByteBits = used - (i - 1) * ByteBits /\ used % ByteBits \in 1..(ByteBits - 1)
<1>. DEFINE b == ByteBits
            x == used + b - 1
            n == x \div b
            r == x % b
<1>1. b \in Nat /\ b >= 2
  BY Widths
<1>2. x \in Int
  BY <1>1
<1>. HIDE DEF b, x
<1>3. n \in Int /\ r \in 0..(b - 1) /\ x = n * b + r
  <2>1. b >= 1
    BY <1>1
  <2>. QED
    BY <1>1, <1>2, <2>1, Division
<1>. HIDE DEF n, r
<1>. USE DEF b, x
<1>4. used <= n * b /\ (n - 1) * b < used
  BY <1>1, <1>3
<1>. HIDE DEF b, x
<1>5. n \in Nat /\ n >= 1
  <2>1. SUFFICES ASSUME n <= 0 PROVE FALSE
    BY <1>3
  <2>2. n * b <= 0 * b
    BY <1>1, <1>3, <2>1, Products
  <2>. QED
    BY <1>1, <1>3, <1>4, <2>2
<1>6. ASSUME NEW i \in Nat PROVE i <= n <=> (i - 1) * b < used
  <2>1. CASE i <= n
    <3>1. (i - 1) * b <= (n - 1) * b /\ (i - 1) * b \in Int /\ (n - 1) * b \in Int
      <4>1. i - 1 \in Int /\ n - 1 \in Int /\ i - 1 <= n - 1
        BY <1>3, <2>1
      <4>. QED
        BY <1>1, <4>1, Products
    <3>. QED
      BY <1>4, <2>1, <3>1
  <2>2. CASE i > n
    <3>1. n * b <= (i - 1) * b /\ n * b \in Int /\ (i - 1) * b \in Int
      <4>1. i - 1 \in Int /\ n <= i - 1
        BY <1>3, <2>2
      <4>. QED
        BY <1>1, <1>3, <4>1, Products
    <3>. QED
      BY <1>3, <1>4, <2>2, <3>1
  <2>. QED
    BY <1>3, <2>1, <2>2
<1>7. ASSUME NEW i \in 1..n, i * b > used
      PROVE  used % b = used - (i - 1) * b /\ used % b \in 1..(b - 1)
  <2>. DEFINE j == i - 1
              s == used - j * b
  <2>1. i \in Nat /\ j \in Int /\ i * b = j * b + b /\ j * b \in Int
    BY <1>1, <1>3
  <2>2. j * b < used
    BY <1>6, <2>1
  <2>. HIDE DEF j
  <2>3. s \in 1..(b - 1) /\ used = j * b + s
    BY <1>1, <1>7, <2>1, <2>2
  <2>. HIDE DEF s
  <2>4. s \in 0..(b - 1) /\ b \in Nat /\ b >= 1
    BY <1>1, <2>3
  <2>5. used % b = s
    BY <2>1, <2>3, <2>4, DivisionIsUnique
  <2>. QED
    BY <2>3, <2>5 DEF s, j
<1>. QED
  BY <1>4, <1>5, <1>6, <1>7 DEF n, b, x

\* What bytes are.
LEMMA BytesAre ==
  /\ Bytes = 0..(TwoTo[ByteBits] - 1) /\ TwoTo[ByteBits] \in Nat /\ TwoTo[ByteBits] >= 4
  /\ \A x \in Bytes : x \in Nat
  /\ 0 \in Bytes /\ 1 \in Bytes /\ 2 \in Bytes
<1>1. TwoTo[ByteBits] \in Nat /\ TwoTo[ByteBits] >= 4
  <2>1. 2 \in Nat /\ 2 <= ByteBits /\ ByteBits \in Nat
    BY Widths
  <2>. QED
    BY <2>1, Widths, TwoToGrows, TwoToIsPositive
<1>. QED
  BY <1>1 DEF Bytes

\* Bits of a byte in front of others.
LEMMA PartOfByte ==
  ASSUME NEW x \in Bytes, NEW y \in Bytes, NEW n \in 1..(ByteBits - 1)
  PROVE  LET z == (x \div TwoTo[n]) * TwoTo[n] + Unsigned(y, n)
         IN /\ z \in Bytes /\ Unsigned(z, n) = Unsigned(y, n)
            /\ Unsigned(y, n) \in Bytes /\ Unsigned(Unsigned(y, n), n) = Unsigned(y, n)
            /\ (x \div TwoTo[n]) * TwoTo[n] + Unsigned(x, n) = x
<1>. DEFINE d == TwoTo[n]
            b == TwoTo[ByteBits]
            k == TwoTo[ByteBits - n]
            q == x \div d
            r == y % d
            s == x % d
<1>1. n \in Nat /\ ByteBits \in Nat /\ ByteBits - n \in Nat /\ n + (ByteBits - n) = ByteBits
  BY Widths
<1>2. d \in Nat /\ d >= 1 /\ k \in Nat /\ k >= 1 /\ b = d * k /\ b \in Nat
  <2>1. TwoTo[n + (ByteBits - n)] = TwoTo[n] * TwoTo[ByteBits - n]
    BY <1>1, TwoToSum
  <2>. QED
    BY <1>1, <2>1, TwoToIsPositive
<1>3. x \in 0..(b - 1) /\ y \in 0..(b - 1) /\ x \in Int /\ y \in Int
  BY BytesAre
<1>. HIDE DEF d, b, k
<1>4. q \in Int /\ s \in 0..(d - 1) /\ x = q * d + s /\ r \in 0..(d - 1)
  BY <1>2, <1>3, Division
<1>. HIDE DEF q, r, s
<1>5. q >= 0 /\ q <= k - 1
  <2>1. CASE q < 0
    <3>1. q * d <= (-1) * d
      BY <1>2, <1>4, <2>1, Products
    <3>. QED
      BY <1>2, <1>3, <1>4, <3>1
  <2>2. CASE q >= k
    <3>1. k * d <= q * d /\ k * d = d * k
      BY <1>2, <1>4, <2>2, Products
    <3>. QED
      BY <1>2, <1>3, <1>4, <3>1
  <2>. QED
    BY <1>2, <1>4, <2>1, <2>2
<1>. DEFINE z == q * d + r
<1>6. z \in 0..(b - 1)
  <2>1. q * d <= (k - 1) * d /\ 0 * d <= q * d
    <3>1. 0 \in Int /\ k - 1 \in Int
      BY <1>2
    <3>. QED
      BY <1>2, <1>4, <1>5, <3>1, Products
  <2>2. (k - 1) * d = b - d /\ 0 * d = 0 /\ q * d \in Int
    BY <1>2, <1>4
  <2>. QED
    BY <1>2, <1>4, <2>1, <2>2
<1>7. z % d = r
  BY <1>2, <1>4, DivisionIsUnique
<1>8. r % d = r
  BY <1>2, <1>4, SmallNumber
<1>9. r \in 0..(b - 1)
  <2>1. d <= b
    BY <1>1, TwoToGrows DEF d, b
  <2>. QED
    BY <1>2, <1>4, <2>1
<1>10. /\ z \in Bytes /\ z % d = r /\ r \in Bytes /\ r % d = r /\ q * d + s = x
  BY <1>4, <1>6, <1>7, <1>8, <1>9, BytesAre DEF b
<1>. QED
  BY <1>10, Zenon DEF Unsigned, z, q, r, s, d

\* What is left over from a buffer is what is written of it.
LEMMA Buffers ==
  ASSUME NEW c, NEW used \in Nat, used >= 1, IoBufferSizeInBits(c) = used,
         NEW bytes \in Seq(Bytes), IoBufferSizeInBytes(c) <= Len(bytes)
  PROVE  /\ IoBufferSizeInBytes(c) \in Nat /\ IoBufferSizeInBytes(c) >= 1
         /\ Buffer(c, bytes) \in [1..IoBufferSizeInBytes(c) -> Bytes]
         /\ Written(c, Buffer(c, bytes), bytes) = bytes
         /\ \A buffer \in [1..IoBufferSizeInBytes(c) -> Bytes] :
              Buffer(c, buffer) = buffer =>
                /\ Written(c, buffer, bytes) \in Seq(Bytes)
                /\ Len(Written(c, buffer, bytes)) = Len(bytes)
                /\ Buffer(c, Written(c, buffer, bytes)) = buffer
<1>. DEFINE N == IoBufferSizeInBytes(c)
            B == ByteBits
            L == Len(bytes)
<1>1. N = (used + B - 1) \div B
  BY DEF IoBufferSizeInBytes
<1>2. /\ N \in Nat /\ N >= 1
      /\ \A i \in Nat : i <= N <=> (i - 1) * B < used
      /\ \A i \in 1..N : i * B > used =>
           used % B = used - (i - 1) * B /\ used % B \in 1..(B - 1)
  BY <1>1, BytesForBits
<1>3. L \in Nat /\ bytes \in [1..L -> Bytes] /\ DOMAIN bytes = 1..L /\ N <= L /\ B \in Nat /\ B >= 2
  BY Widths
<1>4. IoBufferSizeInBytes(c) = N
  OBVIOUS
<1>. HIDE DEF N, L, B
\* The three cases for a byte.
<1>5. ASSUME NEW i \in 1..L
      PROVE  LET n == used - (i - 1) * B
             IN \/ n >= B /\ i \in 1..N /\ i * B <= used
                \/ n \in 1..(B - 1) /\ i \in 1..N /\ ~(i * B <= used) /\ used % B = n
                \/ n <= 0 /\ i \notin 1..N
  <2>. DEFINE k == (i - 1) * B
  <2>1. i \in Nat /\ k \in Int /\ i * B = k + B
    BY <1>3
  <2>2. i <= N <=> k < used
    BY <1>2, <2>1
  <2>3. i \in 1..N /\ i * B > used => used % B = used - k /\ used % B \in 1..(B - 1)
    BY <1>2
  <2>. HIDE DEF k
  <2>4. \/ used - k >= B /\ i \in 1..N /\ i * B <= used
        \/ used - k \in 1..(B - 1) /\ i \in 1..N /\ ~(i * B <= used) /\ used % B = used - k
        \/ used - k <= 0 /\ i \notin 1..N
    BY <1>2, <1>3, <2>1, <2>2, <2>3
  <2>. QED
    BY <2>4 DEF k
<1>6. ASSUME NEW s
      PROVE  Buffer(c, s) = [i \in 1..N |-> IF i * B <= used THEN s[i] ELSE Unsigned(s[i], used % B)]
  BY <1>4 DEF Buffer, B
<1>7. ASSUME NEW s
      PROVE  Written(c, s, bytes) =
               [i \in 1..L |->
                  IF used - (i - 1) * B >= B THEN s[i]
                  ELSE IF used - (i - 1) * B <= 0 THEN bytes[i]
                  ELSE (bytes[i] \div TwoTo[used - (i - 1) * B]) * TwoTo[used - (i - 1) * B]
                         + Unsigned(s[i], used - (i - 1) * B)]
  BY <1>3 DEF Written, B
<1>8. \A i \in 1..N : i \in 1..L
  BY <1>2, <1>3
<1>9. ASSUME NEW x \in Bytes, NEW y \in Bytes, NEW n \in 1..(B - 1)
      PROVE  /\ (x \div TwoTo[n]) * TwoTo[n] + Unsigned(y, n) \in Bytes
             /\ Unsigned((x \div TwoTo[n]) * TwoTo[n] + Unsigned(y, n), n) = Unsigned(y, n)
             /\ Unsigned(y, n) \in Bytes /\ Unsigned(Unsigned(y, n), n) = Unsigned(y, n)
             /\ (x \div TwoTo[n]) * TwoTo[n] + Unsigned(x, n) = x
  BY PartOfByte DEF B
<1>10. Buffer(c, bytes) \in [1..N -> Bytes]
  <2>. DEFINE buffer == Buffer(c, bytes)
  <2>1. buffer = [i \in 1..N |-> IF i * B <= used THEN bytes[i] ELSE Unsigned(bytes[i], used % B)]
    BY <1>6
  <2>2. ASSUME NEW i \in 1..N
        PROVE  (IF i * B <= used THEN bytes[i] ELSE Unsigned(bytes[i], used % B)) \in Bytes
    <3>1. bytes[i] \in Bytes /\ i \in 1..L
      BY <1>3, <1>8
    <3>2. CASE i * B <= used
      BY <3>1, <3>2
    <3>3. CASE ~(i * B <= used)
      <4>1. used % B \in 1..(B - 1)
        BY <1>5, <3>1, <3>3
      <4>2. Unsigned(bytes[i], used % B) \in Bytes
        BY <1>9, <3>1, <4>1
      <4>. QED
        BY <3>3, <4>2
    <3>. QED
      BY <3>2, <3>3
  <2>. QED
    BY <2>1, <2>2
<1>11. Written(c, Buffer(c, bytes), bytes) = bytes
  <2>. DEFINE buffer == Buffer(c, bytes)
              w == Written(c, buffer, bytes)
  <2>1. buffer = [i \in 1..N |-> IF i * B <= used THEN bytes[i] ELSE Unsigned(bytes[i], used % B)]
    BY <1>6
  <2>. HIDE DEF buffer
  <2>2. w = [i \in 1..L |->
                  IF used - (i - 1) * B >= B THEN buffer[i]
                  ELSE IF used - (i - 1) * B <= 0 THEN bytes[i]
                  ELSE (bytes[i] \div TwoTo[used - (i - 1) * B]) * TwoTo[used - (i - 1) * B]
                         + Unsigned(buffer[i], used - (i - 1) * B)]
    BY <1>7
  <2>. HIDE DEF w
  <2>3. ASSUME NEW i \in 1..L PROVE w[i] = bytes[i]
    <3>. DEFINE n == used - (i - 1) * B
    <3>1. \/ n >= B /\ i \in 1..N /\ i * B <= used
          \/ n \in 1..(B - 1) /\ i \in 1..N /\ ~(i * B <= used) /\ used % B = n
          \/ n <= 0 /\ i \notin 1..N
      BY <1>5
    <3>2. w[i] = IF n >= B THEN buffer[i] ELSE IF n <= 0 THEN bytes[i]
                 ELSE (bytes[i] \div TwoTo[n]) * TwoTo[n] + Unsigned(buffer[i], n)
      BY <2>2
    <3>3. i \in 1..N => buffer[i] = IF i * B <= used THEN bytes[i] ELSE Unsigned(bytes[i], used % B)
      BY <2>1
    <3>4. bytes[i] \in Bytes
      BY <1>3
    <3>5. n \in Int
      BY <1>3
    <3>. HIDE DEF n
    <3>6. CASE n >= B /\ i \in 1..N /\ i * B <= used
      BY <3>2, <3>3, <3>6
    <3>7. CASE n \in 1..(B - 1) /\ i \in 1..N /\ ~(i * B <= used) /\ used % B = n
      <4>1. ~(n >= B) /\ ~(n <= 0)
        BY <1>3, <3>7
      <4>2. buffer[i] = Unsigned(bytes[i], n)
        BY <3>3, <3>7
      <4>3. w[i] = (bytes[i] \div TwoTo[n]) * TwoTo[n] + Unsigned(Unsigned(bytes[i], n), n)
        BY <3>2, <4>1, <4>2, Zenon
      <4>4. Unsigned(Unsigned(bytes[i], n), n) = Unsigned(bytes[i], n)
            /\ (bytes[i] \div TwoTo[n]) * TwoTo[n] + Unsigned(bytes[i], n) = bytes[i]
        <5>1. n \in 1..(B - 1)
          BY <3>7
        <5>2. \A x \in Bytes :
                /\ Unsigned(Unsigned(x, n), n) = Unsigned(x, n)
                /\ (x \div TwoTo[n]) * TwoTo[n] + Unsigned(x, n) = x
          BY <1>9, <5>1, Zenon
        <5>. QED
          BY <3>4, <5>2, Zenon
      <4>. QED
        BY <4>3, <4>4, Zenon
    <3>8. CASE n <= 0
      BY <1>3, <3>2, <3>5, <3>8
    <3>. QED
      BY <3>1, <3>6, <3>7, <3>8
  <2>4. DOMAIN w = 1..L /\ w = [i \in 1..L |-> w[i]]
    BY <2>2, Zenon
  <2>5. bytes = [i \in 1..L |-> bytes[i]]
    BY <1>3
  <2>6. w = bytes
    BY <1>3, <2>3, <2>4, <2>5
  <2>. QED
    BY <2>6 DEF w, buffer
<1>12. ASSUME NEW buffer \in [1..N -> Bytes], Buffer(c, buffer) = buffer
       PROVE  /\ Written(c, buffer, bytes) \in Seq(Bytes)
              /\ Len(Written(c, buffer, bytes)) = Len(bytes)
              /\ Buffer(c, Written(c, buffer, bytes)) = buffer
  <2>. DEFINE w == Written(c, buffer, bytes)
              v == Buffer(c, w)
  <2>1. w = [i \in 1..L |->
                  IF used - (i - 1) * B >= B THEN buffer[i]
                  ELSE IF used - (i - 1) * B <= 0 THEN bytes[i]
                  ELSE (bytes[i] \div TwoTo[used - (i - 1) * B]) * TwoTo[used - (i - 1) * B]
                         + Unsigned(buffer[i], used - (i - 1) * B)]
    BY <1>7
  <2>2. v = [i \in 1..N |-> IF i * B <= used THEN w[i] ELSE Unsigned(w[i], used % B)]
    BY <1>6
  <2>3. Buffer(c, buffer) = [i \in 1..N |-> IF i * B <= used THEN buffer[i] ELSE Unsigned(buffer[i], used % B)]
    BY <1>6
  <2>. HIDE DEF w, v
  <2>4. ASSUME NEW i \in 1..N
        PROVE  buffer[i] = IF i * B <= used THEN buffer[i] ELSE Unsigned(buffer[i], used % B)
    BY <1>12, <2>3
  <2>5. ASSUME NEW i \in 1..L PROVE w[i] \in Bytes /\ (i \in 1..N => v[i] = buffer[i])
    <3>. DEFINE n == used - (i - 1) * B
    <3>1. \/ n >= B /\ i \in 1..N /\ i * B <= used
          \/ n \in 1..(B - 1) /\ i \in 1..N /\ ~(i * B <= used) /\ used % B = n
          \/ n <= 0 /\ i \notin 1..N
      BY <1>5
    <3>2. w[i] = IF n >= B THEN buffer[i] ELSE IF n <= 0 THEN bytes[i]
                 ELSE (bytes[i] \div TwoTo[n]) * TwoTo[n] + Unsigned(buffer[i], n)
      BY <2>1
    <3>3. i \in 1..N => v[i] = IF i * B <= used THEN w[i] ELSE Unsigned(w[i], used % B)
      BY <2>2
    <3>4. bytes[i] \in Bytes /\ (i \in 1..N => buffer[i] \in Bytes)
      BY <1>3
    <3>5. n \in Int
      BY <1>3
    <3>. HIDE DEF n
    <3>6. CASE n >= B /\ i \in 1..N /\ i * B <= used
      BY <3>2, <3>3, <3>4, <3>6
    <3>7. CASE n \in 1..(B - 1) /\ i \in 1..N /\ ~(i * B <= used) /\ used % B = n
      <4>1. ~(n >= B) /\ ~(n <= 0)
        BY <1>3, <3>7
      <4>2. w[i] = (bytes[i] \div TwoTo[n]) * TwoTo[n] + Unsigned(buffer[i], n)
        BY <3>2, <4>1, Zenon
      <4>3. /\ (bytes[i] \div TwoTo[n]) * TwoTo[n] + Unsigned(buffer[i], n) \in Bytes
            /\ Unsigned((bytes[i] \div TwoTo[n]) * TwoTo[n] + Unsigned(buffer[i], n), n) = Unsigned(buffer[i], n)
        <5>1. bytes[i] \in Bytes /\ buffer[i] \in Bytes /\ n \in 1..(B - 1)
          BY <3>4, <3>7
        <5>. QED
          BY <1>9, <5>1, Zenon
      <4>4. w[i] \in Bytes /\ Unsigned(w[i], n) = Unsigned(buffer[i], n)
        BY <4>2, <4>3, Zenon
      <4>5. v[i] = Unsigned(w[i], n)
        BY <3>3, <3>7, Zenon
      <4>6. buffer[i] = Unsigned(buffer[i], n)
        BY <2>4, <3>7
      <4>. QED
        BY <4>4, <4>5, <4>6, Zenon
    <3>8. CASE n <= 0 /\ i \notin 1..N
      BY <1>3, <3>2, <3>4, <3>5, <3>8
    <3>. QED
      BY <3>1, <3>6, <3>7, <3>8
  <2>6. w \in [1..L -> Bytes]
    BY <2>1, <2>5, Zenon
  <2>7. w \in Seq(Bytes) /\ Len(w) = L
    BY <1>3, <2>6, SequenceOf
  <2>8. \A i \in 1..N : v[i] = buffer[i]
    BY <1>8, <2>5
  <2>9. v = [i \in 1..N |-> v[i]]
    BY <2>2, Zenon
  <2>10. v = buffer
    BY <1>2, <2>8, <2>9
  <2>. QED
    BY <2>7, <2>10 DEF w, v, L
<1>. QED
  BY <1>2, <1>4, <1>10, <1>11, <1>12

------------------------------------------------------------------------------
(***************************************************************************)
(* Strings.                                                                *)
(***************************************************************************)
\* Min is the least element of a set of natural numbers.
LEMMA LeastElement ==
  ASSUME NEW S, S \subseteq Nat, S # {}
  PROVE  Min(S) \in S /\ \A k \in S : Min(S) <= k
<1>1. \E m \in S : \A k \in S : m <= k
  BY LeastNatural
<1>. QED
  BY <1>1 DEF Min

\* A least element is Min.
LEMMA LeastIs ==
  ASSUME NEW S, S \subseteq Nat, NEW m \in S, \A k \in S : m <= k
  PROVE  Min(S) = m
<1>1. Min(S) \in S /\ Min(S) <= m /\ m <= Min(S)
  BY LeastElement
<1>2. m \in Nat /\ Min(S) \in Nat
  BY <1>1
<1>. QED
  BY <1>1, <1>2

\* A string as it is written.
LEMMA StringIsWritten ==
  ASSUME NEW s \in Strings
  PROVE  StringBytes(s) \in [1..MaxStringSize -> Bytes] /\ StringOf(StringBytes(s)) = s
<1>. DEFINE M == MaxStringSize
            n == Len(s)
            b == StringBytes(s)
            ends == {i \in 1..M : b[i] = 0} \union {M}
<1>1. M \in Nat /\ M >= 1
  BY SizeAssumption
<1>2. s \in Seq(Bytes \ {0}) /\ n < M
  BY DEF Strings
<1>3. n \in Nat /\ DOMAIN s = 1..n /\ \A i \in 1..n : s[i] \in Bytes \ {0}
  BY <1>2, LenProperties
<1>4. b = [i \in 1..M |-> IF i <= n /\ i < M THEN s[i] ELSE 0]
  BY DEF StringBytes
<1>5. 0 \in Bytes
  BY BytesAre
<1>6. StringOf(b) = SubSeq(b, 1, Min(ends) - 1)
  BY DEF StringOf
<1>. HIDE DEF M, n, b
<1>7. b \in [1..M -> Bytes]
  BY <1>1, <1>3, <1>4, <1>5
<1>8. \A i \in 1..n : i \in 1..M /\ b[i] = s[i] /\ b[i] # 0
  BY <1>1, <1>2, <1>3, <1>4
<1>9. n + 1 \in 1..M /\ b[n + 1] = 0
  BY <1>1, <1>2, <1>3, <1>4
<1>10. Min(ends) = n + 1
  <2>1. ends \subseteq Nat /\ n + 1 \in ends
    BY <1>1, <1>9
  <2>2. ASSUME NEW k \in ends PROVE n + 1 <= k
    <3>1. k \in 1..M /\ (b[k] = 0 \/ k = M)
      BY <1>1
    <3>. QED
      BY <1>1, <1>2, <1>3, <1>8, <3>1
  <2>. HIDE DEF ends
  <2>. QED
    BY <2>1, <2>2, LeastIs
<1>11. SubSeq(b, 1, n) = s
  <2>1. \A i \in 1..n : b[i] \in Bytes \ {0}
    BY <1>3, <1>8
  <2>2. /\ SubSeq(b, 1, n) \in Seq(Bytes \ {0})
        /\ Len(SubSeq(b, 1, n)) = IF 1 <= n THEN n - 1 + 1 ELSE 0
        /\ \A i \in 1..(n - 1 + 1) : SubSeq(b, 1, n)[i] = b[1 + i - 1]
    BY <1>3, <2>1, SubSeqProperties
  <2>3. Len(SubSeq(b, 1, n)) = n /\ n - 1 + 1 = n /\ \A i \in 1..n : 1 + i - 1 = i
    BY <1>3, <2>2
  <2>4. \A i \in 1..n : SubSeq(b, 1, n)[i] = s[i]
    BY <1>8, <2>2, <2>3
  <2>. DEFINE t == SubSeq(b, 1, n)
  <2>5. t \in Seq(Bytes \ {0}) /\ Len(t) = n /\ \A i \in 1..n : t[i] = s[i]
    BY <2>2, <2>3, <2>4
  <2>. HIDE DEF t
  <2>6. t = s
    BY <1>2, <2>5, SeqEqual DEF n
  <2>. QED
    BY <2>6 DEF t
<1>12. StringOf(b) = s
  <2>1. (n + 1) - 1 = n
    BY <1>3
  <2>. QED
    BY <1>6, <1>10, <1>11, <2>1
<1>. QED
  BY <1>7, <1>12 DEF b, M

\* What is read as a string.
LEMMA StringIsRead ==
  ASSUME NEW bytes \in [1..MaxStringSize -> Bytes]
  PROVE  StringOf(bytes) \in Strings
<1>. DEFINE M == MaxStringSize
            ends == {i \in 1..M : bytes[i] = 0} \union {M}
            m == Min(ends)
            n == m - 1
<1>1. M \in Nat /\ M >= 1
  BY SizeAssumption
<1>2. m \in ends /\ \A k \in ends : m <= k
  <2>1. ends \subseteq Nat /\ M \in ends
    BY <1>1
  <2>. HIDE DEF ends
  <2>. QED
    BY <2>1, LeastElement
<1>3. StringOf(bytes) = SubSeq(bytes, 1, n)
  BY DEF StringOf
<1>4. m \in 1..M
  BY <1>1, <1>2
<1>. HIDE DEF m
<1>5. \A i \in 1..n : bytes[i] \in Bytes \ {0}
  <2>. TAKE i \in 1..n
  <2>1. i \in 1..M /\ ~(m <= i)
    BY <1>1, <1>4
  <2>. QED
    BY <1>2, <2>1
<1>6. n \in Int /\ n < M /\ n >= 0
  BY <1>1, <1>4
<1>. HIDE DEF n
<1>7. /\ SubSeq(bytes, 1, n) \in Seq(Bytes \ {0})
      /\ Len(SubSeq(bytes, 1, n)) = IF 1 <= n THEN n - 1 + 1 ELSE 0
  BY <1>5, <1>6, SubSeqProperties
<1>. QED
  BY <1>1, <1>3, <1>6, <1>7 DEF Strings, M

------------------------------------------------------------------------------
(***************************************************************************)
(* Arrays.                                                                 *)
(***************************************************************************)
\* Part p has the elements of the part i of n of the bytes.
IsPart(p, bytes, i, n, size) ==
  \A j \in 1..size :
    /\ (i - 1) * size + j \in 1..(n * size)
    /\ p[j] = bytes[(i - 1) * size + j]
    /\ (((i - 1) * size + j) - 1) \div size = i - 1
    /\ (((i - 1) * size + j) - 1) % size = j - 1

\* The part of an array where an element is.
LEMMA Parts ==
  ASSUME NEW S, NEW n \in Nat, NEW size \in Nat, size >= 1, NEW i \in 1..n,
         NEW bytes, \A k \in 1..(n * size) : bytes[k] \in S
  PROVE  /\ Part(bytes, i, size) \in [1..size -> S]
         /\ IsPart(Part(bytes, i, size), bytes, i, n, size)
<1>. DEFINE a == (i - 1) * size
            m == a + 1
            l == i * size
            p == Part(bytes, i, size)
<1>1. a \in Nat /\ i * size = a + size /\ i * size <= n * size /\ n * size \in Nat
  <2>1. i \in Int /\ n \in Int /\ i <= n /\ i - 1 \in Int /\ 0 \in Int /\ 0 <= i - 1
    OBVIOUS
  <2>2. i * size <= n * size
    BY <2>1, Products
  <2>3. 0 * size <= (i - 1) * size
    BY <2>1, Products
  <2>. QED
    BY <2>2, <2>3
<1>2. p = SubSeq(bytes, m, l)
  BY DEF Part
<1>3. i - 1 \in Int
  OBVIOUS
<1>. DEFINE q == i - 1
<1>. HIDE DEF p, q
<1>4. a = q * size /\ q \in Int /\ q = i - 1
  BY <1>3 DEF q
<1>. HIDE DEF a
<1>5. \A k \in m..l : bytes[k] \in S
  BY <1>1
<1>6. m \in Int /\ l \in Int /\ l - m + 1 = size /\ m <= l
  BY <1>1
<1>. HIDE DEF m, l
<1>7. /\ SubSeq(bytes, m, l) \in Seq(S)
      /\ Len(SubSeq(bytes, m, l)) = IF m <= l THEN l - m + 1 ELSE 0
      /\ \A j \in 1..(l - m + 1) : SubSeq(bytes, m, l)[j] = bytes[m + j - 1]
  BY <1>5, <1>6, SubSeqProperties
<1>8. p \in Seq(S) /\ Len(p) = size /\ \A j \in 1..size : p[j] = bytes[m + j - 1]
  BY <1>2, <1>6, <1>7
<1>9. p \in [1..size -> S]
  BY <1>8, LenProperties
<1>10. ASSUME NEW j \in 1..size
       PROVE  /\ a + j \in 1..(n * size) /\ p[j] = bytes[a + j]
              /\ ((a + j) - 1) \div size = q /\ ((a + j) - 1) % size = j - 1
  <2>1. a + j \in 1..(n * size) /\ m + j - 1 = a + j
    BY <1>1 DEF m
  <2>2. ((a + j) - 1) \div size = q /\ ((a + j) - 1) % size = j - 1
    <3>. DEFINE x == (a + j) - 1
                r == j - 1
    <3>1. r \in 0..(size - 1) /\ x = q * size + r
      BY <1>1, <1>4
    <3>. HIDE DEF x, r
    <3>2. x \div size = q /\ x % size = r
      BY <1>4, <3>1, DivisionIsUnique, ZenonT(30)
    <3>. QED
      BY <3>2 DEF x, r
  <2>. QED
    BY <1>8, <2>1, <2>2
<1>. QED
  BY <1>9, <1>10, Zenon DEF a, p, q, IsPart

\* The parts of joined parts.
LEMMA JoinedParts ==
  ASSUME NEW n \in Nat, NEW size \in Nat, size >= 1, NEW parts \in [1..n -> [1..size -> Bytes]]
  PROVE  /\ Joined(parts, size) \in [1..(n * size) -> Bytes]
         /\ \A i \in 1..n : Part(Joined(parts, size), i, size) = parts[i]
<1>. DEFINE b == Joined(parts, size)
            l == n * size
<1>1. Len(parts) = n /\ l \in Nat
  BY SequenceOf
<1>2. b = [k \in 1..l |-> parts[(k - 1) \div size + 1][((k - 1) % size) + 1]]
  BY <1>1 DEF Joined
<1>. HIDE DEF b
<1>3. ASSUME NEW k \in 1..l PROVE parts[(k - 1) \div size + 1][((k - 1) % size) + 1] \in Bytes
  <2>. DEFINE x == k - 1
              q == x \div size
              r == x % size
  <2>1. x \in 0..(l - 1) /\ x \in Int
    BY <1>1
  <2>. HIDE DEF x
  <2>2. q \in Int /\ r \in 0..(size - 1) /\ x = q * size + r
    BY <2>1, Division
  <2>. HIDE DEF q, r
  <2>3. q >= 0 /\ q < n
    <3>1. CASE q < 0
      <4>1. q * size <= (-1) * size
        BY <2>2, <3>1, Products
      <4>. QED
        BY <2>1, <2>2, <4>1
    <3>2. CASE q >= n
      <4>1. n * size <= q * size /\ n * size \in Int /\ q * size \in Int
        BY <2>2, <3>2, Products
      <4>2. l <= x
        BY <1>1, <2>2, <4>1
      <4>. HIDE DEF l
      <4>. QED
        BY <1>1, <2>1, <4>2
    <3>. QED
      BY <2>2, <3>1, <3>2
  <2>4. q + 1 \in 1..n /\ r + 1 \in 1..size
    BY <2>2, <2>3
  <2>5. parts[q + 1][r + 1] \in Bytes
    BY <2>4
  <2>. QED
    BY <2>5, Zenon DEF q, r, x
<1>4. b \in [1..l -> Bytes]
  BY <1>2, <1>3, Zenon
<1>5. ASSUME NEW i \in 1..n PROVE Part(b, i, size) = parts[i]
  <2>. DEFINE p == Part(b, i, size)
  <2>1. \A k \in 1..l : b[k] \in Bytes
    BY <1>4
  <2>2. /\ p \in [1..size -> Bytes]
        /\ IsPart(p, b, i, n, size)
    BY <2>1, Parts
  <2>. HIDE DEF p
  <2>3. ASSUME NEW j \in 1..size PROVE p[j] = parts[i][j]
    <3>. DEFINE k == (i - 1) * size + j
    <3>1. k \in 1..l /\ p[j] = b[k] /\ (k - 1) \div size = i - 1 /\ (k - 1) % size = j - 1
      BY <2>2, Zenon DEF IsPart
    <3>. HIDE DEF k
    <3>2. b[k] = parts[(k - 1) \div size + 1][((k - 1) % size) + 1]
      BY <1>2, <3>1, Zenon
    <3>3. b[k] = parts[(i - 1) + 1][(j - 1) + 1]
      BY <3>1, <3>2, Zenon
    <3>4. (i - 1) + 1 = i /\ (j - 1) + 1 = j
      OBVIOUS
    <3>. QED
      BY <3>1, <3>3, <3>4, Zenon
  <2>4. parts[i] \in [1..size -> Bytes]
    OBVIOUS
  <2>5. p = parts[i]
    BY <2>2, <2>3, <2>4
  <2>. QED
    BY <2>5 DEF p
<1>. QED
  BY <1>4, <1>5 DEF b

\* A set of low bits is a small number.
LEMMA SmallSet ==
  ASSUME NEW n \in 0..Int32Bits, NEW S, S \subseteq 0..(n - 1)
  PROVE  NumberOf(S) \in 0..(TwoTo[n] - 1)
<1>. DEFINE x == NumberOf(S)
            r == x % TwoTo[n]
<1>1. n \in Nat /\ Int32Bits \in Nat /\ n <= Int32Bits /\ TwoTo[Int32Bits] \in Nat
  BY Widths, TwoToIsPositive
<1>2. x \in 0..(TwoTo[Int32Bits] - 1) /\ BitsIn(x) = S \intersect (0..(Int32Bits - 1))
  BY BitsOfNumber
<1>3. BitsIn(x) = S
  <2>1. \A k \in S : k \in 0..(Int32Bits - 1)
    BY <1>1
  <2>. QED
    BY <1>2, <2>1
<1>. HIDE DEF x
<1>4. x \in Int
  BY <1>1, <1>2
<1>5. /\ BitsIn(r) = BitsIn(x) \intersect (0..(n - 1)) /\ r \in 0..(TwoTo[n] - 1)
      /\ r \in 0..(TwoTo[Int32Bits] - 1)
  BY <1>4, BitsOfRemainder
<1>. HIDE DEF r
<1>6. BitsIn(r) = BitsIn(x)
  BY <1>3, <1>5
<1>7. r = x
  BY <1>2, <1>5, <1>6, SameBits
<1>. QED
  BY <1>5, <1>7 DEF x

\* The bits of an array, packed.
LEMMA PackedBits ==
  ASSUME NEW n \in Nat, n >= 1, NEW bits \in Seq(Int), Len(bits) = n
  PROVE  LET size == (n + ByteBits - 1) \div ByteBits
             b == PackBits(bits)
         IN /\ b \in [1..size -> Bytes]
            /\ \A i \in 1..size : i * ByteBits > n => Unsigned(b[i], n % ByteBits) = b[i]
            /\ \A i \in 1..n : UnpackBits(b, n)[i] = IF bits[i] # 0 THEN 1 ELSE 0
<1>. DEFINE B == ByteBits
            size == (n + B - 1) \div B
            b == PackBits(bits)
            S(i) == {j \in 0..(B - 1) : (i - 1) * B + j + 1 <= n /\ bits[(i - 1) * B + j + 1] # 0}
<1>1. /\ size \in Nat /\ size >= 1
      /\ \A i \in Nat : i <= size <=> (i - 1) * B < n
      /\ \A i \in 1..size : i * B > n => n % B = n - (i - 1) * B /\ n % B \in 1..(B - 1)
  BY BytesForBits
<1>2. B \in Nat /\ B >= 2 /\ Int32Bits = B * 4 /\ TwoTo[0] = 1
  BY Widths, TwoToStep
<1>3. b = [i \in 1..size |-> NumberOf(S(i))]
  BY DEF PackBits
<1>4. ASSUME NEW i \in 1..size PROVE b[i] = NumberOf(S(i)) /\ b[i] \in Bytes /\ BitsIn(b[i]) = S(i)
  <2>1. b[i] = NumberOf(S(i))
    BY <1>3
  <2>2. S(i) \subseteq 0..(B - 1)
    OBVIOUS
  <2>. DEFINE T == S(i)
  <2>. HIDE DEF S, b, B
  <2>3. T \subseteq 0..(B - 1) /\ B \in 0..Int32Bits
    BY <1>2, <2>2
  <2>4. T \intersect (0..(Int32Bits - 1)) = T
    BY <1>2, <2>3
  <2>. HIDE DEF T
  <2>5. NumberOf(T) \in 0..(TwoTo[B] - 1) /\ BitsIn(NumberOf(T)) = T
    BY <2>3, <2>4, SmallSet, BitsOfNumber
  <2>. QED
    BY <2>1, <2>5 DEF T, Bytes, B
<1>5. b \in [1..size -> Bytes]
  BY <1>3, <1>4
<1>. HIDE DEF b, size
<1>6. ASSUME NEW i \in 1..size, i * B > n PROVE Unsigned(b[i], n % B) = b[i]
  <2>1. n % B = n - (i - 1) * B /\ n % B \in 1..(B - 1)
    BY <1>1, <1>6
  <2>. DEFINE k == (i - 1) * B
              r == n % B
  <2>2. r \in 0..Int32Bits /\ k \in Int /\ r = n - k
    BY <1>2, <2>1
  <2>3. \A j \in S(i) : j \in 0..(B - 1) /\ k + j + 1 <= n
    OBVIOUS
  <2>. HIDE DEF S, B, k, r
  <2>4. S(i) \subseteq 0..(r - 1)
    BY <1>2, <2>2, <2>3
  <2>5. NumberOf(S(i)) \in 0..(TwoTo[r] - 1)
    BY <2>2, <2>4, SmallSet
  <2>6. b[i] \in 0..(TwoTo[r] - 1) /\ b[i] \in Int /\ r \in Nat
    <3>1. b[i] = NumberOf(S(i)) /\ b[i] \in Nat /\ Int32Bits \in Nat
      BY <1>4, BytesAre, Widths
    <3>. QED
      BY <2>2, <2>5, <3>1
  <2>7. Unsigned(b[i], r) = b[i]
    BY <2>6, UnsignedRange
  <2>. QED
    BY <2>7 DEF r
<1>7. ASSUME NEW i \in 1..n PROVE UnpackBits(b, n)[i] = IF bits[i] # 0 THEN 1 ELSE 0
  <2>. DEFINE x == i - 1
              q == x \div B
              r == x % B
              byte == b[q + 1]
              bit == (byte \div TwoTo[r]) % 2
  <2>1. UnpackBits(b, n)[i] = bit
    BY DEF UnpackBits
  <2>2. x \in Nat /\ x < n
    OBVIOUS
  <2>. HIDE DEF x, B
  <2>3. q \in Int /\ r \in 0..(B - 1) /\ x = q * B + r
    <3>1. x \in Int /\ B >= 1
      BY <1>2, <2>2
    <3>. QED
      BY <1>2, <3>1, Division
  <2>. HIDE DEF q, r
  <2>4. q >= 0
    <3>1. CASE q < 0
      <4>1. q * B <= (-1) * B
        BY <1>2, <2>3, <3>1, Products
      <4>. QED
        BY <1>2, <2>2, <2>3, <4>1
    <3>. QED
      BY <2>3, <3>1
  <2>5. q + 1 \in 1..size
    <3>1. q + 1 \in Nat /\ (q + 1) - 1 = q /\ q * B < n
      BY <1>2, <2>2, <2>3, <2>4
    <3>2. q + 1 <= size
      BY <1>1, <3>1
    <3>. QED
      BY <2>4, <3>1, <3>2, <1>1
  <2>6. BitsIn(byte) = S(q + 1) /\ byte \in Bytes
    BY <1>4, <2>5
  <2>7. r \in S(q + 1) <=> bits[i] # 0
    <3>1. ((q + 1) - 1) * B + r + 1 = i /\ i <= n
      <4>1. (q + 1) - 1 = q /\ x = i - 1 /\ i \in Int
        BY <2>3 DEF x
      <4>2. ((q + 1) - 1) * B = q * B /\ q * B \in Int
        BY <1>2, <2>3, <4>1
      <4>. QED
        BY <2>3, <4>1, <4>2
    <3>. QED
      BY <2>3, <3>1
  <2>. HIDE DEF byte, S
  <2>8. r \in 0..(Int32Bits - 1) /\ r \in Nat
    BY <1>2, <2>3
  <2>9. r \in BitsIn(byte) <=> bit = 1
    BY <2>8 DEF BitsIn
  <2>10. bit \in 0..1
    <3>1. TwoTo[r] \in Nat /\ TwoTo[r] >= 1 /\ byte \in Int
      BY <2>6, <2>8, BytesAre, TwoToIsPositive
    <3>2. byte \div TwoTo[r] \in Int
      BY <3>1, Division
    <3>. DEFINE y == byte \div TwoTo[r]
    <3>3. y \in Int
      BY <3>2
    <3>. HIDE DEF y
    <3>4. y % 2 \in 0..1
      BY <3>3
    <3>. QED
      BY <3>4 DEF y
  <2>. HIDE DEF bit
  <2>. QED
    BY <2>1, <2>6, <2>7, <2>9, <2>10
<1>. QED
  BY <1>5, <1>6, <1>7 DEF b, size

------------------------------------------------------------------------------
(***************************************************************************)
(* Records.                                                                *)
(***************************************************************************)
\* The kinds of records, and those with one number.
Six == {"analog", "long", "binary", "multiBinary", "string", "array"}
Numeric == {"analog", "long", "binary", "multiBinary"}

\* The data type of an active configuration.
LEMMA ActiveType ==
  ASSUME NEW c, IsActive(c)
  PROVE  /\ Type(c) \in PlcDataTypes /\ SizeOfType(Type(c)) = c.dataSize
         /\ Support(c) \in Six
         /\ Support(c) = "analog" => c.recordType = "ao" /\ Type(c) # "uint32"
         /\ Support(c) = "long" => c.recordType = "longout" /\ Type(c) \notin {"uint32", "float"}
         /\ Support(c) = "binary" => c.recordType = "bo"
         /\ Support(c) = "multiBinary" =>
              c.recordType \in {"mbbo", "mbboDirect"} /\ Type(c) \notin {"bool", "float"}
         /\ Support(c) = "string" => c.recordType = "stringout" /\ Type(c) \in {"bool", "int8", "uint8"}
         /\ Support(c) = "array" =>
              /\ c.recordType \in {"aao", "waveformOut"}
              /\ Type(c) \in ArrayType(c.requested, c.dataSize, ArrayOutRequested(c.ftvl), ArrayOutDefault(c.ftvl))
<1>1. Type(c) \in TypesOf(c)
  BY DEF IsActive, Type
<1>2. /\ Type(c) \in GetPlcDataType(c.recordType, c.ftvl, c.dataSize, c.requested)
      /\ SizeOfType(Type(c)) = c.dataSize
  BY <1>1 DEF TypesOf
<1>3. /\ c.recordType \in OutputTypes /\ c.ftvl \in ElementTypes /\ c.dataSize \in DataSizes
      /\ c.requested \in SUBSET PlcDataTypes
  BY Fields DEF IsActive
<1>. DEFINE t == Type(c)
            s == ClassOf[c.recordType].support
<1>. HIDE DEF t, s
<1>4. s = Support(c) /\ s \in Six /\ ~ClassOf[c.recordType].input
      /\ (s = "analog" => c.recordType = "ao")
      /\ (s = "long" => c.recordType = "longout")
      /\ (s = "binary" => c.recordType = "bo")
      /\ (s = "multiBinary" => c.recordType \in {"mbbo", "mbboDirect"})
      /\ (s = "string" => c.recordType = "stringout")
      /\ (s = "array" => c.recordType \in {"aao", "waveformOut"})
  BY <1>3, Kinds DEF Support, Six, s
<1>5. /\ s \in {"analog", "long", "binary", "multiBinary", "string"} => t \in PlcDataTypes
      /\ s = "analog" => t # "uint32"
      /\ s = "long" => t \notin {"uint32", "float"}
      /\ s = "multiBinary" => t \notin {"bool", "float"}
      /\ s = "string" => t \in {"bool", "int8", "uint8"}
      /\ s = "array" /\ ~ClassOf[c.recordType].input =>
           t \in ArrayType(c.requested, c.dataSize, ArrayOutRequested(c.ftvl), ArrayOutDefault(c.ftvl))
  <2>1. t \in GetPlcDataType(c.recordType, c.ftvl, c.dataSize, c.requested)
    BY <1>2 DEF t
  <2>2. ClassOf[c.recordType].support = s
    BY DEF s
  <2>. QED
    BY <1>3, <2>1, <2>2, TypesOfKinds
<1>6. s = "array" => t \in PlcDataTypes
  BY <1>3, <1>4, <1>5, ArrayOutTypes
<1>. QED
  BY <1>2, <1>4, <1>5, <1>6 DEF t, Six

\* The record that reads has the data type of the record that writes.
LEMMA PartnerFields ==
  ASSUME NEW c, IsActive(c)
  PROVE  LET p == Partner(c)
         IN /\ p.recordType = InputFor[c.recordType]
            /\ p.ftvl = c.ftvl /\ p.dataSize = c.dataSize /\ p.nelm = c.nelm /\ p.linear = c.linear
            /\ p.egul = c.egul /\ p.eguf = c.eguf /\ p.limits = c.limits
            /\ p.eslo = c.eslo /\ p.eoff = c.eoff /\ p.states = c.states /\ p.nobt = c.nobt
            /\ p.shft = c.shft
            /\ Support(p) = Support(c)
            /\ Support(c) = "analog" => p.recordType = "ai"
            /\ Support(c) \in {"long", "binary", "string", "array"} =>
                 p.recordType \in {"longin", "bi", "stringin", "aai", "waveformIn"}
            /\ c.recordType = "mbbo" => p.recordType = "mbbi"
            /\ c.recordType = "mbboDirect" => p.recordType = "mbbiDirect"
            /\ HasPartner(c) => Type(p) = Type(c)
<1>. DEFINE p == Partner(c)
<1>1. c \in Configurations
  BY DEF IsActive, IsConfiguration
<1>2. /\ p.recordType = InputFor[c.recordType]
      /\ p.ftvl = c.ftvl /\ p.dataSize = c.dataSize /\ p.nelm = c.nelm /\ p.linear = c.linear
      /\ p.egul = c.egul /\ p.eguf = c.eguf /\ p.limits = c.limits
      /\ p.eslo = c.eslo /\ p.eoff = c.eoff /\ p.states = c.states /\ p.nobt = c.nobt
      /\ p.shft = c.shft /\ p.requested = {Type(c)}
  BY <1>1 DEF Partner, Configurations
<1>3. Type(c) \in PlcDataTypes /\ c.ftvl \in ElementTypes /\ c.dataSize \in DataSizes
      /\ c.recordType \in OutputTypes /\ SizeOfType(Type(c)) = c.dataSize
  BY ActiveType, Fields DEF IsActive
<1>4. /\ c.recordType = "aao" => InputFor[c.recordType] = "aai"
      /\ c.recordType = "ao" => InputFor[c.recordType] = "ai"
      /\ c.recordType = "bo" => InputFor[c.recordType] = "bi"
      /\ c.recordType = "longout" => InputFor[c.recordType] = "longin"
      /\ c.recordType = "mbbo" => InputFor[c.recordType] = "mbbi"
      /\ c.recordType = "mbboDirect" => InputFor[c.recordType] = "mbbiDirect"
      /\ c.recordType = "stringout" => InputFor[c.recordType] = "stringin"
      /\ c.recordType = "waveformOut" => InputFor[c.recordType] = "waveformIn"
  BY DEF InputFor
<1>5. c.recordType \in {"aao", "ao", "bo", "longout", "mbbo", "mbboDirect", "stringout", "waveformOut"}
  BY <1>3, Kinds
<1>. HIDE DEF p
<1>6. Support(p) = ClassOf[p.recordType].support /\ Support(c) = ClassOf[c.recordType].support
  BY DEF Support
<1>7. /\ Support(p) = Support(c) /\ Support(c) \in Six
      /\ Support(c) = "analog" => p.recordType = "ai"
      /\ Support(c) \in {"long", "binary", "string", "array"} =>
           p.recordType \in {"longin", "bi", "stringin", "aai", "waveformIn"}
  BY <1>2, <1>4, <1>5, <1>6, Kinds DEF Six
<1>8. ASSUME HasPartner(c) PROVE Type(p) = Type(c)
  <2>1. Type(p) \in TypesOf(p)
    BY <1>8 DEF HasPartner, p, Type
  <2>2. Type(p) \in GetPlcDataType(p.recordType, c.ftvl, c.dataSize, {Type(c)})
    BY <1>2, <2>1 DEF TypesOf
  <2>3. {Type(c)} \in SUBSET PlcDataTypes /\ {Type(c)} # {}
    BY <1>3
  <2>4. Type(p) \in {Type(c)}
    BY <1>3, <1>6, <1>7, <2>2, <2>3, TypesOfKinds DEF Six
  <2>. QED
    BY <2>4
<1>. QED
  BY <1>2, <1>4, <1>7, <1>8 DEF p

\* Whole bytes.
LEMMA WholeBytes ==
  ASSUME NEW c, NEW n \in Nat, n >= 1, IoBufferSizeInBits(c) = n * ByteBits
  PROVE  /\ n * ByteBits \in Nat /\ n * ByteBits >= 1
         /\ IoBufferSizeInBytes(c) = n
         /\ \A buffer \in [1..n -> Bytes] : Buffer(c, buffer) = buffer
<1>. DEFINE B == ByteBits
            m == n * B
<1>1. B \in Nat /\ B >= 2
  BY Widths
<1>2. m \in Nat /\ m >= 1
  <2>1. 1 * B <= n * B
    BY <1>1, Products
  <2>. QED
    BY <1>1, <2>1
<1>3. IoBufferSizeInBytes(c) = n
  <2>. DEFINE r == B - 1
              x == (m + B) - 1
  <2>1. r \in 0..(B - 1) /\ x = n * B + r /\ x = m + B - 1
    BY <1>1
  <2>. HIDE DEF x, r, B
  <2>2. x \div B = n
    BY <1>1, <2>1, DivisionIsUnique
  <2>. QED
    BY <2>1, <2>2 DEF IoBufferSizeInBytes, B
<1>4. ASSUME NEW buffer \in [1..n -> Bytes] PROVE Buffer(c, buffer) = buffer
  <2>1. ASSUME NEW i \in 1..n PROVE i * B <= m
    BY <1>1, Products
  <2>2. Buffer(c, buffer)
          = [i \in 1..n |-> IF i * B <= m THEN buffer[i] ELSE Unsigned(buffer[i], m % B)]
    BY <1>3 DEF Buffer
  <2>. HIDE DEF m
  <2>3. [i \in 1..n |-> IF i * B <= m THEN buffer[i] ELSE Unsigned(buffer[i], m % B)]
          = [i \in 1..n |-> buffer[i]]
    BY <2>1
  <2>. QED
    BY <2>2, <2>3
<1>. QED
  BY <1>2, <1>3, <1>4

\* The sizes of the buffers.
LEMMA Sizes ==
  ASSUME NEW c, IsActive(c)
  PROVE  /\ IoBufferSizeInBits(c) \in Nat /\ IoBufferSizeInBits(c) >= 1
         /\ Support(c) \in Numeric => IoBufferSizeInBits(c) = BitsOf(c.dataSize)
         /\ Support(c) \in Numeric => IoBufferSizeInBytes(c) = BytesOf(c.dataSize)
         /\ Support(c) \in Numeric /\ Type(c) # "bool" =>
              IoBufferSizeInBits(c) = BytesOf(c.dataSize) * ByteBits
         /\ Support(c) = "string" /\ Type(c) = "bool" => IoBufferSizeInBits(c) = 1 * ByteBits
         /\ Support(c) = "string" /\ Type(c) # "bool" => IoBufferSizeInBits(c) = MaxStringSize * ByteBits
         /\ Support(c) = "array" /\ c.ftvl = "STRING" =>
              IoBufferSizeInBits(c) = (c.nelm * MaxStringSize) * ByteBits
         /\ Support(c) = "array" /\ c.ftvl # "STRING" /\ Type(c) = "bool" => IoBufferSizeInBits(c) = c.nelm
         /\ Support(c) = "array" /\ c.ftvl # "STRING" /\ Type(c) # "bool" =>
              IoBufferSizeInBits(c) = (c.nelm * BytesOf(c.dataSize)) * ByteBits
<1>. DEFINE T == Type(c)
            size == BytesOf(c.dataSize)
            bits == BitsOf(c.dataSize)
            used == IoBufferSizeInBits(c)
            n == c.nelm
            M == MaxStringSize
            B == ByteBits
<1>1. B \in Nat /\ B >= 2 /\ n \in Nat /\ n >= 1 /\ M \in Nat /\ M >= 1 /\ c.ftvl \in ElementTypes
  BY Widths, Fields, SizeAssumption DEF IsActive
<1>2. T \in PlcDataTypes /\ SizeOfType(T) = c.dataSize /\ Support(c) \in Six
  BY ActiveType
<1>3. /\ size \in {1, 2, 4} /\ (T = "bool" => bits = 1 /\ size = 1) /\ (T # "bool" => bits = B * size)
  BY <1>2, TypeSizes DEF Bits
<1>4. /\ Support(c) \in Numeric => used = bits
      /\ Support(c) = "string" => used = IF T = "bool" THEN B ELSE M * B
      /\ Support(c) = "array" => used = (IF c.ftvl = "STRING" THEN M ELSE 1) * n * bits
  BY DEF IoBufferSizeInBits, Numeric, StringBufferBits, ArrayBufferBits
<1>5. Support(c) = "array" /\ c.ftvl = "STRING" => T # "bool" /\ size = 1
  <2>. SUFFICES ASSUME Support(c) = "array", c.ftvl = "STRING" PROVE T # "bool" /\ size = 1
    OBVIOUS
  <2>1. T \in {"int8", "uint8"}
    BY <1>1, ActiveType, ArrayOutTypes
  <2>2. c.dataSize = "byte"
    BY <1>2, <2>1 DEF SizeOfType
  <2>. QED
    BY <2>1, <2>2, Widths
<1>. HIDE DEF T, size, bits, used, n, M, B
<1>6. /\ Support(c) \in Numeric /\ T = "bool" => used = 1
      /\ Support(c) \in Numeric /\ T # "bool" => used = size * B
      /\ Support(c) = "string" /\ T = "bool" => used = 1 * B
      /\ Support(c) = "string" /\ T # "bool" => used = M * B
      /\ Support(c) = "array" /\ c.ftvl = "STRING" => used = (n * M) * B
      /\ Support(c) = "array" /\ c.ftvl # "STRING" /\ T = "bool" => used = n
      /\ Support(c) = "array" /\ c.ftvl # "STRING" /\ T # "bool" => used = (n * size) * B
  <2>1. B * size = size * B /\ 1 * B = B /\ 1 * n = n /\ size \in Nat /\ n * 1 = n
    BY <1>1, <1>3
  <2>2. M * n * (B * 1) = (n * M) * B
    BY <1>1
  <2>3. n * (B * size) = (n * size) * B
    BY <1>1, <2>1
  <2>. QED
    BY <1>3, <1>4, <1>5, <2>1, <2>2, <2>3
<1>7. n * M \in Nat /\ n * M >= 1 /\ n * size \in Nat /\ n * size >= 1
  BY <1>1, <1>3
<1>8. \A k \in Nat : k >= 1 => k * B \in Nat /\ k * B >= 1
  <2>. TAKE k \in Nat
  <2>. HAVE k >= 1
  <2>1. 1 * B <= k * B
    BY <1>1, Products
  <2>. QED
    BY <1>1, <2>1
<1>9. used \in Nat /\ used >= 1
  BY <1>1, <1>2, <1>3, <1>6, <1>7, <1>8 DEF Six, Numeric
<1>10. Support(c) \in Numeric => IoBufferSizeInBytes(c) = size
  <2>. SUFFICES ASSUME Support(c) \in Numeric PROVE IoBufferSizeInBytes(c) = size
    OBVIOUS
  <2>1. CASE T = "bool"
    <3>1. used = 1 /\ size = 1
      BY <1>3, <1>6, <2>1
    <3>2. 1 + B - 1 = B
      BY <1>1
    <3>3. B \div B = 1
      <4>1. 1 \in Int /\ 0 \in 0..(B - 1) /\ B = 1 * B + 0 /\ B >= 1
        BY <1>1
      <4>. QED
        BY <1>1, <4>1, DivisionIsUnique
    <3>. QED
      BY <3>1, <3>2, <3>3 DEF IoBufferSizeInBytes, used, B
  <2>2. CASE T # "bool"
    <3>1. IoBufferSizeInBits(c) = size * ByteBits /\ size \in Nat /\ size >= 1
      BY <1>3, <1>6, <2>2 DEF used, B
    <3>. QED
      BY <3>1, WholeBytes
  <2>. QED
    BY <2>1, <2>2
<1>. QED
  BY <1>4, <1>6, <1>9, <1>10 DEF T, size, bits, used, n, M, B

------------------------------------------------------------------------------
(***************************************************************************)
(* Analog records.                                                         *)
(***************************************************************************)
\* The limits, the slope, and the value at the raw value 0.
LEMMA Slope ==
  ASSUME NEW c, IsActive(c), Type(c) \notin {"float", "uint32"}
  PROVE  LET low == DeviceLimits(c).low
             high == DeviceLimits(c).high
             least == TypeLimits(c).low
             greatest == TypeLimits(c).high
             k == ConversionOf(c)
         IN /\ least \in Int /\ greatest \in Int /\ greatest - least >= 1
            /\ RangeOf(Type(c)) = least..greatest /\ least..greatest \subseteq RangeOf("int32")
            /\ low \in Int /\ high \in Int
            /\ k.eslo \in Nat /\ k.eslo >= 1 /\ k.eoff \in Int
            /\ c.linear /\ low # high =>
                 k.eslo = (c.eguf - c.egul) \div (high - low) /\ k.eoff = c.egul - low * k.eslo
            /\ c.linear /\ low = high => k.eslo = c.eslo /\ k.eoff = c.eoff
            /\ ~c.linear => k.eslo = 1 /\ k.eoff = 0
<1>. DEFINE low == DeviceLimits(c).low
            high == DeviceLimits(c).high
            least == TypeLimits(c).low
            greatest == TypeLimits(c).high
            T == Type(c)
            k == ConversionOf(c)
<1>1. T \in PlcDataTypes /\ SizeOfType(T) = c.dataSize /\ c.linear \in BOOLEAN
      /\ c.egul \in Int /\ c.eguf \in Int /\ c.limits \subseteq [low: Int, high: Int]
      /\ c.eslo \in Int /\ c.eoff \in Int
  BY ActiveType, Fields DEF IsActive
<1>2. BitsOf(c.dataSize) = Bits(T)
  BY <1>1 DEF Bits
<1>3. /\ T \in SignedTypes => least = -TwoTo[Bits(T) - 1] /\ greatest = TwoTo[Bits(T) - 1] - 1
      /\ T \notin SignedTypes => least = 0 /\ greatest = TwoTo[Bits(T)] - 1
  BY <1>2 DEF TypeLimits
<1>4. /\ TwoTo[Bits(T)] \in Nat /\ TwoTo[Bits(T) - 1] \in Nat /\ TwoTo[Bits(T) - 1] >= 1
      /\ TwoTo[Bits(T)] = 2 * TwoTo[Bits(T) - 1]
  <2>1. Bits(T) \in Nat /\ Bits(T) - 1 \in Nat /\ (Bits(T) - 1) + 1 = Bits(T)
    BY <1>1, TypeSizes, Widths
  <2>. QED
    BY <2>1, TwoToIsPositive, TwoToStep
<1>5. least \in Int /\ greatest \in Int /\ greatest - least >= 1
  BY <1>3, <1>4
<1>6. RangeOf(T) = least..greatest
  <2>1. CASE T = "bool"
    <3>1. T \notin SignedTypes /\ Bits(T) = 1 /\ TwoTo[1] = 2
      BY <1>1, <2>1, TypeSizes, Widths DEF SignedTypes
    <3>2. least = 0 /\ greatest = 1
      BY <1>3, <3>1
    <3>. QED
      BY <2>1, <3>2, RangesOfTypes
  <2>2. CASE T \in SignedTypes
    BY <1>3, <2>2, RangesOfTypes
  <2>3. CASE T # "bool" /\ T \notin SignedTypes
    <3>1. T \in PlcDataTypes \ (SignedTypes \union {"bool", "float"})
      BY <1>1, <2>3
    <3>. QED
      BY <1>3, <2>3, <3>1, RangesOfTypes
  <2>. QED
    BY <2>1, <2>2, <2>3
<1>7. RangeOf(T) \subseteq RangeOf("int32")
  <2>1. T \in PlcDataTypes /\ T \notin {"uint32", "float"}
    BY <1>1
  <2>. QED
    BY <2>1, SmallRanges
<1>11. low \in Int /\ high \in Int
  <2>1. CASE c.limits = {}
    BY <1>5, <2>1 DEF DeviceLimits
  <2>2. CASE c.limits # {}
    <3>1. DeviceLimits(c) \in c.limits
      BY <2>2 DEF DeviceLimits
    <3>2. DeviceLimits(c) \in [low: Int, high: Int]
      BY <1>1, <3>1
    <3>. QED
      BY <3>2
  <2>. QED
    BY <2>1, <2>2
<1>8. /\ ~c.linear => k.eslo = 1 /\ k.eoff = 0
      /\ c.linear /\ low = high => k.eslo = c.eslo /\ k.eoff = c.eoff
      /\ c.linear /\ low # high => /\ k.eslo = (c.eguf - c.egul) \div (high - low)
                                   /\ k.eoff = (high * c.egul - low * c.eguf) \div (high - low)
  BY DEF ConversionOf, Conversion
<1>12. /\ c.linear /\ low = high => c.eslo > 0
       /\ c.linear /\ low # high =>
            low < high /\ c.egul < c.eguf /\ (c.eguf - c.egul) % (high - low) = 0
  BY DEF IsActive, IsConfiguration
<1>. HIDE DEF low, high, least, greatest, k
<1>9. ASSUME c.linear, low # high
      PROVE  /\ k.eslo \in Nat /\ k.eslo >= 1 /\ k.eslo = (c.eguf - c.egul) \div (high - low)
             /\ k.eoff \in Int /\ k.eoff = c.egul - low * k.eslo
  <2>. DEFINE d == high - low
              x == c.eguf - c.egul
              q == x \div d
              y == high * c.egul - low * c.eguf
  <2>1. k.eslo = q /\ k.eoff = y \div d
    BY <1>8, <1>9
  <2>2. c.egul < c.eguf /\ low < high /\ x % d = 0
    BY <1>9, <1>12
  <2>3. d \in Nat /\ d >= 1 /\ x \in Int
    BY <1>1, <1>11, <2>2
  <2>9. x > 0
    <3>1. c.egul < c.eguf
      BY <2>2
    <3>. QED
      BY <1>1, <3>1
  <2>. HIDE DEF d
  <2>4. q \in Int /\ x = q * d + (x % d)
    <3>. HIDE DEF x
    <3>. QED
      BY <2>3, Division
  <2>. HIDE DEF q
  <2>5. x = q * d
    <3>1. q * d \in Int
      BY <2>3, <2>4
    <3>. QED
      BY <2>2, <2>4, <3>1
  <2>6. q >= 1
    <3>1. CASE q <= 0
      <4>1. q * d <= 0 * d
        BY <2>3, <2>4, <3>1, Products
      <4>. QED
        BY <2>3, <2>5, <2>9, <4>1
    <3>. QED
      BY <2>4, <3>1
  <2>7. y = (c.egul - low * q) * d + 0
    <3>. DEFINE g == c.egul
                h == c.eguf
                l == low
    <3>1. g \in Int /\ h \in Int /\ l \in Int /\ high = l + d /\ h = g + q * d /\ y = high * g - l * h
      BY <1>1, <1>11, <2>5 DEF d
    <3>. HIDE DEF g, h, l, y
    <3>2. (l + d) * g = l * g + d * g /\ l * (g + q * d) = l * g + (l * q) * d
      BY <2>3, <2>4, <3>1
    <3>3. y = (l * g + d * g) - (l * g + (l * q) * d)
      BY <3>1, <3>2
    <3>4. (g - l * q) * d + 0 = d * g - (l * q) * d
      BY <2>3, <2>4, <3>1
    <3>5. d * g \in Int /\ l * g \in Int /\ (l * q) * d \in Int
      BY <2>3, <2>4, <3>1
    <3>6. y = (g - l * q) * d + 0
      BY <3>3, <3>4, <3>5
    <3>. QED
      BY <3>6 DEF g, l
  <2>8. y \div d = c.egul - low * q /\ c.egul - low * q \in Int
    <3>. DEFINE e == c.egul - low * q
    <3>1. e \in Int /\ 0 \in 0..(d - 1)
      BY <1>1, <1>11, <2>3, <2>4
    <3>2. y = e * d + 0
      BY <2>7
    <3>. HIDE DEF e, y
    <3>3. y \div d = e
      BY <2>3, <3>1, <3>2, DivisionIsUnique
    <3>. QED
      BY <3>1, <3>3 DEF e
  <2>. QED
    BY <2>1, <2>4, <2>6, <2>8 DEF q, d, x
<1>10. CASE c.linear /\ low = high
  <2>1. k.eslo = c.eslo /\ k.eoff = c.eoff /\ c.eslo > 0
    BY <1>8, <1>10, <1>12
  <2>. QED
    BY <1>1, <1>5, <1>6, <1>7, <1>10, <1>11, <2>1
       DEF low, high, least, greatest, k
<1>13. CASE ~c.linear
  BY <1>5, <1>6, <1>7, <1>8, <1>11, <1>13 DEF low, high, least, greatest, k
<1>14. CASE c.linear /\ low # high
  BY <1>5, <1>6, <1>7, <1>9, <1>11, <1>14 DEF low, high, least, greatest, k
<1>. QED
  BY <1>10, <1>13, <1>14

\* The raw value of an engineering value, and of the engineering value of a raw value.
LEMMA RawValues ==
  ASSUME NEW c, IsActive(c), Type(c) \notin {"float", "uint32"}
  PROVE  /\ \A val \in Int : RawOf(c, val) \in RangeOf("int32") /\ RawOf(c, val) \in Int
         /\ \A n \in RangeOf("int32") : RawOf(c, n * ConversionOf(c).eslo + ConversionOf(c).eoff) = n
<1>. DEFINE s == ConversionOf(c).eslo
            o == ConversionOf(c).eoff
            D == TwoTo[Int32Bits - 1]
            max == D - 1
            raw(v) == (2 * (v - o) + s) \div (2 * s)
<1>1. s \in Nat /\ s >= 1 /\ o \in Int
  BY Slope
<1>2. D \in Nat /\ D >= 1 /\ RangeOf("int32") = (-D)..(D - 1)
  BY Ranges, Halves DEF Dword2, FirstSpecial
<1>3. \A v : RawOf(c, v) = IF raw(v) > max THEN max ELSE IF raw(v) < -max - 1 THEN -max - 1 ELSE raw(v)
  BY DEF RawOf
<1>. HIDE DEF s, o, D
<1>4. ASSUME NEW v \in Int PROVE raw(v) \in Int
  <2>. DEFINE x == 2 * (v - o) + s
              d == 2 * s
  <2>1. x \in Int /\ d \in Nat /\ d >= 1
    BY <1>1
  <2>. HIDE DEF x, d
  <2>2. x \div d \in Int
    BY <2>1, Division
  <2>. QED
    BY <2>2 DEF x, d
<1>5. ASSUME NEW n \in Int PROVE raw(n * s + o) = n
  <2>. DEFINE x == 2 * ((n * s + o) - o) + s
              d == 2 * s
  <2>1. x = n * d + s /\ d \in Nat /\ d >= 1 /\ s \in 0..(d - 1)
    BY <1>1
  <2>. HIDE DEF x, d
  <2>2. x \div d = n
    BY <2>1, DivisionIsUnique
  <2>. QED
    BY <2>2 DEF x, d
<1>. HIDE DEF raw
<1>6. \A v \in Int : RawOf(c, v) \in RangeOf("int32") /\ RawOf(c, v) \in Int
  BY <1>2, <1>3, <1>4, SMTT(30)
<1>7. ASSUME NEW n \in RangeOf("int32") PROVE RawOf(c, n * s + o) = n
  <2>1. n \in Int /\ n <= max /\ n >= -max - 1
    BY <1>2
  <2>2. raw(n * s + o) = n
    BY <1>5, <2>1
  <2>. QED
    BY <1>2, <1>3, <2>1, <2>2
<1>. QED
  BY <1>6, <1>7 DEF s, o

------------------------------------------------------------------------------
(***************************************************************************)
(* The fields that a record can have, and what it writes.                  *)
(***************************************************************************)
\* What a record of each kind can have in VAL.
ValueRange(c) ==
  CASE Support(c) = "analog" -> IF Type(c) = "float" THEN RangeOf("float") ELSE Int
    [] Support(c) = "long" -> RangeOf("int32")
    [] Support(c) = "binary" -> {0, 1}
    [] Support(c) = "multiBinary" ->
         IF c.recordType = "mbbo" /\ HasStates(c) THEN (0..(Len(c.states) - 1)) \union {UnknownState}
         ELSE 0..(TwoTo[Int32Bits] - 1)
    [] Support(c) = "string" -> IF Type(c) = "bool" THEN Seq(Nat) ELSE Strings
    [] Support(c) = "array" -> [1..c.nelm -> ElementRange(c.ftvl)]

\* An mbbo record has the value UnknownState only if it has read a number without a state.
ReadWithoutState(c, rec) ==
  /\ rec.rval \in 0..(TwoTo[BitsOf(c.dataSize)] - 1)
  /\ Masked(c, rec.rval) = rec.rval
  /\ State(c, rec.rval) = UnknownState

\* The fields of a record.
IsRecord(c, rec) ==
  /\ rec \in [val: ValueRange(c), rval: Int, bits: Int]
  /\ Support(c) = "multiBinary" /\ rec.val = UnknownState => ReadWithoutState(c, rec)

\* The number that a record with one number writes.
NumberOfRecord(c, rec) ==
  CASE Support(c) = "analog" -> AnalogWrite(c, rec)
    [] Support(c) = "long" -> LongWrite(c, rec)
    [] Support(c) = "binary" -> BinaryWrite(rec)
    [] Support(c) = "multiBinary" -> MultiBinaryWrite(c, rec)

\* The values of each kind of record.
LEMMA ValueRanges ==
  ASSUME NEW c
  PROVE  /\ Support(c) = "analog" => ValueRange(c) = IF Type(c) = "float" THEN RangeOf("float") ELSE Int
         /\ Support(c) = "long" => ValueRange(c) = RangeOf("int32")
         /\ Support(c) = "binary" => ValueRange(c) = {0, 1}
         /\ Support(c) = "multiBinary" => ValueRange(c) =
              IF c.recordType = "mbbo" /\ HasStates(c) THEN (0..(Len(c.states) - 1)) \union {UnknownState}
              ELSE 0..(TwoTo[Int32Bits] - 1)
         /\ Support(c) = "string" => ValueRange(c) = IF Type(c) = "bool" THEN Seq(Nat) ELSE Strings
         /\ Support(c) = "array" => ValueRange(c) = [1..c.nelm -> ElementRange(c.ftvl)]
BY DEF ValueRange

\* Small numbers are in the range of every data type.
LEMMA ZeroAndOne ==
  ASSUME NEW type \in PlcDataTypes, NEW x \in 0..1
  PROVE  x \in RangeOf(type) /\ x \in Int
<1>1. x \in (-FirstSpecial + 3)..(FirstSpecial - 1)
  BY SpecialNumbers
<1>2. x \in RangeOf("float")
  BY <1>1, NumbersAreFloats
<1>3. type \in {"bool", "int8", "uint8", "int16", "uint16", "int32", "uint32", "float"}
  BY DEF PlcDataTypes
<1>. HIDE DEF PlcDataTypes
<1>. QED
  BY <1>2, <1>3, Ranges, Halves

\* The elements of an array are integers, if they are not strings, and 0 is one of them.
LEMMA ElementsAreNumbers ==
  ASSUME NEW ftvl \in ElementTypes \ {"STRING"}
  PROVE  0 \in ElementRange(ftvl) /\ \A x \in ElementRange(ftvl) : x \in Int
<1>1. \A t \in PlcDataTypes : 0 \in RangeOf(t)
  BY ZeroAndOne
<1>2. ftvl \in {"CHAR", "UCHAR", "SHORT", "USHORT", "LONG", "ULONG", "FLOAT", "DOUBLE", "ENUM"}
  BY DEF ElementTypes
<1>3. {"int8", "uint8", "int16", "uint16", "int32", "uint32", "float"} \subseteq PlcDataTypes
  BY DEF PlcDataTypes
<1>. QED
  BY <1>1, <1>2, <1>3, ElementRanges, Ranges, Halves, SMTT(30)

\* A masked number is an integer.
LEMMA MaskedNumber ==
  ASSUME NEW c, NEW n \in Int
  PROVE  Masked(c, n) \in Int
BY BitsOfAnd, TwoToIsPositive, Widths DEF Masked

\* The number of a record.
LEMMA WrittenNumber ==
  ASSUME NEW c, IsActive(c), NEW rec, IsRecord(c, rec), Support(c) \in Numeric
  PROVE  /\ ReadFromRecord(c, rec) = Encode(Type(c), NumberOfRecord(c, rec))
         /\ NumberOfRecord(c, rec) \in Int
         /\ Type(c) \in {"bool", "float"} => NumberOfRecord(c, rec) \in RangeOf(Type(c))
<1>1. Type(c) \in PlcDataTypes
  BY ActiveType
<1>2. rec.rval \in Int /\ rec.val \in ValueRange(c)
  BY DEF IsRecord
<1>3. 0 \in RangeOf(Type(c)) /\ 1 \in RangeOf(Type(c))
  BY <1>1, ZeroAndOne
<1>4. ReadFromRecord(c, rec) = Encode(Type(c), NumberOfRecord(c, rec))
  BY DEF ReadFromRecord, NumberOfRecord, Numeric
<1>5. CASE Support(c) = "analog"
  <2>1. NumberOfRecord(c, rec) = AnalogWrite(c, rec)
    BY <1>5 DEF NumberOfRecord
  <2>2. CASE Type(c) = "float"
    <3>1. rec.val \in RangeOf("float") /\ NumberOfRecord(c, rec) = rec.val
      BY <1>2, <1>5, <2>1, <2>2, ValueRanges DEF AnalogWrite
    <3>. QED
      BY <1>4, <2>2, <3>1, Ranges
  <2>3. CASE Type(c) = "bool"
    <3>1. NumberOfRecord(c, rec) \in {0, 1}
      BY <2>1, <2>3 DEF AnalogWrite
    <3>. QED
      BY <1>3, <1>4, <3>1
  <2>4. CASE Type(c) \notin {"bool", "float"}
    <3>1. NumberOfRecord(c, rec) = rec.rval
      BY <2>1, <2>4 DEF AnalogWrite
    <3>. QED
      BY <1>2, <1>4, <2>4, <3>1
  <2>. QED
    BY <2>2, <2>3, <2>4
<1>6. CASE Support(c) = "long"
  <2>1. NumberOfRecord(c, rec) = LongWrite(c, rec) /\ Type(c) # "float"
    BY <1>6, ActiveType DEF NumberOfRecord
  <2>2. rec.val \in Int
    BY <1>2, <1>6, ValueRanges, Ranges, Halves
  <2>3. CASE Type(c) = "bool"
    <3>1. NumberOfRecord(c, rec) \in {0, 1}
      BY <2>1, <2>3 DEF LongWrite
    <3>. QED
      BY <1>3, <1>4, <3>1
  <2>4. CASE Type(c) # "bool"
    BY <1>4, <2>1, <2>2, <2>4 DEF LongWrite
  <2>. QED
    BY <2>3, <2>4
<1>7. CASE Support(c) = "binary"
  <2>1. NumberOfRecord(c, rec) \in {0, 1}
    BY <1>7 DEF NumberOfRecord, BinaryWrite
  <2>. QED
    BY <1>3, <1>4, <2>1
<1>8. CASE Support(c) = "multiBinary"
  <2>1. NumberOfRecord(c, rec) = MultiBinaryWrite(c, rec) /\ Type(c) \notin {"bool", "float"}
        /\ c.recordType \in {"mbbo", "mbboDirect"}
    BY <1>8, ActiveType DEF NumberOfRecord
  <2>2. Masked(c, rec.rval) \in Int
    BY <1>2, MaskedNumber
  <2>3. ~(c.recordType = "mbbo" /\ HasStates(c)) => rec.val \in Int
    <3>1. CASE c.recordType = "mbbo" /\ HasStates(c)
      BY <3>1
    <3>2. CASE ~(c.recordType = "mbbo" /\ HasStates(c))
      <4>1. rec.val \in 0..(TwoTo[Int32Bits] - 1)
        BY <1>2, <1>8, <3>2, ValueRanges
      <4>2. TwoTo[Int32Bits] \in Nat
        BY Widths, TwoToIsPositive
      <4>. QED
        BY <4>1, <4>2
    <3>. QED
      BY <3>1, <3>2
  <2>4. ~(c.recordType = "mbbo" /\ HasStates(c)) => Masked(c, rec.val) \in Int
    BY <2>3, MaskedNumber
  <2>5. MultiBinaryWrite(c, rec) \in Int
    BY <1>2, <2>1, <2>2, <2>3, <2>4 DEF MultiBinaryWrite
  <2>. QED
    BY <1>4, <2>1, <2>5
<1>. QED
  BY <1>5, <1>6, <1>7, <1>8 DEF Numeric

\* One bit in a buffer of one byte.
LEMMA BufferOfBit ==
  ASSUME NEW c, IoBufferSizeInBits(c) = 1, IoBufferSizeInBytes(c) = 1,
         NEW buffer \in [1..1 -> Bytes], buffer[1] \in 0..1
  PROVE  Buffer(c, buffer) = buffer
<1>1. 1 % ByteBits = 1 /\ ~(1 * ByteBits <= 1)
  <2>1. ByteBits \in Nat /\ 1 \in 0..(ByteBits - 1) /\ ~(1 * ByteBits <= 1)
    BY Widths
  <2>. QED
    BY <2>1, SmallNumber
<1>2. Unsigned(buffer[1], 1) = buffer[1]
  <2>1. TwoTo[1] = 2 /\ buffer[1] \in 0..(2 - 1) /\ 2 \in Nat
    BY Widths
  <2>. QED
    BY <2>1, SmallNumber DEF Unsigned
<1>. DEFINE part(i) == IF i * ByteBits <= 1 THEN buffer[i] ELSE Unsigned(buffer[i], 1 % ByteBits)
<1>3. Buffer(c, buffer) = [i \in 1..1 |-> part(i)]
  BY DEF Buffer
<1>4. part(1) = buffer[1]
  BY <1>1, <1>2
<1>. HIDE DEF part
<1>5. \A i \in 1..1 : part(i) = buffer[i]
  BY <1>4
<1>6. [i \in 1..1 |-> part(i)] = [i \in 1..1 |-> buffer[i]]
  BY <1>5
<1>. QED
  BY <1>3, <1>6

\* What a record writes fills its buffer, with zeros behind its bits.
LEMMA WrittenBuffer ==
  ASSUME NEW c, IsActive(c), NEW rec, IsRecord(c, rec)
  PROVE  /\ ReadFromRecord(c, rec) \in [1..IoBufferSizeInBytes(c) -> Bytes]
         /\ Buffer(c, ReadFromRecord(c, rec)) = ReadFromRecord(c, rec)
<1>. DEFINE T == Type(c)
            size == BytesOf(c.dataSize)
            b == ReadFromRecord(c, rec)
            n == c.nelm
            M == MaxStringSize
<1>1. T \in PlcDataTypes /\ SizeOfType(T) = c.dataSize /\ Support(c) \in Six
  BY ActiveType
<1>2. size \in Nat /\ size >= 1 /\ (T = "bool" => size = 1) /\ n \in Nat /\ n >= 1 /\ M \in Nat /\ M >= 1
      /\ c.ftvl \in ElementTypes
  BY <1>1, TypeSizes, Fields, SizeAssumption DEF IsActive
<1>3. rec.val \in ValueRange(c)
  BY DEF IsRecord
<1>4. CASE Support(c) \in Numeric
  <2>. DEFINE x == NumberOfRecord(c, rec)
  <2>1. b = Encode(T, x) /\ x \in Int /\ (T \in {"bool", "float"} => x \in RangeOf(T))
    BY <1>4, WrittenNumber
  <2>. HIDE DEF x
  <2>2. PatternOf(T, x) \in Int /\ (T # "float" => PatternOf(T, x) = x)
    BY <2>1, FloatIsKept DEF PatternOf
  <2>3. /\ b \in [1..size -> Bytes]
        /\ \A i \in 1..size : b[i] = (PatternOf(T, x) \div TwoTo[ByteBits * (size - i)]) % TwoTo[ByteBits]
    BY <1>1, <2>1, <2>2, EncodeBytes
  <2>4. IoBufferSizeInBytes(c) = size
    BY <1>4, Sizes
  <2>5. CASE T = "bool"
    <3>1. x \in 0..1 /\ size = 1 /\ IoBufferSizeInBits(c) = 1
      <4>1. BitsOf(c.dataSize) = 1
        BY <1>1, <2>5, TypeSizes DEF Bits
      <4>. QED
        BY <1>2, <1>4, <2>1, <2>5, <4>1, Sizes, Ranges
    <3>2. b[1] = x
      <4>1. b[1] = (x \div TwoTo[ByteBits * (1 - 1)]) % TwoTo[ByteBits]
        BY <2>2, <2>3, <2>5, <3>1
      <4>2. ByteBits * (1 - 1) = 0 /\ TwoTo[0] = 1
        BY Widths, TwoToStep
      <4>3. x \div 1 = x
        BY <2>1
      <4>4. x \in 0..(TwoTo[ByteBits] - 1) /\ TwoTo[ByteBits] \in Nat
        BY <3>1, BytesAre
      <4>5. x % TwoTo[ByteBits] = x
        BY <4>4, SmallNumber
      <4>. QED
        BY <4>1, <4>2, <4>3, <4>5
    <3>3. b \in [1..1 -> Bytes] /\ b[1] \in 0..1
      BY <2>3, <3>1, <3>2
    <3>4. Buffer(c, b) = b
      BY <2>4, <3>1, <3>3, BufferOfBit
    <3>. QED
      BY <2>3, <2>4, <3>4
  <2>6. CASE T # "bool"
    <3>1. IoBufferSizeInBits(c) = size * ByteBits
      BY <1>4, <2>6, Sizes
    <3>. QED
      BY <1>2, <2>3, <2>4, <3>1, WholeBytes
  <2>. QED
    BY <2>5, <2>6
<1>5. CASE Support(c) = "string"
  <2>1. b = StringWrite(c, rec.val)
    BY <1>5 DEF ReadFromRecord
  <2>2. CASE T = "bool"
    <3>1. IoBufferSizeInBits(c) = 1 * ByteBits
      BY <1>5, <2>2, Sizes
    <3>2. b = <<IF rec.val = TrueString THEN 1 ELSE 0>>
      BY <2>1, <2>2 DEF StringWrite
    <3>3. b \in [1..1 -> Bytes]
      <4>. DEFINE e == IF rec.val = TrueString THEN 1 ELSE 0
      <4>1. e \in Bytes
        BY BytesAre
      <4>. HIDE DEF e
      <4>2. <<e>> \in [1..1 -> Bytes]
        BY <4>1
      <4>. QED
        BY <3>2, <4>2 DEF e
    <3>. DEFINE k == 1
    <3>4. IoBufferSizeInBits(c) = k * ByteBits /\ b \in [1..k -> Bytes] /\ k \in Nat /\ k >= 1
      BY <3>1, <3>3
    <3>. HIDE DEF k
    <3>. QED
      BY <3>4, WholeBytes
  <2>3. CASE T # "bool"
    <3>1. IoBufferSizeInBits(c) = M * ByteBits
      BY <1>5, <2>3, Sizes
    <3>2. rec.val \in Strings
      BY <1>3, <1>5, <2>3, ValueRanges
    <3>3. b \in [1..M -> Bytes]
      BY <2>1, <2>3, <3>2, StringIsWritten DEF StringWrite
    <3>. QED
      BY <1>2, <3>1, <3>3, WholeBytes
  <2>. QED
    BY <2>2, <2>3
<1>6. CASE Support(c) = "array"
  <2>1. b = ArrayWrite(c, rec.val) /\ rec.val \in [1..n -> ElementRange(c.ftvl)]
    BY <1>3, <1>6, ValueRanges DEF ReadFromRecord
  <2>2. CASE c.ftvl = "STRING"
    <3>. DEFINE parts == [i \in 1..n |-> StringBytes(rec.val[i])]
    <3>1. IoBufferSizeInBits(c) = (n * M) * ByteBits /\ n * M \in Nat /\ n * M >= 1
      <4>1. 1 * M <= n * M
        BY <1>2, Products
      <4>. QED
        BY <1>2, <1>6, <2>2, <4>1, Sizes
    <3>2. \A i \in 1..n : rec.val[i] \in Strings
      BY <2>1, <2>2, ElementRanges
    <3>3. parts \in [1..n -> [1..M -> Bytes]]
      BY <3>2, StringIsWritten
    <3>4. T # "bool"
      BY <1>2, <1>6, <2>2, ActiveType, ArrayOutTypes
    <3>5. b = Joined(parts, M)
      BY <2>1, <2>2, <3>4 DEF ArrayWrite
    <3>. HIDE DEF parts, M, n, b
    <3>6. Joined(parts, M) \in [1..(n * M) -> Bytes]
      BY <1>2, <3>3, JoinedParts
    <3>7. b \in [1..(n * M) -> Bytes]
      BY <3>5, <3>6
    <3>. QED
      BY <3>1, <3>7, WholeBytes DEF M, n, b
  <2>3. CASE c.ftvl # "STRING" /\ T = "bool"
    <3>1. IoBufferSizeInBits(c) = n /\ b = PackBits(rec.val)
      BY <1>6, <2>1, <2>3, Sizes DEF ArrayWrite
    <3>2. rec.val \in Seq(Int) /\ Len(rec.val) = n
      <4>1. rec.val \in [1..n -> Int]
        BY <1>2, <2>1, <2>3, ElementsAreNumbers
      <4>. QED
        BY <1>2, <4>1, SequenceOf
    <3>. DEFINE k == (n + ByteBits - 1) \div ByteBits
    <3>3. b \in [1..k -> Bytes] /\ \A i \in 1..k : i * ByteBits > n => Unsigned(b[i], n % ByteBits) = b[i]
      BY <1>2, <3>1, <3>2, PackedBits
    <3>4. IoBufferSizeInBytes(c) = k
      BY <3>1 DEF IoBufferSizeInBytes
    <3>5. k \in Nat
      BY <1>2, BytesForBits
    <3>6. Buffer(c, b) = [i \in 1..k |-> IF i * ByteBits <= n THEN b[i] ELSE Unsigned(b[i], n % ByteBits)]
      BY <3>1, <3>4 DEF Buffer
    <3>. HIDE DEF k
    <3>7. \A i \in 1..k : (IF i * ByteBits <= n THEN b[i] ELSE Unsigned(b[i], n % ByteBits)) = b[i]
      <4>. TAKE i \in 1..k
      <4>1. i * ByteBits \in Int
        BY <3>5, Widths
      <4>. QED
        BY <1>2, <3>3, <4>1
    <3>. DEFINE g(i) == IF i * ByteBits <= n THEN b[i] ELSE Unsigned(b[i], n % ByteBits)
    <3>8. Buffer(c, b) = [i \in 1..k |-> g(i)] /\ \A i \in 1..k : g(i) = b[i]
      BY <3>6, <3>7
    <3>. HIDE DEF g, b
    <3>9. [i \in 1..k |-> g(i)] = [i \in 1..k |-> b[i]]
      BY <3>8
    <3>10. Buffer(c, b) = b
      BY <3>3, <3>8, <3>9
    <3>. QED
      BY <3>3, <3>4, <3>10 DEF b
  <2>4. CASE c.ftvl # "STRING" /\ T # "bool"
    <3>. DEFINE parts == [i \in 1..n |-> Encode(T, rec.val[i])]
    <3>1. IoBufferSizeInBits(c) = (n * size) * ByteBits /\ n * size \in Nat /\ n * size >= 1
      <4>1. 1 * size <= n * size
        BY <1>2, Products
      <4>. QED
        BY <1>2, <1>6, <2>4, <4>1, Sizes
    <3>2. T \in ArrayType(c.requested, c.dataSize, ArrayOutRequested(c.ftvl), ArrayOutDefault(c.ftvl))
      BY <1>6, ActiveType
    <3>3. c.ftvl \in {"LONG", "ULONG"} => T # "float"
      BY <1>6 DEF IsActive, IsConfiguration
    <3>4. ASSUME NEW i \in 1..n PROVE Encode(T, rec.val[i]) \in [1..size -> Bytes]
      <4>1. rec.val[i] \in ElementRange(c.ftvl)
        BY <2>1
      <4>2. rec.val[i] \in RangeOf(T) /\ rec.val[i] \in Int
        BY <1>2, <2>4, <3>2, <3>3, <4>1, PlcHoldsElements
      <4>3. PatternOf(T, rec.val[i]) \in Int
        BY <4>2, FloatIsKept DEF PatternOf
      <4>. QED
        BY <1>1, <4>3, EncodeBytes
    <3>5. parts \in [1..n -> [1..size -> Bytes]]
      BY <3>4
    <3>6. b = Joined(parts, size)
      BY <2>1, <2>4 DEF ArrayWrite
    <3>. HIDE DEF parts, size, n, b
    <3>7. Joined(parts, size) \in [1..(n * size) -> Bytes]
      BY <1>2, <3>5, JoinedParts
    <3>8. b \in [1..(n * size) -> Bytes]
      BY <3>6, <3>7
    <3>. QED
      BY <3>1, <3>8, WholeBytes DEF size, n, b
  <2>. QED
    BY <2>2, <2>3, <2>4
<1>. QED
  BY <1>1, <1>4, <1>5, <1>6 DEF Six, Numeric

\* A new record.
LEMMA EmptyIsRecord ==
  ASSUME NEW c, IsActive(c)
  PROVE  IsRecord(c, EmptyRecord(c))
<1>. DEFINE e == EmptyRecord(c)
<1>1. /\ e = [val |-> e.val, rval |-> 0, bits |-> 0]
      /\ Support(c) = "string" => e.val = <<>>
      /\ Support(c) = "array" => e.val = [i \in 1..c.nelm |-> IF c.ftvl = "STRING" THEN <<>> ELSE 0]
      /\ Support(c) \in Numeric => e.val = 0
  BY DEF EmptyRecord, Numeric
<1>2. Support(c) \in Six /\ Type(c) \in PlcDataTypes
  BY ActiveType
<1>3. c.ftvl \in ElementTypes /\ c.nelm \in Nat /\ c.states \in Seq(Nat)
  BY Fields DEF IsActive
<1>4. <<>> \in Strings
  BY SizeAssumption DEF Strings
<1>5. e.val \in ValueRange(c)
  <2>1. CASE Support(c) = "analog"
    <3>1. 0 \in RangeOf("float")
      BY ZeroAndOne DEF PlcDataTypes
    <3>. QED
      BY <1>1, <2>1, <3>1, ValueRanges DEF Numeric
  <2>2. CASE Support(c) = "long"
    <3>1. 0 \in RangeOf("int32")
      BY ZeroAndOne DEF PlcDataTypes
    <3>. QED
      BY <1>1, <2>2, <3>1, ValueRanges DEF Numeric
  <2>3. CASE Support(c) = "binary"
    BY <1>1, <2>3, ValueRanges DEF Numeric
  <2>4. CASE Support(c) = "multiBinary"
    <3>1. 0 \in 0..(TwoTo[Int32Bits] - 1)
      BY Widths, TwoToIsPositive
    <3>2. HasStates(c) => 0 \in 0..(Len(c.states) - 1)
      BY <1>3 DEF HasStates
    <3>3. e.val = 0
      BY <1>1, <2>4 DEF Numeric
    <3>4. CASE c.recordType = "mbbo" /\ HasStates(c)
      BY <2>4, <3>2, <3>3, <3>4, ValueRanges
    <3>5. CASE ~(c.recordType = "mbbo" /\ HasStates(c))
      BY <2>4, <3>1, <3>3, <3>5, ValueRanges
    <3>. QED
      BY <3>4, <3>5
  <2>5. CASE Support(c) = "string"
    <3>1. <<>> \in Seq(Nat)
      OBVIOUS
    <3>2. ValueRange(c) = Seq(Nat) \/ ValueRange(c) = Strings
      BY <2>5, ValueRanges
    <3>3. e.val = <<>>
      BY <1>1, <2>5
    <3>4. <<>> \in ValueRange(c)
      BY <1>4, <3>1, <3>2, Zenon
    <3>. HIDE DEF e
    <3>. QED
      BY <3>3, <3>4
  <2>6. CASE Support(c) = "array"
    <3>1. CASE c.ftvl = "STRING"
      BY <1>1, <1>4, <2>6, <3>1, ValueRanges, ElementRanges
    <3>2. CASE c.ftvl # "STRING"
      <4>1. 0 \in ElementRange(c.ftvl)
        BY <1>3, <3>2, ElementsAreNumbers
      <4>. QED
        BY <1>1, <2>6, <3>2, <4>1, ValueRanges
    <3>. QED
      BY <3>1, <3>2
  <2>. QED
    BY <1>2, <2>1, <2>2, <2>3, <2>4, <2>5, <2>6 DEF Six
<1>6. Support(c) = "multiBinary" => e.val # UnknownState
  BY <1>1, Widths, TwoToIsPositive DEF UnknownState, Numeric
<1>. HIDE DEF e
<1>7. e \in [val: ValueRange(c), rval: Int, bits: Int]
  BY <1>1, <1>5
<1>. QED
  BY <1>6, <1>7 DEF IsRecord, e

\* There are more numbers than states.
LEMMA StatesAreKnown ==
  /\ UnknownState = TwoTo[Int32Bits] /\ UnknownState \in Nat /\ UnknownState >= 256
  /\ RangeOf("uint16") \subseteq 0..(UnknownState - 1)
<1>1. UnknownState = 2 * Dword2 /\ Dword2 \in Nat /\ Dword2 >= 128 /\ Word2 \in Nat /\ Dword2 >= 2 * Word2
  BY Halves DEF UnknownState
<1>. QED
  BY <1>1, Ranges DEF UnknownState

\* What is put into a record.
LEMMA PutIsRecord ==
  ASSUME NEW c, IsActive(c), NEW rec, IsRecord(c, rec), NEW v \in LegalValues(c)
  PROVE  IsRecord(c, [rec EXCEPT !.val = v])
<1>1. Support(c) \in Six /\ c.states \in Seq(Nat) /\ Len(c.states) <= 16 /\ Len(c.states) \in Nat
  BY ActiveType, Fields DEF IsActive
<1>2. /\ Support(c) = "analog" => LegalValues(c) = ValueRange(c)
      /\ Support(c) = "long" => LegalValues(c) = ValueRange(c)
      /\ Support(c) = "binary" => LegalValues(c) = ValueRange(c)
      /\ Support(c) = "string" => LegalValues(c) = ValueRange(c)
      /\ Support(c) = "array" => LegalValues(c) = ValueRange(c)
      /\ Support(c) = "multiBinary" => LegalValues(c) =
           IF c.recordType = "mbbo" /\ HasStates(c) THEN 0..(Len(c.states) - 1) ELSE RangeOf("uint16")
  BY ValueRanges DEF LegalValues
<1>3. v \in ValueRange(c) /\ (Support(c) = "multiBinary" => v # UnknownState)
  <2>1. CASE Support(c) = "multiBinary"
    <3>1. CASE c.recordType = "mbbo" /\ HasStates(c)
      BY <1>1, <1>2, <2>1, <3>1, ValueRanges, StatesAreKnown
    <3>2. CASE ~(c.recordType = "mbbo" /\ HasStates(c))
      <4>1. v \in 0..(UnknownState - 1)
        BY <1>2, <2>1, <3>2, StatesAreKnown
      <4>2. v \in ValueRange(c)
        BY <2>1, <3>2, <4>1, ValueRanges, StatesAreKnown
      <4>. QED
        BY <4>1, <4>2, StatesAreKnown
    <3>. QED
      BY <3>1, <3>2
  <2>. QED
    BY <1>1, <1>2, <2>1 DEF Six
<1>4. rec \in [val: ValueRange(c), rval: Int, bits: Int]
  BY DEF IsRecord
<1>5. [rec EXCEPT !.val = v] \in [val: ValueRange(c), rval: Int, bits: Int]
      /\ [rec EXCEPT !.val = v].val = v
  BY <1>3, <1>4
<1>. QED
  BY <1>3, <1>5 DEF IsRecord

------------------------------------------------------------------------------
(***************************************************************************)
(* What a record shows that reads a buffer.                                *)
(***************************************************************************)
\* The number in a buffer, and the value that a record shows of it.
NumberIn(c, buffer) == Decode(Type(c), buffer)
ValueIn(c, buffer) ==
  CASE Support(c) = "analog" ->
         IF Type(c) = "float" THEN NumberIn(c, buffer)
         ELSE Signed(NumberIn(c, buffer), Int32Bits) * ConversionOf(c).eslo + ConversionOf(c).eoff
    [] Support(c) = "long" -> LongRead(c, NumberIn(c, buffer))
    [] Support(c) = "binary" -> BinaryRead(c, NumberIn(c, buffer))
    [] Support(c) = "multiBinary" -> State(c, MultiBinaryRead(c, NumberIn(c, buffer)))
    [] Support(c) = "string" -> StringRead(c, buffer)
    [] Support(c) = "array" -> ArrayRead(c, buffer)

\* Records of the same kind, with the same data type and size, have the same buffers.
LEMMA SameBuffers ==
  ASSUME NEW c, NEW d, Support(c) = Support(d), Type(c) = Type(d), c.ftvl = d.ftvl,
         c.dataSize = d.dataSize, c.nelm = d.nelm
  PROVE  /\ IoBufferSizeInBits(c) = IoBufferSizeInBits(d)
         /\ IoBufferSizeInBytes(c) = IoBufferSizeInBytes(d)
         /\ \A bytes : Buffer(c, bytes) = Buffer(d, bytes)
<1>1. IoBufferSizeInBits(c) = IoBufferSizeInBits(d)
  BY Zenon DEF IoBufferSizeInBits, StringBufferBits, ArrayBufferBits
<1>2. IoBufferSizeInBytes(c) = IoBufferSizeInBytes(d)
  BY <1>1, Zenon DEF IoBufferSizeInBytes
<1>3. \A bytes : Buffer(c, bytes) = Buffer(d, bytes)
  BY <1>1, <1>2, Zenon DEF Buffer
<1>. QED
  BY <1>1, <1>2, <1>3

\* A record after it has been read, whether it is the record that writes or another one.
LEMMA RecordIsRead ==
  ASSUME NEW c, NEW bytes, Support(c) \in Six
  PROVE  LET e == EmptyRecord(c)
             r == WriteToRecord(c, bytes, e)
             x == Decode(Type(c), Buffer(c, bytes))
         IN /\ e = [val |-> e.val, rval |-> 0, bits |-> 0]
            /\ r = [val |-> r.val, rval |-> r.rval, bits |-> 0]
            /\ Support(c) = "analog" /\ Type(c) = "float" => r.val = x /\ r.rval = 0
            /\ Support(c) = "analog" /\ Type(c) # "float" => r.rval = Signed(x, Int32Bits)
            /\ Support(c) = "multiBinary" => r.rval = MultiBinaryRead(c, x)
            /\ Support(c) \in {"long", "binary", "string", "array"} => r.rval = 0
            /\ Support(c) = "long" => r.val = LongRead(c, x)
            /\ Support(c) = "binary" => r.val = BinaryRead(c, x)
            /\ Support(c) = "string" => r.val = StringRead(c, Buffer(c, bytes))
            /\ Support(c) = "array" => r.val = ArrayRead(c, Buffer(c, bytes))
<1>. DEFINE e == EmptyRecord(c)
            r == WriteToRecord(c, bytes, e)
            buffer == Buffer(c, bytes)
            x == Decode(Type(c), buffer)
<1>1. e = [val |-> e.val, rval |-> 0, bits |-> 0]
  BY DEF EmptyRecord
<1>. HIDE DEF e, x, buffer
<1>2. /\ Support(c) = "analog" => r = AnalogRead(c, x, e)
      /\ Support(c) = "long" => r = [e EXCEPT !.val = LongRead(c, x)]
      /\ Support(c) = "binary" => r = [e EXCEPT !.val = BinaryRead(c, x)]
      /\ Support(c) = "multiBinary" => r = [e EXCEPT !.rval = MultiBinaryRead(c, x)]
      /\ Support(c) = "string" => r = [e EXCEPT !.val = StringRead(c, buffer)]
      /\ Support(c) = "array" => r = [e EXCEPT !.val = ArrayRead(c, buffer)]
  BY DEF WriteToRecord, x, buffer
<1>. HIDE DEF r
<1>3. /\ Support(c) = "analog" /\ Type(c) = "float" => r = [e EXCEPT !.val = x]
      /\ Support(c) = "analog" /\ Type(c) # "float" => r = [e EXCEPT !.rval = Signed(x, Int32Bits)]
  BY <1>2 DEF AnalogRead
<1>4. \A v : [e EXCEPT !.val = v] = [val |-> v, rval |-> 0, bits |-> 0]
  BY <1>1
<1>5. \A v : [e EXCEPT !.rval = v] = [val |-> e.val, rval |-> v, bits |-> 0]
  BY <1>1
<1>. QED
  BY <1>1, <1>2, <1>3, <1>4, <1>5 DEF Six, e, r, x, buffer

\* The record that is initialized with a value.
LEMMA RecordIsInitialized ==
  ASSUME NEW c, IsActive(c), NEW bytes
  PROVE  LET buffer == Buffer(c, bytes)
             r == Initialized(c, WriteToRecord(c, bytes, EmptyRecord(c)))
         IN /\ r = [val |-> ValueIn(c, buffer), rval |-> r.rval, bits |-> r.bits]
            /\ Support(c) \in {"long", "binary", "string", "array"} => r.rval = 0 /\ r.bits = 0
            /\ Support(c) = "analog" =>
                 /\ r.bits = 0
                 /\ r.rval = IF Type(c) = "float" THEN 0 ELSE Signed(NumberIn(c, buffer), Int32Bits)
            /\ Support(c) = "multiBinary" =>
                 /\ r.rval = MultiBinaryRead(c, NumberIn(c, buffer))
                 /\ r.bits = IF c.recordType = "mbbo" THEN 0 ELSE Masked(c, r.rval \div TwoTo[c.shft])
<1>. DEFINE e == EmptyRecord(c)
            s == WriteToRecord(c, bytes, e)
            r == Initialized(c, s)
            buffer == Buffer(c, bytes)
            x == NumberIn(c, buffer)
            k == ConversionOf(c)
<1>1. Support(c) \in Six
      /\ (Support(c) = "analog" => c.recordType = "ao")
      /\ (Support(c) \in {"long", "binary", "string", "array"} =>
            c.recordType \in {"longout", "bo", "stringout", "aao", "waveformOut"})
      /\ (Support(c) = "multiBinary" => c.recordType \in {"mbbo", "mbboDirect"})
  BY ActiveType
<1>2. /\ s = [val |-> s.val, rval |-> s.rval, bits |-> 0]
      /\ Support(c) = "analog" /\ Type(c) = "float" => s.val = x /\ s.rval = 0
      /\ Support(c) = "analog" /\ Type(c) # "float" => s.rval = Signed(x, Int32Bits)
      /\ Support(c) = "multiBinary" => s.rval = MultiBinaryRead(c, x)
      /\ Support(c) \in {"long", "binary", "string", "array"} => s.rval = 0
      /\ Support(c) = "long" => s.val = LongRead(c, x)
      /\ Support(c) = "binary" => s.val = BinaryRead(c, x)
      /\ Support(c) = "string" => s.val = StringRead(c, buffer)
      /\ Support(c) = "array" => s.val = ArrayRead(c, buffer)
  BY <1>1, RecordIsRead DEF NumberIn
<1>. HIDE DEF s, x, buffer
<1>3. /\ Support(c) = "analog" =>
           ValueIn(c, buffer) = IF Type(c) = "float" THEN x ELSE Signed(x, Int32Bits) * k.eslo + k.eoff
      /\ Support(c) = "long" => ValueIn(c, buffer) = LongRead(c, x)
      /\ Support(c) = "binary" => ValueIn(c, buffer) = BinaryRead(c, x)
      /\ Support(c) = "multiBinary" => ValueIn(c, buffer) = State(c, MultiBinaryRead(c, x))
      /\ Support(c) = "string" => ValueIn(c, buffer) = StringRead(c, buffer)
      /\ Support(c) = "array" => ValueIn(c, buffer) = ArrayRead(c, buffer)
  BY DEF ValueIn, x
<1>. HIDE DEF k
<1>4. CASE Support(c) = "analog"
  <2>1. r = IF Type(c) = "float" THEN s ELSE [s EXCEPT !.val = s.rval * k.eslo + k.eoff]
    BY <1>1, <1>4 DEF Initialized, AoInitRecord, Engineering, k
  <2>2. CASE Type(c) = "float"
    BY <1>2, <1>3, <1>4, <2>1, <2>2 DEF buffer, x, s
  <2>3. CASE Type(c) # "float"
    <3>. DEFINE v == s.rval * k.eslo + k.eoff
    <3>1. v = ValueIn(c, buffer)
      BY <1>2, <1>3, <1>4, <2>3
    <3>2. r = [s EXCEPT !.val = v]
      BY <2>1, <2>3
    <3>. HIDE DEF v, r
    <3>3. r = [val |-> v, rval |-> s.rval, bits |-> 0]
      BY <1>2, <3>2
    <3>. QED
      BY <1>2, <1>4, <2>3, <3>1, <3>3 DEF buffer, x, r, s
  <2>. QED
    BY <2>2, <2>3
<1>5. CASE Support(c) = "multiBinary"
  <2>1. CASE c.recordType = "mbbo"
    <3>1. r = [s EXCEPT !.val = State(c, s.rval)]
      BY <2>1 DEF Initialized, MultiBinaryConvert
    <3>. HIDE DEF r
    <3>2. r = [val |-> State(c, s.rval), rval |-> s.rval, bits |-> 0]
      BY <1>2, <3>1
    <3>. QED
      BY <1>2, <1>3, <1>5, <2>1, <3>2 DEF buffer, x, r, s
  <2>2. CASE c.recordType = "mbboDirect"
    <3>1. r = [[s EXCEPT !.val = State(c, s.rval)] EXCEPT !.bits = Masked(c, s.rval \div TwoTo[c.shft])]
      BY <2>2 DEF Initialized, MbboDirectInitRecord, MultiBinaryConvert
    <3>. HIDE DEF r
    <3>2. r = [val |-> State(c, s.rval), rval |-> s.rval, bits |-> Masked(c, s.rval \div TwoTo[c.shft])]
      BY <1>2, <3>1
    <3>. QED
      BY <1>2, <1>3, <1>5, <2>2, <3>2 DEF buffer, x, r, s
  <2>. QED
    BY <1>1, <1>5, <2>1, <2>2
<1>6. CASE Support(c) \in {"long", "binary", "string", "array"}
  <2>1. r = s
    BY <1>1, <1>6 DEF Initialized
  <2>2. s.val = ValueIn(c, buffer)
    BY <1>2, <1>3, <1>6
  <2>. QED
    BY <1>2, <1>6, <2>1, <2>2 DEF buffer, s
<1>. QED
  BY <1>1, <1>4, <1>5, <1>6 DEF Six

\* The record that reads what another one writes.
LEMMA PartnerShows ==
  ASSUME NEW c, IsActive(c), HasPartner(c), NEW bytes
  PROVE  LET p == Partner(c)
         IN Processed(p, WriteToRecord(p, bytes, EmptyRecord(p))).val = ValueIn(c, Buffer(c, bytes))
<1>. DEFINE p == Partner(c)
            e == EmptyRecord(p)
            s == WriteToRecord(p, bytes, e)
            r == Processed(p, s)
            buffer == Buffer(c, bytes)
            x == NumberIn(c, buffer)
            k == ConversionOf(c)
<1>1. /\ p.recordType = InputFor[c.recordType]
      /\ p.ftvl = c.ftvl /\ p.dataSize = c.dataSize /\ p.nelm = c.nelm /\ p.linear = c.linear
      /\ p.egul = c.egul /\ p.eguf = c.eguf /\ p.limits = c.limits
      /\ p.eslo = c.eslo /\ p.eoff = c.eoff /\ p.states = c.states /\ p.nobt = c.nobt
      /\ p.shft = c.shft
      /\ Support(p) = Support(c)
      /\ Support(c) = "analog" => p.recordType = "ai"
      /\ Support(c) \in {"long", "binary", "string", "array"} =>
           p.recordType \in {"longin", "bi", "stringin", "aai", "waveformIn"}
      /\ c.recordType = "mbbo" => p.recordType = "mbbi"
      /\ c.recordType = "mbboDirect" => p.recordType = "mbbiDirect"
      /\ Type(p) = Type(c)
  BY PartnerFields
<1>. HIDE DEF p
<1>2. Buffer(p, bytes) = buffer
  BY <1>1, SameBuffers
<1>3. Support(c) \in Six /\ (Support(c) = "multiBinary" => c.recordType \in {"mbbo", "mbboDirect"})
  BY ActiveType
<1>4. Support(p) \in Six /\ Decode(Type(p), Buffer(p, bytes)) = x
  BY <1>1, <1>2, <1>3 DEF NumberIn
<1>5. /\ s = [val |-> s.val, rval |-> s.rval, bits |-> 0]
      /\ Support(p) = "analog" /\ Type(p) = "float" => s.val = x /\ s.rval = 0
      /\ Support(p) = "analog" /\ Type(p) # "float" => s.rval = Signed(x, Int32Bits)
      /\ Support(p) = "multiBinary" => s.rval = MultiBinaryRead(p, x)
      /\ Support(p) = "long" => s.val = LongRead(p, x)
      /\ Support(p) = "binary" => s.val = BinaryRead(p, x)
      /\ Support(p) = "string" => s.val = StringRead(p, buffer)
      /\ Support(p) = "array" => s.val = ArrayRead(p, buffer)
  BY <1>2, <1>4, RecordIsRead
<1>. HIDE DEF s, x, buffer
<1>6. ConversionOf(p) = k
  <2>1. TypeLimits(p) = TypeLimits(c)
    <3>1. CASE Type(c) \in SignedTypes
      BY <1>1, <3>1 DEF TypeLimits, SignedTypes
    <3>2. CASE Type(c) = "float"
      BY <1>1, <3>2 DEF TypeLimits, SignedTypes
    <3>3. CASE Type(c) \notin SignedTypes /\ Type(c) # "float"
      <4>1. /\ TypeLimits(c) = [low |-> 0, high |-> TwoTo[BitsOf(c.dataSize)] - 1]
            /\ TypeLimits(p) = [low |-> 0, high |-> TwoTo[BitsOf(p.dataSize)] - 1]
        BY <1>1, <3>3 DEF TypeLimits
      <4>. QED
        BY <1>1, <4>1
    <3>. QED
      BY <3>1, <3>2, <3>3
  <2>2. DeviceLimits(p) = DeviceLimits(c)
    <3>. DEFINE One(S) == CHOOSE l \in S : TRUE
    <3>1. /\ DeviceLimits(c) = IF c.limits = {} THEN TypeLimits(c) ELSE One(c.limits)
          /\ DeviceLimits(p) = IF p.limits = {} THEN TypeLimits(p) ELSE One(p.limits)
      BY DEF DeviceLimits
    <3>. HIDE DEF One
    <3>. QED
      BY <1>1, <2>1, <3>1
  <2>3. \A l : Conversion(p, l) = Conversion(c, l)
    BY <1>1, Zenon DEF Conversion
  <2>. QED
    BY <1>1, <2>2, <2>3, Zenon DEF ConversionOf, k
<1>7. LongRead(p, x) = LongRead(c, x) /\ BinaryRead(p, x) = BinaryRead(c, x)
      /\ StringRead(p, buffer) = StringRead(c, buffer) /\ ArrayRead(p, buffer) = ArrayRead(c, buffer)
  BY <1>1, Zenon DEF LongRead, BinaryRead, StringRead, ArrayRead
<1>8. MultiBinaryRead(p, x) = MultiBinaryRead(c, x)
  BY <1>1, Zenon DEF MultiBinaryRead, Masked, Mask
<1>9. HasStates(p) <=> HasStates(c)
  BY <1>1, Zenon DEF HasStates
<1>10. ASSUME Support(c) = "multiBinary", NEW n PROVE State(p, n) = State(c, n)
  <2>1. p.recordType \in {"mbbiDirect", "mbboDirect"} <=> c.recordType \in {"mbbiDirect", "mbboDirect"}
    BY <1>1, <1>3, <1>10
  <2>. QED
    BY <1>1, <1>9, <2>1, Zenon DEF State
<1>11. /\ Support(c) = "analog" =>
            ValueIn(c, buffer) = IF Type(c) = "float" THEN x ELSE Signed(x, Int32Bits) * k.eslo + k.eoff
       /\ Support(c) = "long" => ValueIn(c, buffer) = LongRead(c, x)
       /\ Support(c) = "binary" => ValueIn(c, buffer) = BinaryRead(c, x)
       /\ Support(c) = "multiBinary" => ValueIn(c, buffer) = State(c, MultiBinaryRead(c, x))
       /\ Support(c) = "string" => ValueIn(c, buffer) = StringRead(c, buffer)
       /\ Support(c) = "array" => ValueIn(c, buffer) = ArrayRead(c, buffer)
  BY DEF ValueIn, x
<1>. HIDE DEF k
<1>12. CASE Support(c) = "analog"
  <2>1. r = IF Type(c) = "float" THEN s ELSE [s EXCEPT !.val = s.rval * k.eslo + k.eoff]
    BY <1>1, <1>6, <1>12 DEF Processed, AiProcessRecord, Engineering
  <2>2. CASE Type(c) = "float"
    BY <1>1, <1>5, <1>11, <1>12, <2>1, <2>2 DEF p, s, buffer
  <2>3. CASE Type(c) # "float"
    <3>. DEFINE v == s.rval * k.eslo + k.eoff
    <3>1. v = ValueIn(c, buffer)
      BY <1>1, <1>5, <1>11, <1>12, <2>3
    <3>2. r = [s EXCEPT !.val = v]
      BY <2>1, <2>3
    <3>. HIDE DEF v, r
    <3>3. r.val = v
      BY <1>5, <3>2
    <3>. QED
      BY <3>1, <3>3 DEF p, s, r, buffer
  <2>. QED
    BY <2>2, <2>3
<1>13. CASE Support(c) = "multiBinary"
  <2>1. r = [s EXCEPT !.val = State(p, s.rval)]
    BY <1>1, <1>3, <1>13 DEF Processed, MultiBinaryConvert
  <2>. HIDE DEF r
  <2>2. r.val = State(p, s.rval)
    BY <1>5, <2>1
  <2>3. r.val = ValueIn(c, buffer)
    BY <1>1, <1>5, <1>8, <1>10, <1>11, <1>13, <2>2
  <2>. QED
    BY <2>3 DEF p, s, r, buffer
<1>14. CASE Support(c) \in {"long", "binary", "string", "array"}
  <2>1. r = s
    BY <1>1, <1>14 DEF Processed
  <2>2. s.val = ValueIn(c, buffer)
    BY <1>1, <1>5, <1>7, <1>11, <1>14
  <2>. QED
    BY <2>1, <2>2 DEF p, s, buffer
<1>. QED
  BY <1>3, <1>12, <1>13, <1>14 DEF Six

------------------------------------------------------------------------------
(***************************************************************************)
(* Records that have been converted for writing.                           *)
(***************************************************************************)
\* RVAL belongs to VAL.
IsConverted(c, rec) == IsRecord(c, rec) /\ Converted(c, rec) = rec

\* RVAL of a record with states or bits.
LEMMA RawState ==
  ASSUME NEW c, IsActive(c), Support(c) = "multiBinary", NEW rec, IsRecord(c, rec)
  PROVE  LET hasStates == c.recordType = "mbbo" /\ HasStates(c)
             n == IF hasStates THEN c.states[rec.val + 1] ELSE rec.val
         IN /\ rec.val = UnknownState => hasStates /\ RvalOf(c, rec) = rec.rval
            /\ rec.val # UnknownState =>
                 /\ n \in Nat /\ n * TwoTo[c.shft] \in Nat /\ rec.val \in Nat
                 /\ hasStates => rec.val + 1 \in DOMAIN c.states
                 /\ RvalOf(c, rec) = Unsigned(n * TwoTo[c.shft], Int32Bits)
            /\ RvalOf(c, rec) \in 0..(TwoTo[Int32Bits] - 1)
<1>. DEFINE hasStates == c.recordType = "mbbo" /\ HasStates(c)
            v == rec.val
            n == IF hasStates THEN c.states[v + 1] ELSE v
            P == TwoTo[c.shft]
            W == TwoTo[Int32Bits]
<1>1. c.states \in Seq(Nat) /\ Len(c.states) <= 16 /\ Len(c.states) \in Nat /\ c.shft \in Nat /\ P \in Nat
      /\ W \in Nat /\ W >= 256 /\ UnknownState = W /\ Int32Bits \in Nat
  BY Fields, TwoToIsPositive, Widths, StatesAreKnown DEF IsActive
<1>2. /\ hasStates => v \in (0..(Len(c.states) - 1)) \union {UnknownState}
      /\ ~hasStates => v \in 0..(W - 1)
  BY ValueRanges DEF IsRecord
<1>3. v = UnknownState => rec.rval \in 0..(TwoTo[BitsOf(c.dataSize)] - 1)
  BY DEF IsRecord, ReadWithoutState
<1>4. BitsOf(c.dataSize) \in 1..Int32Bits
  BY ActiveType, TypeSizes DEF Bits
<1>5. TwoTo[BitsOf(c.dataSize)] <= W /\ TwoTo[BitsOf(c.dataSize)] \in Nat
  BY <1>1, <1>4, TwoToGrows, TwoToIsPositive
<1>6. v = UnknownState => hasStates /\ c.recordType = "mbbo"
  BY <1>1, <1>2
<1>7. RvalOf(c, rec) = IF c.recordType = "mbbo" /\ v = UnknownState THEN rec.rval ELSE Unsigned(n * P, Int32Bits)
  BY DEF RvalOf
<1>8. ASSUME v # UnknownState
      PROVE  n \in Nat /\ n * P \in Nat /\ v \in Nat /\ (hasStates => v + 1 \in DOMAIN c.states)
  <2>1. v \in Nat /\ (hasStates => v + 1 \in 1..Len(c.states))
    <3>1. CASE hasStates
      <4>1. v \in 0..(Len(c.states) - 1)
        BY <1>2, <1>8, <3>1
      <4>. QED
        BY <1>1, <3>1, <4>1
    <3>2. CASE ~hasStates
      BY <1>1, <1>2, <3>2
    <3>. QED
      BY <3>1, <3>2
  <2>2. n \in Nat /\ (hasStates => v + 1 \in DOMAIN c.states)
    <3>1. CASE hasStates
      BY <1>1, <2>1, <3>1, SMTT(30)
    <3>2. CASE ~hasStates
      BY <1>1, <2>1, <3>2
    <3>. QED
      BY <3>1, <3>2
  <2>. HIDE DEF n, P
  <2>3. n * P \in Nat
    BY <1>1, <2>2
  <2>. QED
    BY <2>1, <2>2, <2>3
<1>. HIDE DEF n, P, hasStates
<1>9. v # UnknownState => RvalOf(c, rec) = Unsigned(n * P, Int32Bits) /\ Unsigned(n * P, Int32Bits) \in 0..(W - 1)
  <2>. SUFFICES ASSUME v # UnknownState PROVE RvalOf(c, rec) = Unsigned(n * P, Int32Bits)
                                             /\ Unsigned(n * P, Int32Bits) \in 0..(W - 1)
    OBVIOUS
  <2>. DEFINE q == n * P
  <2>1. q \in Int
    BY <1>8
  <2>. HIDE DEF q
  <2>2. Unsigned(q, Int32Bits) \in 0..(W - 1)
    BY <1>1, <2>1, UnsignedRange
  <2>. QED
    BY <1>7, <2>2 DEF q
<1>10. v = UnknownState => RvalOf(c, rec) = rec.rval /\ rec.rval \in 0..(W - 1)
  BY <1>1, <1>3, <1>5, <1>6, <1>7
<1>. QED
  BY <1>6, <1>8, <1>9, <1>10 DEF n, P, hasStates

\* A conversion does not change VAL, and is not repeated.
LEMMA ConvertedRecord ==
  ASSUME NEW c, IsActive(c), NEW rec, IsRecord(c, rec)
  PROVE  /\ IsConverted(c, Converted(c, rec))
         /\ Converted(c, rec).val = rec.val
         /\ Support(c) = "analog" /\ Type(c) # "float" => Converted(c, rec).rval = RawOf(c, rec.val)
         /\ Support(c) = "multiBinary" => Converted(c, rec).rval = RvalOf(c, rec)
<1>1. rec \in [val: ValueRange(c), rval: Int, bits: Int]
      /\ (Support(c) = "multiBinary" /\ rec.val = UnknownState => ReadWithoutState(c, rec))
  BY DEF IsRecord
<1>2. Support(c) \in Six
  BY ActiveType
<1>3. CASE Support(c) = "analog" /\ Type(c) # "float"
  <2>. DEFINE d == [rec EXCEPT !.rval = RawOf(c, rec.val)]
  <2>1. \A r : Converted(c, r) = [r EXCEPT !.rval = RawOf(c, r.val)]
    BY <1>3 DEF Converted
  <2>2. RawOf(c, rec.val) \in Int
    <3>1. rec.val \in Int
      BY <1>1, <1>3, ValueRanges
    <3>. QED
      BY <1>3, <3>1, ActiveType, RawValues
  <2>3. d \in [val: ValueRange(c), rval: Int, bits: Int] /\ d.val = rec.val /\ d.rval = RawOf(c, rec.val)
    BY <1>1, <2>2
  <2>4. Converted(c, rec) = d
    BY <2>1
  <2>. HIDE DEF d
  <2>5. IsRecord(c, d)
    BY <1>3, <2>3 DEF IsRecord
  <2>6. Converted(c, d) = [d EXCEPT !.rval = d.rval]
    BY <2>1, <2>3
  <2>7. [d EXCEPT !.rval = d.rval] = d
    BY <2>3
  <2>. QED
    BY <1>3, <2>3, <2>4, <2>5, <2>6, <2>7 DEF IsConverted
<1>4. CASE Support(c) = "multiBinary"
  <2>. DEFINE d == [rec EXCEPT !.rval = RvalOf(c, rec)]
  <2>1. \A r : Converted(c, r) = [r EXCEPT !.rval = RvalOf(c, r)]
    BY <1>4 DEF Converted
  <2>2. RvalOf(c, rec) \in 0..(TwoTo[Int32Bits] - 1) /\ (rec.val = UnknownState => RvalOf(c, rec) = rec.rval)
    BY <1>4, RawState
  <2>3. RvalOf(c, rec) \in Int
    BY <2>2, Widths, TwoToIsPositive
  <2>4. d \in [val: ValueRange(c), rval: Int, bits: Int] /\ d.val = rec.val /\ d.rval = RvalOf(c, rec)
    BY <1>1, <2>3
  <2>5. Converted(c, rec) = d
    BY <2>1
  <2>6. IsRecord(c, d)
    <3>1. rec.val = UnknownState => ReadWithoutState(c, d)
      BY <1>1, <1>4, <2>2, <2>4 DEF ReadWithoutState
    <3>. QED
      BY <2>4, <3>1 DEF IsRecord
  <2>7. RvalOf(c, d) = d.rval
    <3>1. CASE rec.val = UnknownState
      BY <1>4, <2>4, <2>6, <3>1, RawState
    <3>2. CASE rec.val # UnknownState
      <4>. HIDE DEF d
      <4>1. RvalOf(c, d) = RvalOf(c, rec)
        BY <2>4, <3>2 DEF RvalOf
      <4>. QED
        BY <2>4, <4>1
    <3>. QED
      BY <3>1, <3>2
  <2>. HIDE DEF d
  <2>8. [d EXCEPT !.rval = RvalOf(c, d)] = d
    BY <2>4, <2>7
  <2>. QED
    BY <1>4, <2>1, <2>4, <2>5, <2>6, <2>8 DEF IsConverted
<1>5. CASE ~(Support(c) = "analog" /\ Type(c) # "float") /\ Support(c) # "multiBinary"
  <2>1. Converted(c, rec) = rec
    BY <1>5 DEF Converted
  <2>. QED
    BY <1>5, <2>1 DEF IsConverted
<1>. QED
  BY <1>3, <1>4, <1>5

\* The number that is read where a record has written its number.
LEMMA NumberIsRead ==
  ASSUME NEW c, IsActive(c), NEW rec, IsRecord(c, rec), Support(c) \in Numeric
  PROVE  LET n == NumberOfRecord(c, rec)
             y == NumberIn(c, ReadFromRecord(c, rec))
         IN /\ n \in Int /\ y \in RangeOf(Type(c)) /\ y \in Int
            /\ n \in RangeOf(Type(c)) => y = n
            /\ y % TwoTo[Bits(Type(c))] = n % TwoTo[Bits(Type(c))]
            /\ Encode(Type(c), y) = ReadFromRecord(c, rec)
<1>. DEFINE T == Type(c)
            n == NumberOfRecord(c, rec)
<1>1. T \in PlcDataTypes
  BY ActiveType
<1>2. ReadFromRecord(c, rec) = Encode(T, n) /\ n \in Int /\ (T \in {"bool", "float"} => n \in RangeOf(T))
  BY WrittenNumber
<1>. HIDE DEF T, n
<1>. DEFINE y == Decode(T, Encode(T, n))
<1>3. /\ y \in RangeOf(T) /\ y \in Int /\ (n \in RangeOf(T) => y = n)
      /\ y % TwoTo[Bits(T)] = n % TwoTo[Bits(T)]
      /\ Encode(T, y) = Encode(T, n)
  BY <1>1, <1>2, DecodeEncoded
<1>4. NumberIn(c, ReadFromRecord(c, rec)) = y
  BY <1>2 DEF NumberIn, T
<1>. HIDE DEF y
<1>. QED
  BY <1>2, <1>3, <1>4 DEF T, n

------------------------------------------------------------------------------
(***************************************************************************)
(* What a record writes and what is read again, for each kind of record.   *)
(***************************************************************************)
\* A record shows what rec has written, if its value fits.
ShowsWritten(c, rec) == Fits(c, rec.val) => ValueIn(c, ReadFromRecord(c, rec)) = rec.val

\* A record that has read what rec has written writes the same.
WritesAgain(c, rec) ==
  \A r : /\ IsRecord(c, r)
         /\ r.val = ValueIn(c, ReadFromRecord(c, rec))
         /\ Support(c) = "multiBinary" => r.rval = MultiBinaryRead(c, NumberIn(c, ReadFromRecord(c, rec)))
         => ReadFromRecord(c, Converted(c, r)) = ReadFromRecord(c, rec)

\* The limits of a range of integers.
LEMMA LimitsOfRange ==
  ASSUME NEW m \in Int, NEW n \in Int, m <= n
  PROVE  Min(m..n) = m /\ Max(m..n) = n
<1>1. Min(m..n) = m
  <2>1. m \in m..n /\ \A y \in m..n : m <= y
    OBVIOUS
  <2>2. \A x \in m..n : (\A y \in m..n : x <= y) => x = m
    OBVIOUS
  <2>. QED
    BY <2>1, <2>2 DEF Min
<1>2. Max(m..n) = n
  <2>1. n \in m..n /\ \A y \in m..n : n >= y
    OBVIOUS
  <2>2. \A x \in m..n : (\A y \in m..n : x >= y) => x = n
    OBVIOUS
  <2>. QED
    BY <2>1, <2>2 DEF Max
<1>. QED
  BY <1>1, <1>2

\* What becomes an epicsInt32.
LEMMA SignedInt32 ==
  /\ \A x \in Int : Signed(x, Int32Bits) \in RangeOf("int32") /\ Signed(x, Int32Bits) \in Int
  /\ \A x \in RangeOf("int32") : x \in Int /\ Signed(x, Int32Bits) = x
<1>. DEFINE W == Int32Bits
            D == TwoTo[W - 1]
<1>1. W \in Nat /\ W >= 1
  BY Widths
<1>2. RangeOf("int32") = (-D)..(D - 1) /\ D \in Nat
  BY Ranges, Halves DEF Dword2, FirstSpecial
<1>3. \A x \in Int : Signed(x, W) \in (-D)..(D - 1) /\ (x \in (-D)..(D - 1) => Signed(x, W) = x)
  <2>. HIDE DEF W
  <2>. QED
    BY <1>1, SignedRange
<1>. HIDE DEF W, D
<1>4. \A x \in (-D)..(D - 1) : x \in Int
  BY <1>2
<1>. QED
  BY <1>2, <1>3, <1>4 DEF W

\* An analog record with a float.
LEMMA FloatRecord ==
  ASSUME NEW c, IsActive(c), NEW rec, IsConverted(c, rec), Support(c) = "analog", Type(c) = "float"
  PROVE  ShowsWritten(c, rec) /\ WritesAgain(c, rec)
<1>. DEFINE b == ReadFromRecord(c, rec)
            n == NumberOfRecord(c, rec)
            y == NumberIn(c, b)
<1>1. IsRecord(c, rec) /\ Support(c) \in Numeric
  BY DEF IsConverted, Numeric
<1>2. y \in RangeOf(Type(c)) /\ (n \in RangeOf(Type(c)) => y = n) /\ Encode(Type(c), y) = b
  BY <1>1, NumberIsRead
<1>3. n = rec.val
  BY DEF NumberOfRecord, AnalogWrite
<1>4. ValueIn(c, b) = y
  BY DEF ValueIn
<1>5. rec.val \in RangeOf("float")
  BY <1>1, ValueRanges DEF IsRecord
<1>6. ASSUME NEW r, r.val = y PROVE ReadFromRecord(c, Converted(c, r)) = b
  <2>1. Converted(c, r) = r
    BY DEF Converted
  <2>2. ReadFromRecord(c, r) = Encode(Type(c), r.val)
    BY DEF ReadFromRecord, AnalogWrite
  <2>. QED
    BY <1>2, <1>6, <2>1, <2>2
<1>. HIDE DEF b, n, y
<1>7. ValueIn(c, b) = rec.val
  BY <1>2, <1>3, <1>4, <1>5
<1>. QED
  BY <1>4, <1>6, <1>7 DEF ShowsWritten, WritesAgain, b

\* An analog record with a conversion to engineering units.
LEMMA AnalogRecord ==
  ASSUME NEW c, IsActive(c), NEW rec, IsConverted(c, rec), Support(c) = "analog", Type(c) # "float"
  PROVE  ShowsWritten(c, rec) /\ WritesAgain(c, rec)
<1>. DEFINE b == ReadFromRecord(c, rec)
            n == NumberOfRecord(c, rec)
            y == NumberIn(c, b)
            T == Type(c)
            s == ConversionOf(c).eslo
            o == ConversionOf(c).eoff
            low == DeviceLimits(c).low
            high == DeviceLimits(c).high
            least == TypeLimits(c).low
            greatest == TypeLimits(c).high
<1>1. IsRecord(c, rec) /\ Support(c) \in Numeric /\ T \notin {"float", "uint32"} /\ T \in PlcDataTypes
  BY ActiveType DEF IsConverted, Numeric
<1>2. y \in RangeOf(T) /\ y \in Int /\ (n \in RangeOf(T) => y = n) /\ Encode(T, y) = b /\ n \in Int
  BY <1>1, NumberIsRead
<1>3. /\ least \in Int /\ greatest \in Int /\ greatest - least >= 1
      /\ RangeOf(T) = least..greatest /\ least..greatest \subseteq RangeOf("int32")
      /\ low \in Int /\ high \in Int
      /\ s \in Nat /\ s >= 1 /\ o \in Int
      /\ c.linear /\ low # high => s = (c.eguf - c.egul) \div (high - low) /\ o = c.egul - low * s
      /\ c.linear /\ low = high => s = c.eslo /\ o = c.eoff
      /\ ~c.linear => s = 1 /\ o = 0
  BY <1>1, Slope
<1>4. \A x \in RangeOf("int32") : RawOf(c, x * s + o) = x
  BY <1>1, RawValues
<1>5. \A x \in RangeOf("int32") : Signed(x, Int32Bits) = x
  BY SignedInt32
<1>6. \A v : AnalogWrite(c, v) = IF T = "bool" THEN (IF v.rval # 0 THEN 1 ELSE 0) ELSE v.rval
  BY <1>1 DEF AnalogWrite
<1>7. \A v : v.rval \in RangeOf(T) => AnalogWrite(c, v) = v.rval
  BY <1>6, Ranges
<1>8. n = AnalogWrite(c, rec) /\ \A r : ReadFromRecord(c, r) = Encode(T, AnalogWrite(c, r))
  BY DEF NumberOfRecord, ReadFromRecord
<1>9. ValueIn(c, b) = Signed(y, Int32Bits) * s + o
  BY DEF ValueIn
\* The raw values that EngineeringValues takes for those of EGUL and EGUF.
<1>13. /\ low = IF c.limits = {} THEN Min(RangeOf(T)) ELSE (CHOOSE l \in c.limits : TRUE).low
       /\ high = IF c.limits = {} THEN Max(RangeOf(T)) ELSE (CHOOSE l \in c.limits : TRUE).high
  <2>1. CASE c.limits = {}
    <3>1. low = least /\ high = greatest
      BY <2>1 DEF DeviceLimits
    <3>2. Min(RangeOf(T)) = least /\ Max(RangeOf(T)) = greatest
      BY <1>3, LimitsOfRange
    <3>. QED
      BY <2>1, <3>1, <3>2
  <2>2. CASE c.limits # {}
    BY <2>2 DEF DeviceLimits
  <2>. QED
    BY <2>1, <2>2
<1>14. EngineeringValues(c) =
         IF low = high THEN {x * c.eslo + c.eoff : x \in RangeOf(T)}
         ELSE {c.egul + (x - low) * ((c.eguf - c.egul) \div (high - low)) : x \in RangeOf(T)}
  <2>. DEFINE L == IF c.limits = {} THEN Min(RangeOf(T)) ELSE (CHOOSE l \in c.limits : TRUE).low
               H == IF c.limits = {} THEN Max(RangeOf(T)) ELSE (CHOOSE l \in c.limits : TRUE).high
  <2>2. EngineeringValues(c) =
          IF L = H THEN {x * c.eslo + c.eoff : x \in RangeOf(T)}
          ELSE {c.egul + (x - L) * ((c.eguf - c.egul) \div (H - L)) : x \in RangeOf(T)}
    BY DEF EngineeringValues
  <2>3. L = low /\ H = high
    BY <1>13
  <2>. HIDE DEF L, H, low, high
  <2>. QED
    BY <2>2, <2>3
<1>. HIDE DEF b, n, y, T, s, o, low, high, least, greatest
<1>10. ValueIn(c, b) = y * s + o
  BY <1>2, <1>3, <1>5, <1>9
<1>11. ASSUME Fits(c, rec.val) PROVE ValueIn(c, b) = rec.val
  <2>1. \E x \in RangeOf(T) : rec.val = x * s + o
    <3>1. CASE c.linear /\ low # high
      <4>1. rec.val \in EngineeringValues(c)
        BY <1>11, <3>1 DEF Fits
      <4>4. EngineeringValues(c) = {c.egul + (x - low) * s : x \in RangeOf(T)}
        BY <1>3, <1>14, <3>1
      <4>5. PICK x \in RangeOf(T) : rec.val = c.egul + (x - low) * s
        BY <4>1, <4>4
      <4>6. x \in Int /\ c.egul \in Int
        BY <1>3, <4>5, Fields DEF IsActive
      <4>7. (x - low) * s = x * s - low * s
        BY <1>3, <4>6
      <4>8. x * s \in Int /\ low * s \in Int
        BY <1>3, <4>6
      <4>9. rec.val = x * s + o
        BY <1>3, <3>1, <4>5, <4>6, <4>7, <4>8
      <4>. QED
        BY <4>9
    <3>3. CASE c.linear /\ low = high
      <4>1. rec.val \in EngineeringValues(c)
        BY <1>11, <3>3 DEF Fits
      <4>2. EngineeringValues(c) = {x * s + o : x \in RangeOf(T)}
        BY <1>3, <1>14, <3>3
      <4>. QED
        BY <4>1, <4>2
    <3>2. CASE ~c.linear
      <4>1. rec.val \in RangeOf(T)
        BY <1>11, <3>2 DEF Fits, T
      <4>2. rec.val = rec.val * s + o
        BY <1>3, <3>2, <4>1
      <4>. QED
        BY <4>1, <4>2
    <3>. QED
      BY <3>1, <3>2, <3>3
  <2>2. PICK x \in RangeOf(T) : rec.val = x * s + o
    BY <2>1
  <2>3. rec.rval = RawOf(c, rec.val)
    BY <1>1, ConvertedRecord DEF IsConverted, T
  <2>4. rec.rval = x
    BY <1>3, <1>4, <2>2, <2>3
  <2>5. y = x
    BY <1>2, <1>7, <1>8, <2>2, <2>4
  <2>. QED
    BY <1>10, <2>2, <2>5
<1>12. ASSUME NEW r, IsRecord(c, r), r.val = y * s + o PROVE ReadFromRecord(c, Converted(c, r)) = b
  <2>1. Converted(c, r).rval = RawOf(c, r.val)
    BY <1>1, <1>12, ConvertedRecord DEF T
  <2>2. Converted(c, r).rval = y
    BY <1>2, <1>3, <1>4, <1>12, <2>1
  <2>3. AnalogWrite(c, Converted(c, r)) = y
    BY <1>2, <1>7, <2>2
  <2>. QED
    BY <1>2, <1>8, <2>3
<1>. QED
  BY <1>10, <1>11, <1>12 DEF ShowsWritten, WritesAgain, b

\* A longout record.
LEMMA LongRecord ==
  ASSUME NEW c, IsActive(c), NEW rec, IsConverted(c, rec), Support(c) = "long"
  PROVE  ShowsWritten(c, rec) /\ WritesAgain(c, rec)
<1>. DEFINE b == ReadFromRecord(c, rec)
            n == NumberOfRecord(c, rec)
            y == NumberIn(c, b)
            T == Type(c)
<1>1. IsRecord(c, rec) /\ Support(c) \in Numeric /\ T \notin {"float", "uint32"} /\ T \in PlcDataTypes
  BY ActiveType DEF IsConverted, Numeric
<1>2. y \in RangeOf(T) /\ y \in Int /\ (n \in RangeOf(T) => y = n) /\ Encode(T, y) = b
  BY <1>1, NumberIsRead
<1>3. RangeOf(T) \subseteq RangeOf("int32")
  <2>1. T \in PlcDataTypes /\ T \notin {"uint32", "float"}
    BY <1>1
  <2>. QED
    BY <2>1, SmallRanges
<1>4. Signed(y, Int32Bits) = y
  BY <1>2, <1>3, SignedInt32
<1>5. \A v : v.val \in RangeOf(T) => LongWrite(c, v) = v.val
  BY Ranges DEF LongWrite
<1>6. /\ n = LongWrite(c, rec)
      /\ \A r : ReadFromRecord(c, r) = Encode(T, LongWrite(c, r)) /\ Converted(c, r) = r
      /\ ValueIn(c, b) = Signed(y, Int32Bits)
      /\ Fits(c, rec.val) => rec.val \in RangeOf(T)
  BY DEF NumberOfRecord, ReadFromRecord, Converted, ValueIn, LongRead, Fits
<1>. HIDE DEF b, n, y, T
<1>7. ASSUME Fits(c, rec.val) PROVE ValueIn(c, b) = rec.val
  BY <1>2, <1>4, <1>5, <1>6, <1>7
<1>8. ASSUME NEW r, r.val = y PROVE ReadFromRecord(c, Converted(c, r)) = b
  <2>1. LongWrite(c, r) = y
    BY <1>2, <1>5, <1>8
  <2>. QED
    BY <1>2, <1>6, <2>1
<1>. QED
  BY <1>4, <1>6, <1>7, <1>8 DEF ShowsWritten, WritesAgain, b

\* A bo record.
LEMMA BinaryRecord ==
  ASSUME NEW c, IsActive(c), NEW rec, IsConverted(c, rec), Support(c) = "binary"
  PROVE  ShowsWritten(c, rec) /\ WritesAgain(c, rec)
<1>. DEFINE b == ReadFromRecord(c, rec)
            n == NumberOfRecord(c, rec)
            y == NumberIn(c, b)
            T == Type(c)
<1>1. IsRecord(c, rec) /\ Support(c) \in Numeric /\ T \in PlcDataTypes
  BY ActiveType DEF IsConverted, Numeric
<1>2. (n \in RangeOf(T) => y = n) /\ Encode(T, y) = b
  BY <1>1, NumberIsRead
<1>3. rec.val \in {0, 1}
  BY <1>1, ValueRanges DEF IsRecord
<1>4. /\ n = BinaryWrite(rec)
      /\ \A r : ReadFromRecord(c, r) = Encode(T, BinaryWrite(r)) /\ Converted(c, r) = r
      /\ ValueIn(c, b) = BinaryRead(c, y)
  BY DEF NumberOfRecord, ReadFromRecord, Converted, ValueIn
<1>5. n = rec.val
  BY <1>3, <1>4 DEF BinaryWrite
<1>6. y = rec.val
  <2>1. n \in RangeOf(T)
    BY <1>1, <1>3, <1>5, ZeroAndOne
  <2>. QED
    BY <1>2, <1>5, <2>1
<1>7. BinaryRead(c, y) = rec.val
  <2>1. NaN \in Nat /\ Inf \in Nat /\ NaN >= 256 /\ Inf >= 256
    BY SpecialNumbers
  <2>. HIDE DEF y
  <2>2. CASE rec.val = 0
    BY <1>6, <2>1, <2>2 DEF BinaryRead, Differs
  <2>3. CASE rec.val = 1
    BY <1>6, <2>1, <2>3 DEF BinaryRead, Differs
  <2>. QED
    BY <1>3, <2>2, <2>3
<1>. HIDE DEF b, n, y, T
<1>8. ASSUME NEW r, r.val = rec.val PROVE ReadFromRecord(c, Converted(c, r)) = b
  <2>1. BinaryWrite(r) = y
    BY <1>3, <1>6, <1>8 DEF BinaryWrite
  <2>. QED
    BY <1>2, <1>4, <2>1
<1>. QED
  BY <1>4, <1>7, <1>8 DEF ShowsWritten, WritesAgain, b

\* A stringout record.
LEMMA StringRecord ==
  ASSUME NEW c, IsActive(c), NEW rec, IsConverted(c, rec), Support(c) = "string"
  PROVE  ShowsWritten(c, rec) /\ WritesAgain(c, rec)
<1>. DEFINE b == ReadFromRecord(c, rec)
<1>1. IsRecord(c, rec)
  BY DEF IsConverted
<1>2. /\ \A r : ReadFromRecord(c, r) = StringWrite(c, r.val) /\ Converted(c, r) = r
      /\ ValueIn(c, b) = StringRead(c, b)
  BY DEF ReadFromRecord, Converted, ValueIn
<1>3. CASE Type(c) = "bool"
  <2>. DEFINE bit(v) == IF v = TrueString THEN 1 ELSE 0
  <2>1. \A r : ReadFromRecord(c, r) = <<bit(r.val)>>
    BY <1>2, <1>3 DEF StringWrite
  <2>2. ValueIn(c, b) = IF b[1] # 0 THEN TrueString ELSE FalseString
    BY <1>2, <1>3 DEF StringRead
  <2>3. b[1] = bit(rec.val)
    BY <2>1
  <2>4. TrueString # FalseString
    BY DEF TrueString, FalseString
  <2>5. bit(ValueIn(c, b)) = bit(rec.val) /\ (rec.val \in {TrueString, FalseString} => ValueIn(c, b) = rec.val)
    BY <2>2, <2>3, <2>4
  <2>6. Fits(c, rec.val) => rec.val \in {TrueString, FalseString}
    BY <1>3 DEF Fits
  <2>. HIDE DEF bit, b
  <2>7. \A r : r.val = ValueIn(c, b) => ReadFromRecord(c, Converted(c, r)) = b
    BY <1>2, <2>1, <2>5 DEF b
  <2>. QED
    BY <2>5, <2>6, <2>7 DEF ShowsWritten, WritesAgain, b
<1>4. CASE Type(c) # "bool"
  <2>1. rec.val \in Strings
    BY <1>1, <1>4, ValueRanges DEF IsRecord
  <2>2. b = StringBytes(rec.val) /\ ValueIn(c, b) = StringOf(b)
    BY <1>2, <1>4 DEF StringWrite, StringRead
  <2>3. ValueIn(c, b) = rec.val
    BY <2>1, <2>2, StringIsWritten
  <2>4. \A r : r.val = rec.val => ReadFromRecord(c, Converted(c, r)) = b
    BY <1>2
  <2>. QED
    BY <2>3, <2>4 DEF ShowsWritten, WritesAgain
<1>. QED
  BY <1>3, <1>4

\* An array of strings.
LEMMA StringsRecord ==
  ASSUME NEW c, IsActive(c), NEW rec, IsConverted(c, rec), Support(c) = "array", c.ftvl = "STRING"
  PROVE  ShowsWritten(c, rec) /\ WritesAgain(c, rec)
<1>. DEFINE b == ReadFromRecord(c, rec)
            n == c.nelm
            M == MaxStringSize
            v == rec.val
            parts == [i \in 1..n |-> StringBytes(v[i])]
<1>1. /\ \A r : ReadFromRecord(c, r) = ArrayWrite(c, r.val) /\ Converted(c, r) = r
      /\ ValueIn(c, b) = ArrayRead(c, b)
  BY DEF ReadFromRecord, Converted, ValueIn
<1>2. n \in Nat /\ n >= 1 /\ M \in Nat /\ M >= 1 /\ c.ftvl \in ElementTypes
  BY Fields, SizeAssumption DEF IsActive
<1>3. Type(c) # "bool"
  BY <1>2, ActiveType, ArrayOutTypes
<1>4. v \in [1..n -> Strings]
  BY ValueRanges, ElementRanges DEF IsConverted, IsRecord
<1>5. b = Joined(parts, M) /\ ValueIn(c, b) = [i \in 1..n |-> StringOf(Part(b, i, M))]
  BY <1>1, <1>3 DEF ArrayWrite, ArrayRead
<1>6. \A i \in 1..n : parts[i] \in [1..M -> Bytes] /\ StringOf(parts[i]) = v[i]
  BY <1>4, StringIsWritten
<1>7. parts \in [1..n -> [1..M -> Bytes]]
  BY <1>6
<1>. HIDE DEF parts, n, M, b, v
<1>8. \A i \in 1..n : Part(b, i, M) = parts[i]
  <2>0. n \in Nat /\ M \in Nat /\ M >= 1
    BY <1>2
  <2>1. \A i \in 1..n : Part(Joined(parts, M), i, M) = parts[i]
    BY <2>0, <1>7, JoinedParts
  <2>. QED
    BY <1>5, <2>1
<1>9. [i \in 1..n |-> StringOf(Part(b, i, M))] = [i \in 1..n |-> v[i]]
  BY <1>6, <1>8
<1>10. ValueIn(c, b) = v
  BY <1>4, <1>5, <1>9
<1>11. \A r : r.val = v => ReadFromRecord(c, Converted(c, r)) = b
  BY <1>1 DEF b, v
<1>. QED
  BY <1>10, <1>11 DEF ShowsWritten, WritesAgain, b, v

\* An array of bits.
LEMMA BitsRecord ==
  ASSUME NEW c, IsActive(c), NEW rec, IsConverted(c, rec), Support(c) = "array", c.ftvl # "STRING",
         Type(c) = "bool"
  PROVE  ShowsWritten(c, rec) /\ WritesAgain(c, rec)
<1>. DEFINE b == ReadFromRecord(c, rec)
            n == c.nelm
            v == rec.val
            bit(x) == IF x # 0 THEN 1 ELSE 0
            size(f) == (Len(f) + ByteBits - 1) \div ByteBits
            at(i, j) == (i - 1) * ByteBits + j + 1
            set(f, i) == {j \in 0..(ByteBits - 1) : at(i, j) <= Len(f) /\ f[at(i, j)] # 0}
<1>1. /\ \A r : ReadFromRecord(c, r) = ArrayWrite(c, r.val) /\ Converted(c, r) = r
      /\ ValueIn(c, b) = ArrayRead(c, b)
      /\ Fits(c, v) => \A i \in DOMAIN v : v[i] \in {0, 1}
  BY DEF ReadFromRecord, Converted, ValueIn, Fits
<1>2. n \in Nat /\ n >= 1 /\ c.ftvl \in ElementTypes
  BY Fields DEF IsActive
<1>3. v \in [1..n -> ElementRange(c.ftvl)]
  BY ValueRanges DEF IsConverted, IsRecord
<1>4. v \in [1..n -> Int]
  BY <1>2, <1>3, ElementsAreNumbers
<1>5. v \in Seq(Int) /\ Len(v) = n
  BY <1>2, <1>4, SequenceOf
<1>6. /\ \A r : ReadFromRecord(c, r) = PackBits(r.val)
      /\ ValueIn(c, b) = UnpackBits(b, n)
  BY <1>1 DEF ArrayWrite, ArrayRead
<1>7. \A i \in 1..n : UnpackBits(PackBits(v), n)[i] = bit(v[i])
  BY <1>2, <1>5, PackedBits
<1>8. ValueIn(c, b) = [i \in 1..n |-> bit(v[i])]
  <2>1. \E f : UnpackBits(b, n) = [i \in 1..n |-> f[i]]
    <3>. DEFINE g == [i \in 1..n |-> (b[(i - 1) \div ByteBits + 1] \div TwoTo[(i - 1) % ByteBits]) % 2]
    <3>1. UnpackBits(b, n) = g
      BY DEF UnpackBits
    <3>2. g = [i \in 1..n |-> g[i]]
      BY Zenon
    <3>. QED
      BY <3>1, <3>2, Zenon
  <2>2. PICK f : UnpackBits(b, n) = [i \in 1..n |-> f[i]]
    BY <2>1
  <2>3. b = PackBits(v)
    BY <1>6
  <2>. HIDE DEF b, n, v, bit
  <2>4. \A i \in 1..n : f[i] = bit(v[i])
    BY <1>7, <2>2, <2>3
  <2>5. [i \in 1..n |-> f[i]] = [i \in 1..n |-> bit(v[i])]
    BY <2>4
  <2>. QED
    BY <1>6, <2>2, <2>5
<1>9. \A f : PackBits(f) = [i \in 1..size(f) |-> NumberOf(set(f, i))]
  BY Zenon DEF PackBits
<1>10. ASSUME Fits(c, v) PROVE ValueIn(c, b) = v
  <2>1. \A i \in 1..n : v[i] \in {0, 1}
    BY <1>1, <1>4, <1>10
  <2>2. \A i \in 1..n : bit(v[i]) = v[i]
    BY <2>1
  <2>. HIDE DEF bit, v, n, b
  <2>3. [i \in 1..n |-> bit(v[i])] = [i \in 1..n |-> v[i]]
    BY <2>2
  <2>. QED
    BY <1>4, <1>8, <2>3
<1>11. PackBits([i \in 1..n |-> bit(v[i])]) = PackBits(v)
  <2>. DEFINE w == [i \in 1..n |-> bit(v[i])]
  <2>1. w \in [1..n -> Int] /\ \A i \in 1..n : w[i] # 0 <=> v[i] # 0
    BY <1>4
  <2>. HIDE DEF w
  <2>2. w \in Seq(Int) /\ Len(w) = n
    BY <1>2, <2>1, SequenceOf
  <2>3. size(w) = size(v) /\ size(v) \in Nat
    BY <1>2, <1>5, <2>2, BytesForBits
  <2>4. ASSUME NEW i \in 1..size(v) PROVE set(w, i) = set(v, i)
    <3>1. ASSUME NEW j \in 0..(ByteBits - 1)
          PROVE  at(i, j) <= n /\ w[at(i, j)] # 0 <=> at(i, j) <= n /\ v[at(i, j)] # 0
      <4>. DEFINE k == at(i, j)
                  p == (i - 1) * ByteBits
      <4>1. p \in Int /\ p >= 0
        <5>1. i - 1 \in Int /\ 0 <= i - 1 /\ ByteBits \in Nat /\ 0 * ByteBits = 0
          BY <2>3, Widths
        <5>2. 0 * ByteBits <= (i - 1) * ByteBits /\ (i - 1) * ByteBits \in Int
          BY <5>1, Products
        <5>. QED
          BY <5>1, <5>2
      <4>2. k = p + j + 1
        OBVIOUS
      <4>. HIDE DEF p, k
      <4>3. k \in Int /\ k >= 1
        BY <4>1, <4>2, Widths
      <4>4. k <= n => k \in 1..n
        BY <1>2, <4>3
      <4>5. k <= n => (w[k] # 0 <=> v[k] # 0)
        BY <2>1, <4>4
      <4>. QED
        BY <4>5 DEF k
    <3>. HIDE DEF at
    <3>. QED
      BY <1>5, <2>2, <3>1
  <2>. HIDE DEF size, set
  <2>5. [i \in 1..size(w) |-> NumberOf(set(w, i))] = [i \in 1..size(v) |-> NumberOf(set(v, i))]
    BY <2>3, <2>4
  <2>6. PackBits(w) = PackBits(v)
    BY <1>9, <2>5, Zenon
  <2>. QED
    BY <2>6 DEF w
<1>12. \A r : r.val = ValueIn(c, b) => ReadFromRecord(c, Converted(c, r)) = b
  <2>. DEFINE w == [i \in 1..n |-> bit(v[i])]
  <2>1. b = PackBits(v)
    BY <1>6
  <2>2. PackBits(w) = PackBits(v) /\ ValueIn(c, b) = w
    BY <1>8, <1>11
  <2>. HIDE DEF w, v, b
  <2>. QED
    BY <1>1, <1>6, <2>1, <2>2
<1>. HIDE DEF b
<1>. QED
  BY <1>10, <1>12 DEF ShowsWritten, WritesAgain, b

\* An array of numbers.
LEMMA NumbersRecord ==
  ASSUME NEW c, IsActive(c), NEW rec, IsConverted(c, rec), Support(c) = "array", c.ftvl # "STRING",
         Type(c) # "bool"
  PROVE  ShowsWritten(c, rec) /\ WritesAgain(c, rec)
<1>. DEFINE b == ReadFromRecord(c, rec)
            n == c.nelm
            size == BytesOf(c.dataSize)
            v == rec.val
            T == Type(c)
            ft == c.ftvl
            parts == [i \in 1..n |-> Encode(T, v[i])]
<1>1. /\ \A r : ReadFromRecord(c, r) = ArrayWrite(c, r.val) /\ Converted(c, r) = r
      /\ ValueIn(c, b) = ArrayRead(c, b)
  BY DEF ReadFromRecord, Converted, ValueIn
<1>2. n \in Nat /\ n >= 1 /\ ft \in ElementTypes \ {"STRING"}
  BY Fields DEF IsActive
<1>3. T \in PlcDataTypes /\ SizeOfType(T) = c.dataSize /\ T # "bool"
      /\ T \in ArrayType(c.requested, c.dataSize, ArrayOutRequested(ft), ArrayOutDefault(ft))
  BY ActiveType
<1>4. v \in [1..n -> ElementRange(ft)]
  BY ValueRanges DEF IsConverted, IsRecord
<1>5. ft \in {"LONG", "ULONG"} => T # "float"
  BY DEF IsActive, IsConfiguration
<1>6. b = Joined(parts, size)
      /\ ValueIn(c, b) = [i \in 1..n |-> ElementOf(ft, Decode(T, Part(b, i, size)))]
  BY <1>1 DEF ArrayWrite, ArrayRead
<1>7. size \in Nat /\ size >= 1 /\ size = BytesOf(SizeOfType(T))
  BY <1>3, TypeSizes
<1>. HIDE DEF T, n, size, ft, b, v
<1>8. ASSUME NEW i \in 1..n
      PROVE  Encode(T, v[i]) \in [1..size -> Bytes] /\ ElementOf(ft, Decode(T, Encode(T, v[i]))) = v[i]
  <2>. DEFINE x == v[i]
  <2>1. x \in ElementRange(ft)
    BY <1>4
  <2>. HIDE DEF x
  <2>2. x \in RangeOf(T) /\ x \in Int
    BY <1>2, <1>3, <1>5, <2>1, PlcHoldsElements
  <2>3. PatternOf(T, x) \in Int
    BY <2>2, FloatIsKept DEF PatternOf
  <2>4. Encode(T, x) \in [1..size -> Bytes]
    BY <1>3, <1>7, <2>3, EncodeBytes
  <2>5. Decode(T, Encode(T, x)) = x
    BY <1>3, <2>2, DecodeEncoded
  <2>6. ElementOf(ft, x) = x
    <3>1. ft \in {"FLOAT", "DOUBLE"} => x \in RangeOf("float")
      BY <2>1, ElementRanges
    <3>. QED
      BY <1>2, <2>1, <2>2, <3>1, Elements
  <2>. QED
    BY <2>4, <2>5, <2>6 DEF x
<1>9. parts \in [1..n -> [1..size -> Bytes]] /\ \A i \in 1..n : parts[i] = Encode(T, v[i])
  BY <1>8
<1>. HIDE DEF parts
<1>10. \A i \in 1..n : Part(b, i, size) = parts[i]
  <2>1. \A i \in 1..n : Part(Joined(parts, size), i, size) = parts[i]
    BY <1>2, <1>7, <1>9, JoinedParts
  <2>. QED
    BY <1>6, <2>1
<1>11. \A i \in 1..n : ElementOf(ft, Decode(T, Part(b, i, size))) = v[i]
  BY <1>8, <1>9, <1>10
<1>12. [i \in 1..n |-> ElementOf(ft, Decode(T, Part(b, i, size)))] = [i \in 1..n |-> v[i]]
  BY <1>11
<1>13. ValueIn(c, b) = v
  BY <1>4, <1>6, <1>12
<1>14. \A r : r.val = v => ReadFromRecord(c, Converted(c, r)) = b
  BY <1>1 DEF b, v
<1>. QED
  BY <1>13, <1>14 DEF ShowsWritten, WritesAgain, b, v

------------------------------------------------------------------------------
(***************************************************************************)
(* Records with states or bits.                                            *)
(***************************************************************************)
\* A quotient of natural numbers.
LEMMA Quotient ==
  ASSUME NEW n \in Nat, NEW d \in Nat, d >= 1
  PROVE  n \div d \in 0..n
<1>. DEFINE q == n \div d
            r == n % d
<1>1. q \in Int /\ r \in 0..(d - 1) /\ n = q * d + r
  BY Division
<1>. HIDE DEF q, r
<1>2. q >= 0
  <2>1. CASE q < 0
    <3>1. q * d <= (-1) * d /\ q * d \in Int
      BY <1>1, <2>1, Products
    <3>. QED
      BY <1>1, <3>1
  <2>. QED
    BY <1>1, <2>1
<1>3. 1 * q <= d * q /\ d * q = q * d /\ q * d \in Int
  <2>1. q \in Nat /\ 1 \in Int /\ d \in Int /\ 1 <= d
    BY <1>1, <1>2
  <2>2. 1 * q <= d * q
    BY <2>1, Products
  <2>. QED
    BY <1>1, <2>2
<1>4. q <= n
  BY <1>1, <1>3
<1>. QED
  BY <1>1, <1>2, <1>4 DEF q

\* The widths of a record with states or bits.
LEMMA StateWidths ==
  ASSUME NEW c, IsActive(c), Support(c) = "multiBinary"
  PROVE  LET D == BitsOf(c.dataSize)
         IN /\ D = Bits(Type(c)) /\ D \in 0..Int32Bits /\ D \in Nat
            /\ D = ByteBits * BytesOf(SizeOfType(Type(c)))
            /\ TwoTo[D] \in Nat /\ TwoTo[D] >= 1 /\ TwoTo[D] <= TwoTo[Int32Bits]
            /\ TwoTo[Int32Bits] \in Nat /\ UnknownState = TwoTo[Int32Bits] /\ TwoTo[Int32Bits] >= 256
            /\ Int32Bits \in Nat /\ Int32Bits \in 0..Int32Bits
            /\ c.shft \in Nat /\ TwoTo[c.shft] \in Nat /\ TwoTo[c.shft] >= 1
            /\ c.shft = 0 => TwoTo[c.shft] = 1
            /\ c.states \in Seq(Nat) /\ Len(c.states) \in Nat /\ Len(c.states) <= 16
            /\ Type(c) \in PlcDataTypes /\ Type(c) \notin {"bool", "float"}
            /\ c.recordType \in {"mbbo", "mbboDirect"}
            /\ Support(c) \in Numeric
<1>. DEFINE D == BitsOf(c.dataSize)
            T == Type(c)
<1>1. T \in PlcDataTypes /\ T \notin {"bool", "float"} /\ SizeOfType(T) = c.dataSize
      /\ c.recordType \in {"mbbo", "mbboDirect"}
  BY ActiveType
<1>2. D = Bits(T) /\ D = ByteBits * BytesOf(SizeOfType(T)) /\ D \in 1..Int32Bits
  BY <1>1, TypeSizes DEF Bits
<1>3. Int32Bits \in Nat /\ c.shft \in Nat /\ c.states \in Seq(Nat) /\ Len(c.states) <= 16
  BY Widths, Fields DEF IsActive
<1>4. TwoTo[D] <= TwoTo[Int32Bits] /\ TwoTo[D] \in Nat /\ TwoTo[D] >= 1
  BY <1>2, <1>3, TwoToGrows, TwoToIsPositive
<1>5. TwoTo[c.shft] \in Nat /\ TwoTo[c.shft] >= 1 /\ TwoTo[0] = 1
  BY <1>3, TwoToIsPositive, TwoToStep
<1>6. Support(c) \in Numeric
  BY DEF Numeric
<1>. QED
  BY <1>1, <1>2, <1>3, <1>4, <1>5, <1>6, StatesAreKnown

\* The value of a number.
LEMMA StateOf ==
  ASSUME NEW c, IsActive(c), Support(c) = "multiBinary", NEW m \in 0..(TwoTo[Int32Bits] - 1)
  PROVE  LET hasStates == c.recordType = "mbbo" /\ HasStates(c)
             v == State(c, m)
             n == m \div TwoTo[c.shft]
         IN /\ n \in 0..(TwoTo[Int32Bits] - 1)
            /\ ~hasStates => v = n /\ v # UnknownState
            /\ hasStates /\ v = UnknownState => \A i \in DOMAIN c.states : c.states[i] # n
            /\ hasStates /\ v # UnknownState =>
                 /\ v \in 0..(Len(c.states) - 1)
                 /\ c.states[v + 1] = n
            /\ \A k \in 0..(Len(c.states) - 1) :
                 hasStates /\ c.states[k + 1] = n /\ (\A i \in 1..k : c.states[i] # n) => v = k
<1>. DEFINE hasStates == c.recordType = "mbbo" /\ HasStates(c)
            v == State(c, m)
            P == TwoTo[c.shft]
            n == m \div P
            W == TwoTo[Int32Bits]
            matches == {i \in DOMAIN c.states : c.states[i] = n}
            l == Len(c.states)
<1>1. /\ W \in Nat /\ UnknownState = W /\ W >= 256 /\ P \in Nat /\ P >= 1
      /\ c.states \in Seq(Nat) /\ l \in Nat /\ l <= 16 /\ c.recordType \in {"mbbo", "mbboDirect"}
  BY StateWidths
<1>2. n \in 0..(W - 1)
  <2>. HIDE DEF P, W
  <2>1. m \in Nat /\ m <= W - 1
    BY <1>1 DEF W
  <2>2. m \div P \in 0..m
    BY <1>1, <2>1, Quotient
  <2>. QED
    BY <1>1, <2>1, <2>2
<1>3. /\ ~hasStates => v = n
      /\ hasStates => v = IF matches = {} THEN UnknownState ELSE Min(matches) - 1
  BY <1>1 DEF State
<1>4. DOMAIN c.states = 1..l /\ matches \subseteq 1..l /\ matches \subseteq Nat
  BY <1>1
<1>. HIDE DEF n, P, W, v, hasStates, l
<1>5. matches # {} => Min(matches) \in matches /\ Min(matches) \in 1..l /\ c.states[Min(matches)] = n
  <2>. SUFFICES ASSUME matches # {} PROVE Min(matches) \in matches
    BY <1>4
  <2>. HIDE DEF matches
  <2>. QED
    BY <1>4, LeastElement
<1>6. matches = {} => \A i \in DOMAIN c.states : c.states[i] # n
  OBVIOUS
<1>7. ASSUME hasStates, v # UnknownState
      PROVE  v \in 0..(l - 1) /\ c.states[v + 1] = n
  <2>1. matches # {}
    BY <1>3, <1>7
  <2>. DEFINE k == Min(matches)
  <2>2. k \in 1..l /\ c.states[k] = n /\ v = k - 1
    BY <1>3, <1>5, <1>7, <2>1
  <2>. HIDE DEF k
  <2>3. (k - 1) + 1 = k /\ k - 1 \in 0..(l - 1)
    BY <1>1, <2>2 DEF l
  <2>. QED
    BY <2>2, <2>3
<1>8. ASSUME hasStates, v = UnknownState
      PROVE  matches = {}
  <2>1. CASE matches # {}
    <3>. DEFINE k == Min(matches)
    <3>1. k \in 1..l /\ v = k - 1
      BY <1>3, <1>5, <1>8, <2>1
    <3>. HIDE DEF k
    <3>. QED
      BY <1>1, <1>8, <3>1 DEF l
  <2>. QED
    BY <2>1
<1>9. ASSUME NEW k \in 0..(l - 1), hasStates, c.states[k + 1] = n, \A i \in 1..k : c.states[i] # n
      PROVE  v = k
  <2>1. k + 1 \in 1..l /\ k \in Nat
    BY <1>1 DEF l
  <2>2. k + 1 \in matches
    BY <1>4, <1>9, <2>1
  <2>3. \A j \in matches : k + 1 <= j
    <3>. TAKE j \in matches
    <3>1. j \in 1..l /\ c.states[j] = n
      BY <1>4
    <3>2. j \notin 1..k
      BY <1>9, <3>1
    <3>. QED
      BY <2>1, <3>1, <3>2
  <2>. HIDE DEF matches
  <2>4. Min(matches) = k + 1
    BY <1>4, <2>2, <2>3, LeastIs
  <2>5. v = Min(matches) - 1
    BY <1>3, <1>9, <2>2
  <2>. QED
    BY <2>1, <2>4, <2>5
<1>10. ~hasStates => v # UnknownState
  BY <1>1, <1>2, <1>3
<1>. HIDE DEF matches
<1>. QED
  BY <1>2, <1>3, <1>6, <1>7, <1>8, <1>9, <1>10 DEF n, P, W, v, hasStates, l

\* What is read of the number that a record has written.
LEMMA StateIsRead ==
  ASSUME NEW c, IsActive(c), Support(c) = "multiBinary", NEW rec, IsRecord(c, rec)
  PROVE  LET D == BitsOf(c.dataSize)
             b == ReadFromRecord(c, rec)
             n == MultiBinaryWrite(c, rec)
             m == MultiBinaryRead(c, NumberIn(c, b))
         IN /\ n \in Int /\ m = Masked(c, n % TwoTo[D])
            /\ m \in 0..(TwoTo[D] - 1) /\ m \in 0..(TwoTo[Int32Bits] - 1)
            /\ Masked(c, m) = m
            /\ ValueIn(c, b) = State(c, m)
            /\ \A k \in Int : k % TwoTo[D] = n % TwoTo[D] => Encode(Type(c), k) = b
<1>. DEFINE D == BitsOf(c.dataSize)
            W == Int32Bits
            b == ReadFromRecord(c, rec)
            n == MultiBinaryWrite(c, rec)
            y == NumberIn(c, b)
            m == MultiBinaryRead(c, y)
            T == Type(c)
<1>1. /\ D = Bits(T) /\ D \in 0..W /\ D = ByteBits * BytesOf(SizeOfType(T)) /\ D \in Nat
      /\ TwoTo[D] \in Nat /\ TwoTo[D] >= 1 /\ TwoTo[D] <= TwoTo[W] /\ TwoTo[W] \in Nat
      /\ T \in PlcDataTypes /\ T \notin {"bool", "float"} /\ Support(c) \in Numeric
  BY StateWidths
<1>2. NumberOfRecord(c, rec) = n
  BY DEF NumberOfRecord
<1>3. n \in Int /\ y \in Int /\ y % TwoTo[D] = n % TwoTo[D]
  BY <1>1, <1>2, NumberIsRead
<1>4. b = Encode(T, n)
  BY <1>1, <1>2, WrittenNumber
<1>5. m = Masked(c, y % TwoTo[D])
  BY DEF MultiBinaryRead, Unsigned
<1>6. ValueIn(c, b) = State(c, m)
  BY DEF ValueIn
<1>. HIDE DEF D, W, b, n, y, m, T
<1>7. m = Masked(c, n % TwoTo[D])
  BY <1>3, <1>5
<1>. DEFINE x == n % TwoTo[D]
<1>8. x \in 0..(TwoTo[D] - 1)
  BY <1>1, <1>3, Division
<1>. HIDE DEF x
<1>9. m = Masked(c, x)
  BY <1>7 DEF x
<1>10. m \in 0..(TwoTo[D] - 1)
  BY <1>1, <1>8, <1>9, MaskedSmall DEF W
<1>11. x \in 0..(TwoTo[W] - 1) /\ m \in 0..(TwoTo[W] - 1)
  BY <1>1, <1>8, <1>10
<1>12. Masked(c, m) = m
  BY <1>9, <1>11, MaskedTwice DEF W
<1>13. ASSUME NEW k \in Int, k % TwoTo[D] = n % TwoTo[D] PROVE Encode(T, k) = b
  BY <1>1, <1>3, <1>4, <1>13, EncodeSame
<1>. QED
  BY <1>3, <1>6, <1>7, <1>10, <1>11, <1>12, <1>13 DEF D, W, b, n, y, m, T

\* What a record writes where it reads it: a number that the mask lets pass, without
\* bits below SHFT.
LEMMA StateIsWritten ==
  ASSUME NEW c, IsActive(c), Support(c) = "multiBinary", NEW rec, IsConverted(c, rec),
         WritesWhereItReads(c, rec.val)
  PROVE  LET D == BitsOf(c.dataSize)
             n == MultiBinaryWrite(c, rec)
             m == n % TwoTo[D]
         IN /\ n \in 0..(TwoTo[Int32Bits] - 1) /\ Masked(c, n) = n
            /\ m = MultiBinaryRead(c, NumberIn(c, ReadFromRecord(c, rec)))
            /\ rec.val # UnknownState => (m \div TwoTo[c.shft]) * TwoTo[c.shft] = m
            /\ rec.val = UnknownState => State(c, m) = UnknownState
<1>. DEFINE D == BitsOf(c.dataSize)
            W == Int32Bits
            n == MultiBinaryWrite(c, rec)
            m == n % TwoTo[D]
            s == c.shft
            P == TwoTo[s]
            hasStates == c.recordType = "mbbo" /\ HasStates(c)
            full == 0..(TwoTo[W] - 1)
            N == IF hasStates THEN c.states[rec.val + 1] ELSE rec.val
            q == N * P
<1>1. IsRecord(c, rec) /\ rec.rval = RvalOf(c, rec)
  BY ConvertedRecord DEF IsConverted
<1>2. /\ D \in 0..W /\ D \in Nat /\ TwoTo[D] \in Nat /\ TwoTo[D] >= 1 /\ TwoTo[D] <= TwoTo[W]
      /\ TwoTo[W] \in Nat /\ UnknownState = TwoTo[W] /\ W \in Nat /\ W \in 0..W
      /\ s \in Nat /\ P \in Nat /\ P >= 1 /\ (s = 0 => P = 1)
      /\ c.recordType \in {"mbbo", "mbboDirect"}
  BY StateWidths
<1>3. /\ rec.val = UnknownState => hasStates /\ RvalOf(c, rec) = rec.rval
      /\ rec.val # UnknownState =>
           N \in Nat /\ q \in Nat /\ rec.val \in Nat /\ RvalOf(c, rec) = Unsigned(q, W)
      /\ RvalOf(c, rec) \in full
  BY <1>1, RawState
<1>4. ~hasStates => rec.val \in full
  BY <1>1, ValueRanges DEF IsRecord
<1>5. /\ ShiftIsWritten(c)
      /\ c.recordType = "mbbo" /\ ~HasStates(c) => Masked(c, rec.val) = rec.val
      /\ s = 0 \/ (IF c.recordType = "mbbo" THEN HasStates(c) ELSE Mask(c) = 0)
  BY DEF WritesWhereItReads, ShiftIsWritten
<1>6. /\ hasStates => n = Masked(c, rec.rval)
      /\ ~hasStates /\ c.recordType = "mbbo" => n = rec.val
      /\ c.recordType = "mbboDirect" => n = IF Mask(c) # 0 THEN Masked(c, rec.val) ELSE rec.rval
  BY <1>2 DEF MultiBinaryWrite
<1>7. \A x \in full : Masked(c, x) \in full /\ Masked(c, Masked(c, x)) = Masked(c, x)
                      /\ (Mask(c) = 0 => Masked(c, x) = x) /\ BitsIn(Masked(c, x)) \subseteq BitsIn(x)
  BY MaskedBits, MaskedTwice
<1>8. n \in full /\ Masked(c, n) = n
  <2>. HIDE DEF full, n, hasStates, N, q
  <2>1. CASE hasStates
    BY <1>1, <1>3, <1>6, <1>7, <2>1
  <2>2. CASE ~hasStates /\ c.recordType = "mbbo"
    BY <1>4, <1>5, <1>6, <2>2 DEF hasStates
  <2>3. CASE c.recordType = "mbboDirect"
    <3>1. ~hasStates
      BY <2>3 DEF hasStates
    <3>. QED
      BY <1>1, <1>3, <1>4, <1>6, <1>7, <2>3, <3>1
  <2>. QED
    BY <1>2, <2>1, <2>2, <2>3
<1>9. m = MultiBinaryRead(c, NumberIn(c, ReadFromRecord(c, rec)))
  <2>1. MultiBinaryRead(c, NumberIn(c, ReadFromRecord(c, rec))) = Masked(c, m)
    BY <1>1, StateIsRead
  <2>. HIDE DEF n, D
  <2>2. Masked(c, n % TwoTo[D]) = n % TwoTo[D]
    BY <1>2, <1>8, MaskedRemainder
  <2>. QED
    BY <2>1, <2>2
<1>10. ASSUME rec.val # UnknownState PROVE (m \div P) * P = m
  <2>1. BitsIn(n) \intersect (0..(s - 1)) = {}
    <3>1. CASE s = 0
      BY <3>1
    <3>2. CASE s # 0
      <4>1. BitsIn(n) \subseteq BitsIn(rec.rval)
        <5>1. hasStates \/ (c.recordType = "mbboDirect" /\ Mask(c) = 0)
          BY <1>2, <1>5, <3>2
        <5>2. n = Masked(c, rec.rval) \/ n = rec.rval
          BY <1>6, <5>1
        <5>. HIDE DEF n, full
        <5>. QED
          BY <1>1, <1>3, <1>7, <5>2
      <4>2. rec.rval = q % TwoTo[W]
        BY <1>1, <1>3, <1>10 DEF Unsigned
      <4>3. N \in Int /\ q \in Int
        BY <1>3, <1>10
      <4>. HIDE DEF N, n
      <4>4. BitsIn(q) \intersect (0..(s - 1)) = {}
        BY <1>2, <4>3, BitsOfMultiple
      <4>. HIDE DEF q
      <4>5. BitsIn(q % TwoTo[W]) = BitsIn(q) \intersect (0..(W - 1))
        <5>. HIDE DEF W
        <5>1. W \in 0..Int32Bits
          BY <1>2 DEF W
        <5>. QED
          BY <4>3, <5>1, BitsOfRemainder
      <4>. QED
        BY <4>1, <4>2, <4>4, <4>5, Zenon
    <3>. QED
      BY <3>1, <3>2
  <2>2. BitsIn(m) = BitsIn(n) \intersect (0..(D - 1)) /\ m \in full
    <3>1. n \in Int
      BY <1>2, <1>8
    <3>. HIDE DEF n, D
    <3>. QED
      BY <1>2, <3>1, BitsOfRemainder
  <2>. HIDE DEF m, n
  <2>3. BitsIn(m) \intersect (0..(s - 1)) = {}
    BY <2>1, <2>2, Zenon
  <2>. HIDE DEF s
  <2>. QED
    BY <1>2, <2>2, <2>3, MultipleOfBits
<1>11. ASSUME rec.val = UnknownState PROVE State(c, m) = UnknownState
  <2>1. ReadWithoutState(c, rec)
    BY <1>1, <1>11 DEF IsRecord
  <2>2. rec.rval \in 0..(TwoTo[D] - 1) /\ Masked(c, rec.rval) = rec.rval /\ State(c, rec.rval) = UnknownState
    BY <2>1 DEF ReadWithoutState
  <2>3. n = rec.rval
    BY <1>3, <1>6, <1>11, <2>2
  <2>. HIDE DEF n, D
  <2>4. n % TwoTo[D] = n
    BY <1>2, <2>2, <2>3, SmallNumber
  <2>. QED
    BY <2>2, <2>3, <2>4
<1>. QED
  BY <1>8, <1>9, <1>10, <1>11

\* A record that has read its own number writes it again.
LEMMA StateIsWrittenAgain ==
  ASSUME NEW c, IsActive(c), NEW rec, IsConverted(c, rec), Support(c) = "multiBinary",
         WritesWhereItReads(c, rec.val)
  PROVE  WritesAgain(c, rec)
<1>. DEFINE D == BitsOf(c.dataSize)
            W == Int32Bits
            b == ReadFromRecord(c, rec)
            n == MultiBinaryWrite(c, rec)
            m == n % TwoTo[D]
            P == TwoTo[c.shft]
            hasStates == c.recordType = "mbbo" /\ HasStates(c)
<1>1. /\ n \in 0..(TwoTo[W] - 1)
      /\ m = MultiBinaryRead(c, NumberIn(c, b))
      /\ rec.val # UnknownState => (m \div P) * P = m
      /\ rec.val = UnknownState => State(c, m) = UnknownState
  BY StateIsWritten
<1>2. IsRecord(c, rec)
  BY DEF IsConverted
<1>3. /\ MultiBinaryRead(c, NumberIn(c, b)) \in 0..(TwoTo[D] - 1)
      /\ MultiBinaryRead(c, NumberIn(c, b)) \in 0..(TwoTo[W] - 1)
      /\ Masked(c, MultiBinaryRead(c, NumberIn(c, b))) = MultiBinaryRead(c, NumberIn(c, b))
      /\ ValueIn(c, b) = State(c, MultiBinaryRead(c, NumberIn(c, b)))
      /\ \A k \in Int : k % TwoTo[D] = n % TwoTo[D] => Encode(Type(c), k) = b
  BY <1>2, StateIsRead
<1>4. /\ D \in Nat /\ TwoTo[D] \in Nat /\ TwoTo[D] >= 1 /\ TwoTo[D] <= TwoTo[W]
      /\ TwoTo[W] \in Nat /\ UnknownState = TwoTo[W] /\ W \in Nat
      /\ c.shft \in Nat /\ P \in Nat /\ P >= 1 /\ (c.shft = 0 => P = 1)
      /\ c.recordType \in {"mbbo", "mbboDirect"}
  BY StateWidths
<1>5. c.shft = 0 \/ (IF c.recordType = "mbbo" THEN HasStates(c) ELSE Mask(c) = 0)
  BY DEF WritesWhereItReads, ShiftIsWritten
<1>. HIDE DEF m, n, b, D, W, P
<1>6. m \in 0..(TwoTo[D] - 1) /\ m \in 0..(TwoTo[W] - 1) /\ m \in Nat /\ Masked(c, m) = m
      /\ ValueIn(c, b) = State(c, m)
  BY <1>1, <1>3, <1>4
<1>7. Encode(Type(c), m) = b
  <2>1. m % TwoTo[D] = m
    BY <1>4, <1>6, SmallNumber
  <2>2. m % TwoTo[D] = n % TwoTo[D]
    BY <2>1 DEF m
  <2>3. m \in Int
    BY <1>6
  <2>. QED
    BY <1>3, <2>2, <2>3
<1>8. ASSUME NEW r, IsRecord(c, r), r.val = State(c, m), r.rval = m
      PROVE  ReadFromRecord(c, Converted(c, r)) = b
  <2>. DEFINE d == Converted(c, r)
  <2>1. d.val = State(c, m) /\ d.rval = RvalOf(c, r)
    BY <1>8, ConvertedRecord
  <2>2. /\ m \div P \in 0..(TwoTo[W] - 1)
        /\ ~hasStates => State(c, m) = m \div P /\ State(c, m) # UnknownState
        /\ hasStates /\ State(c, m) # UnknownState => c.states[State(c, m) + 1] = m \div P
    <3>1. m \in 0..(TwoTo[Int32Bits] - 1)
      BY <1>6 DEF W
    <3>. QED
      BY <3>1, StateOf DEF P, W
  <2>3. RvalOf(c, r) = m
    <3>1. CASE State(c, m) = UnknownState
      BY <1>8, <3>1, RawState
    <3>2. CASE State(c, m) # UnknownState
      <4>1. RvalOf(c, r) = Unsigned((m \div P) * P, W)
        <5>1. RvalOf(c, r) = Unsigned((IF hasStates THEN c.states[r.val + 1] ELSE r.val) * TwoTo[c.shft], Int32Bits)
          BY <1>8, <3>2, RawState
        <5>2. (IF hasStates THEN c.states[r.val + 1] ELSE r.val) = m \div P
          BY <1>8, <2>2, <3>2
        <5>. QED
          BY <5>1, <5>2, Zenon DEF P, W
      <4>2. (m \div P) * P = m
        BY <1>1, <3>2
      <4>3. m % TwoTo[W] = m
        BY <1>4, <1>6, SmallNumber
      <4>. QED
        BY <4>1, <4>2, <4>3, Zenon DEF Unsigned
    <3>. QED
      BY <3>1, <3>2
  <2>. HIDE DEF d
  <2>4. MultiBinaryWrite(c, d) = m
    <3>1. CASE hasStates
      <4>1. MultiBinaryWrite(c, d) = Masked(c, d.rval)
        BY <3>1 DEF MultiBinaryWrite
      <4>. QED
        BY <1>6, <2>1, <2>3, <4>1
    <3>2. CASE ~hasStates
      <4>1. c.shft = 0 => m \div P = m
        BY <1>4, <1>6
      <4>2. c.shft = 0 => d.val = m
        BY <2>1, <2>2, <3>2, <4>1
      <4>3. CASE c.recordType = "mbbo"
        <5>1. MultiBinaryWrite(c, d) = d.val
          BY <3>2, <4>3 DEF MultiBinaryWrite
        <5>. QED
          BY <1>5, <3>2, <4>2, <4>3, <5>1
      <4>4. CASE c.recordType = "mbboDirect"
        <5>1. MultiBinaryWrite(c, d) = IF Mask(c) # 0 THEN Masked(c, d.val) ELSE d.rval
          BY <4>4 DEF MultiBinaryWrite
        <5>2. Mask(c) # 0 => d.val = m
          BY <1>5, <4>2, <4>4
        <5>. QED
          BY <1>6, <2>1, <2>3, <5>1, <5>2
      <4>. QED
        BY <1>4, <4>3, <4>4
    <3>. QED
      BY <3>1, <3>2
  <2>5. ReadFromRecord(c, d) = Encode(Type(c), MultiBinaryWrite(c, d))
    BY DEF ReadFromRecord
  <2>. QED
    BY <1>7, <2>4, <2>5 DEF d
<1>. QED
  BY <1>1, <1>6, <1>8, Zenon DEF WritesAgain, b

\* A value that fits is shown by the record that reads it.
LEMMA StateIsShown ==
  ASSUME NEW c, IsActive(c), NEW rec, IsConverted(c, rec), Support(c) = "multiBinary"
  PROVE  ShowsWritten(c, rec)
<1>. SUFFICES ASSUME Fits(c, rec.val)
              PROVE  ValueIn(c, ReadFromRecord(c, rec)) = rec.val
  BY DEF ShowsWritten
<1>. DEFINE D == BitsOf(c.dataSize)
            W == Int32Bits
            b == ReadFromRecord(c, rec)
            n == MultiBinaryWrite(c, rec)
            m == MultiBinaryRead(c, NumberIn(c, b))
            P == TwoTo[c.shft]
            hasStates == c.recordType = "mbbo" /\ HasStates(c)
            v == rec.val
            N == IF hasStates THEN c.states[v + 1] ELSE v
            q == N * P
<1>1. IsRecord(c, rec) /\ rec.rval = RvalOf(c, rec)
  BY ConvertedRecord DEF IsConverted
<1>2. /\ D \in Nat /\ TwoTo[D] \in Nat /\ TwoTo[D] >= 1 /\ TwoTo[D] <= TwoTo[W]
      /\ TwoTo[W] \in Nat /\ UnknownState = TwoTo[W] /\ W \in Nat
      /\ c.shft \in Nat /\ P \in Nat /\ P >= 1 /\ (c.shft = 0 => P = 1)
      /\ c.recordType \in {"mbbo", "mbboDirect"}
      /\ Len(c.states) \in Nat
  BY StateWidths
<1>3. /\ v # UnknownState
      /\ ShiftIsWritten(c)
      /\ Masked(c, q) = q /\ q < TwoTo[D]
      /\ hasStates => \A i \in 1..v : c.states[i] # N
  <2>1. v # UnknownState
    BY DEF Fits
  <2>. QED
    BY <2>1 DEF Fits
<1>4. N \in Nat /\ q \in Nat /\ v \in Nat /\ rec.rval = Unsigned(q, W)
      /\ (hasStates => v + 1 \in DOMAIN c.states)
  BY <1>1, <1>3, RawState
<1>5. c.shft = 0 \/ (IF c.recordType = "mbbo" THEN HasStates(c) ELSE Mask(c) = 0)
  BY <1>3 DEF ShiftIsWritten
<1>6. /\ m = Masked(c, n % TwoTo[D])
      /\ ValueIn(c, b) = State(c, m)
  BY <1>1, StateIsRead
<1>7. /\ hasStates => n = Masked(c, rec.rval)
      /\ ~hasStates /\ c.recordType = "mbbo" => n = v
      /\ c.recordType = "mbboDirect" => n = IF Mask(c) # 0 THEN Masked(c, v) ELSE rec.rval
  BY <1>2 DEF MultiBinaryWrite
<1>8. c.shft = 0 => q = v \/ hasStates
  BY <1>2, <1>4
<1>. HIDE DEF n, m, b, D, W
<1>9. q \in 0..(TwoTo[D] - 1) /\ q \in 0..(TwoTo[W] - 1)
  <2>. HIDE DEF q
  <2>. QED
    BY <1>2, <1>3, <1>4
<1>10. rec.rval = q
  <2>. HIDE DEF q
  <2>. QED
    BY <1>2, <1>4, <1>9, SmallNumber DEF Unsigned
<1>11. n = q
  <2>. HIDE DEF q
  <2>1. CASE hasStates
    BY <1>3, <1>7, <1>10, <2>1
  <2>2. CASE ~hasStates /\ c.recordType = "mbbo"
    BY <1>5, <1>7, <1>8, <2>2
  <2>3. CASE c.recordType = "mbboDirect"
    <3>1. ~hasStates
      BY <2>3
    <3>2. Mask(c) # 0 => q = v
      BY <1>5, <1>8, <2>3, <3>1
    <3>. QED
      BY <1>3, <1>7, <1>10, <2>3, <3>2
  <2>. QED
    BY <1>2, <2>1, <2>2, <2>3
<1>12. m = q
  <2>. HIDE DEF q
  <2>1. q % TwoTo[D] = q
    BY <1>2, <1>9, SmallNumber
  <2>. QED
    BY <1>3, <1>6, <1>11, <2>1
<1>13. q \div P = N
  <2>. HIDE DEF N, P
  <2>1. N \in Int /\ 0 \in 0..(P - 1) /\ q = N * P + 0
    BY <1>2, <1>4
  <2>. HIDE DEF q
  <2>. QED
    BY <1>2, <2>1, DivisionIsUnique
<1>14. State(c, q) = v
  <2>1. q \in 0..(TwoTo[Int32Bits] - 1)
    BY <1>9 DEF W
  <2>. HIDE DEF q
  <2>2. /\ ~hasStates => State(c, q) = q \div P
        /\ \A k \in 0..(Len(c.states) - 1) :
             hasStates /\ c.states[k + 1] = q \div P /\ (\A i \in 1..k : c.states[i] # q \div P)
               => State(c, q) = k
    BY <2>1, StateOf
  <2>3. CASE ~hasStates
    BY <1>13, <2>2, <2>3
  <2>4. CASE hasStates
    <3>1. v \in 0..(Len(c.states) - 1)
      <4>1. v + 1 \in 1..Len(c.states)
        <5>1. c.states \in Seq(Nat)
          BY StateWidths
        <5>. QED
          BY <1>4, <2>4, <5>1
      <4>. QED
        BY <1>2, <1>4, <4>1
    <3>2. c.states[v + 1] = N /\ \A i \in 1..v : c.states[i] # N
      BY <1>3, <2>4
    <3>. HIDE DEF N, v
    <3>. QED
      BY <1>13, <2>2, <2>4, <3>1, <3>2
  <2>. QED
    BY <2>3, <2>4
<1>. QED
  BY <1>6, <1>12, <1>14 DEF b

------------------------------------------------------------------------------
(***************************************************************************)
(* Any record.                                                             *)
(***************************************************************************)
\* What a record has written is shown if its value fits, and written again.
LEMMA RecordKeepsItsValue ==
  ASSUME NEW c, IsActive(c), NEW rec, IsConverted(c, rec)
  PROVE  ShowsWritten(c, rec) /\ (WritesWhereItReads(c, rec.val) => WritesAgain(c, rec))
<1>1. Support(c) \in Six
  BY ActiveType
<1>2. CASE Support(c) = "analog"
  BY <1>2, FloatRecord, AnalogRecord
<1>3. CASE Support(c) = "array"
  BY <1>3, StringsRecord, BitsRecord, NumbersRecord
<1>4. CASE Support(c) = "multiBinary"
  BY <1>4, StateIsShown, StateIsWrittenAgain
<1>. QED
  BY <1>1, <1>2, <1>3, <1>4, LongRecord, BinaryRecord, StringRecord DEF Six

\* The number in a buffer is one of the data type.
LEMMA NumberInBuffer ==
  ASSUME NEW c, IsActive(c), NEW bytes \in Seq(Bytes), IoBufferSizeInBytes(c) <= Len(bytes),
         Support(c) \in Numeric
  PROVE  NumberIn(c, Buffer(c, bytes)) \in RangeOf(Type(c)) /\ NumberIn(c, Buffer(c, bytes)) \in Int
<1>. DEFINE T == Type(c)
            b == Buffer(c, bytes)
            size == BytesOf(c.dataSize)
<1>1. T \in PlcDataTypes /\ SizeOfType(T) = c.dataSize
  BY ActiveType
<1>2. IoBufferSizeInBits(c) \in Nat /\ IoBufferSizeInBits(c) >= 1 /\ IoBufferSizeInBytes(c) = size
  BY Sizes
<1>3. b \in [1..size -> Bytes]
  BY <1>2, Buffers
<1>4. ASSUME T = "bool" PROVE b[1] \in 0..1
  <2>1. size = 1 /\ IoBufferSizeInBits(c) = 1
    <3>1. BitsOf(c.dataSize) = 1 /\ size = 1
      BY <1>1, <1>4, TypeSizes DEF Bits
    <3>. QED
      BY <3>1, Sizes
  <2>. DEFINE part(i) == IF i * ByteBits <= 1 THEN bytes[i] ELSE Unsigned(bytes[i], 1 % ByteBits)
  <2>2. b = [i \in 1..1 |-> part(i)]
    BY <1>2, <2>1 DEF Buffer
  <2>3. b[1] = part(1)
    <3>. HIDE DEF part, b
    <3>. QED
      BY <2>2
  <2>4. 1 % ByteBits = 1 /\ ~(1 * ByteBits <= 1)
    <3>1. ByteBits \in Nat /\ 1 \in 0..(ByteBits - 1) /\ ~(1 * ByteBits <= 1)
      BY Widths
    <3>. QED
      BY <3>1, SmallNumber
  <2>5. b[1] = Unsigned(bytes[1], 1)
    BY <2>3, <2>4
  <2>6. bytes[1] \in Int
    <3>1. 1 \in 1..Len(bytes)
      BY <1>2, <2>1
    <3>2. bytes[1] \in Bytes
      BY <3>1
    <3>. QED
      BY <3>2, BytesAre
  <2>. DEFINE x == bytes[1]
  <2>. HIDE DEF x
  <2>7. Unsigned(x, 1) \in 0..(TwoTo[1] - 1)
    BY <2>6, UnsignedRange DEF x
  <2>. QED
    BY <2>5, <2>7, Widths DEF x
<1>. HIDE DEF b, size, T
<1>5. b \in [1..BytesOf(SizeOfType(T)) -> Bytes]
  BY <1>1, <1>3 DEF size
<1>6. Decode(T, b) \in RangeOf(T)
  BY <1>1, <1>4, <1>5, DecodeRange
<1>7. \A x \in RangeOf(T) : x \in Int
  BY <1>1, RangesAreIntegers
<1>. QED
  BY <1>6, <1>7 DEF NumberIn, T, b

\* The elements of an array that is read.
LEMMA ElementsInBuffer ==
  ASSUME NEW c, IsActive(c), NEW bytes \in Seq(Bytes), IoBufferSizeInBytes(c) <= Len(bytes),
         Support(c) = "array"
  PROVE  ArrayRead(c, Buffer(c, bytes)) \in [1..c.nelm -> ElementRange(c.ftvl)]
<1>. DEFINE T == Type(c)
            b == Buffer(c, bytes)
            size == BytesOf(c.dataSize)
            n == c.nelm
            M == MaxStringSize
            ft == c.ftvl
<1>1. T \in PlcDataTypes /\ SizeOfType(T) = c.dataSize
      /\ T \in ArrayType(c.requested, c.dataSize, ArrayOutRequested(ft), ArrayOutDefault(ft))
  BY ActiveType
<1>2. n \in Nat /\ n >= 1 /\ M \in Nat /\ M >= 1 /\ ft \in ElementTypes
  BY Fields, SizeAssumption DEF IsActive
<1>3. size \in Nat /\ size >= 1 /\ size = BytesOf(SizeOfType(T))
  BY <1>1, TypeSizes
<1>4. b \in [1..IoBufferSizeInBytes(c) -> Bytes]
  BY Sizes, Buffers
<1>5. \A m \in Nat : m >= 1 /\ IoBufferSizeInBits(c) = m * ByteBits => b \in [1..m -> Bytes]
  BY <1>4, WholeBytes
<1>6. CASE ft = "STRING"
  <2>1. T # "bool"
    BY <1>1, <1>2, <1>6, ArrayOutTypes
  <2>2. ArrayRead(c, b) = [i \in 1..n |-> StringOf(Part(b, i, M))]
    BY <1>6, <2>1 DEF ArrayRead
  <2>3. n * M \in Nat /\ n * M >= 1 /\ IoBufferSizeInBits(c) = (n * M) * ByteBits
    <3>1. 1 * M <= n * M
      BY <1>2, Products
    <3>. QED
      BY <1>2, <1>6, <3>1, Sizes
  <2>4. b \in [1..(n * M) -> Bytes]
    BY <1>5, <2>3
  <2>. HIDE DEF b, n, M
  <2>5. \A k \in 1..(n * M) : b[k] \in Bytes
    BY <2>4
  <2>6. ASSUME NEW i \in 1..n PROVE StringOf(Part(b, i, M)) \in Strings
    <3>1. Part(b, i, M) \in [1..M -> Bytes]
      BY <1>2, <2>5, Parts
    <3>. QED
      BY <3>1, StringIsRead DEF M
  <2>7. [i \in 1..n |-> StringOf(Part(b, i, M))] \in [1..n -> Strings]
    BY <2>6
  <2>. QED
    BY <1>6, <2>2, <2>7, ElementRanges DEF b, n
<1>7. CASE ft # "STRING" /\ T = "bool"
  <2>1. ArrayRead(c, b) = UnpackBits(b, n) /\ IoBufferSizeInBits(c) = n
    BY <1>7, Sizes DEF ArrayRead
  <2>. DEFINE l == (n + ByteBits - 1) \div ByteBits
              bit(i) == (b[(i - 1) \div ByteBits + 1] \div TwoTo[(i - 1) % ByteBits]) % 2
  <2>2. UnpackBits(b, n) = [i \in 1..n |-> bit(i)]
    BY DEF UnpackBits
  <2>3. l \in Nat /\ n <= l * ByteBits /\ b \in [1..l -> Bytes] /\ ByteBits \in Nat /\ ByteBits >= 1
    <3>1. IoBufferSizeInBytes(c) = l
      BY <2>1 DEF IoBufferSizeInBytes
    <3>2. l \in Nat /\ n <= l * ByteBits
      BY <1>2, BytesForBits
    <3>3. ByteBits \in Nat /\ ByteBits >= 1
      BY Widths
    <3>. QED
      BY <1>4, <3>1, <3>2, <3>3
  <2>. HIDE DEF b, n, l
  <2>4. ASSUME NEW i \in 1..n PROVE bit(i) \in 0..1
    <3>. DEFINE x == i - 1
                q == x \div ByteBits
                r == x % ByteBits
                y == b[q + 1]
                z == y \div TwoTo[r]
    <3>1. x \in Nat /\ x < n
      BY <1>2
    <3>. HIDE DEF x
    <3>2. q \in 0..x /\ r \in 0..(ByteBits - 1) /\ x = q * ByteBits + r
      <4>1. x \div ByteBits \in 0..x
        BY <2>3, <3>1, Quotient
      <4>2. x % ByteBits \in 0..(ByteBits - 1) /\ x = (x \div ByteBits) * ByteBits + (x % ByteBits)
        BY <2>3, <3>1, Division
      <4>. QED
        BY <4>1, <4>2
    <3>. HIDE DEF q, r
    <3>3. q < l
      <4>1. CASE q >= l
        <5>1. l * ByteBits <= q * ByteBits /\ l * ByteBits \in Int /\ q * ByteBits \in Int
          BY <2>3, <3>2, <4>1, Products
        <5>. QED
          BY <1>2, <2>3, <3>1, <3>2, <5>1
      <4>. QED
        BY <2>3, <3>1, <3>2, <4>1
    <3>4. q + 1 \in 1..l
      BY <2>3, <3>1, <3>2, <3>3
    <3>5. y \in Int
      BY <2>3, <3>4, BytesAre
    <3>6. r \in Nat
      BY <2>3, <3>2
    <3>7. TwoTo[r] \in Nat /\ TwoTo[r] >= 1
      BY <3>6, TwoToIsPositive
    <3>. HIDE DEF y
    <3>8. z \in Int
      BY <3>5, <3>7, Division
    <3>. HIDE DEF z
    <3>9. z % 2 \in 0..1
      BY <3>8
    <3>10. bit(i) = z % 2
      BY DEF z, y, q, r, x
    <3>. HIDE DEF bit
    <3>. QED
      BY <3>9, <3>10
  <2>5. 0..1 \subseteq ElementRange(ft)
    <3>1. \A x \in 0..1 : \A t \in PlcDataTypes : x \in RangeOf(t)
      BY ZeroAndOne
    <3>2. {"int8", "uint8", "int16", "uint16", "int32", "uint32", "float"} \subseteq PlcDataTypes
      BY DEF PlcDataTypes
    <3>3. ft \in {"CHAR", "UCHAR", "SHORT", "USHORT", "LONG", "ULONG", "FLOAT", "DOUBLE", "ENUM"}
      BY <1>2, <1>7 DEF ElementTypes
    <3>. HIDE DEF ft
    <3>. QED
      BY <3>1, <3>2, <3>3, ElementRanges
  <2>. HIDE DEF bit, ft
  <2>6. [i \in 1..n |-> bit(i)] \in [1..n -> ElementRange(ft)]
    BY <2>4, <2>5
  <2>7. ArrayRead(c, b) \in [1..n -> ElementRange(ft)]
    BY <2>1, <2>2, <2>6, Zenon
  <2>. QED
    BY <2>7 DEF b, n, ft
<1>8. CASE ft # "STRING" /\ T # "bool"
  <2>1. ArrayRead(c, b) = [i \in 1..n |-> ElementOf(ft, Decode(T, Part(b, i, size)))]
    BY <1>8 DEF ArrayRead
  <2>2. n * size \in Nat /\ n * size >= 1 /\ IoBufferSizeInBits(c) = (n * size) * ByteBits
    <3>1. 1 * size <= n * size
      BY <1>2, <1>3, Products
    <3>. QED
      BY <1>2, <1>3, <1>8, <3>1, Sizes
  <2>3. b \in [1..(n * size) -> Bytes]
    BY <1>5, <2>2
  <2>. HIDE DEF b, n, size, ft, T
  <2>4. \A k \in 1..(n * size) : b[k] \in Bytes
    BY <2>3
  <2>5. ASSUME NEW i \in 1..n PROVE ElementOf(ft, Decode(T, Part(b, i, size))) \in ElementRange(ft)
    <3>. DEFINE p == Part(b, i, size)
                x == Decode(T, p)
    <3>1. p \in [1..size -> Bytes]
      BY <1>2, <1>3, <2>4, Parts
    <3>. HIDE DEF p
    <3>2. p \in [1..BytesOf(SizeOfType(T)) -> Bytes]
      BY <1>3, <3>1
    <3>3. x \in RangeOf(T)
      BY <1>1, <1>8, <3>2, DecodeRange
    <3>. HIDE DEF x
    <3>4. x \in Int
      BY <1>1, <3>3, RangesAreIntegers
    <3>5. ft \in {"FLOAT", "DOUBLE"} => T = "float"
      BY <1>1, <1>2, <1>8, ArrayOutTypes DEF T, ft
    <3>6. ElementOf(ft, x) \in ElementRange(ft)
      BY <1>2, <1>8, <3>3, <3>4, <3>5, Elements
    <3>. QED
      BY <3>6 DEF x, p
  <2>6. [i \in 1..n |-> ElementOf(ft, Decode(T, Part(b, i, size)))] \in [1..n -> ElementRange(ft)]
    BY <2>5
  <2>. QED
    BY <2>1, <2>6 DEF b, n, ft
<1>. QED
  BY <1>6, <1>7, <1>8

\* The record after its initialization with a value.
LEMMA InitializedIsRecord ==
  ASSUME NEW c, IsActive(c), NEW bytes \in Seq(Bytes), IoBufferSizeInBytes(c) <= Len(bytes)
  PROVE  IsRecord(c, Initialized(c, WriteToRecord(c, bytes, EmptyRecord(c))))
<1>. DEFINE b == Buffer(c, bytes)
            r == Initialized(c, WriteToRecord(c, bytes, EmptyRecord(c)))
            v == ValueIn(c, b)
            x == NumberIn(c, b)
            T == Type(c)
<1>1. /\ r = [val |-> v, rval |-> r.rval, bits |-> r.bits]
      /\ Support(c) \in {"long", "binary", "string", "array"} => r.rval = 0 /\ r.bits = 0
      /\ Support(c) = "analog" =>
           r.bits = 0 /\ r.rval = IF T = "float" THEN 0 ELSE Signed(x, Int32Bits)
      /\ Support(c) = "multiBinary" =>
           /\ r.rval = MultiBinaryRead(c, x)
           /\ r.bits = IF c.recordType = "mbbo" THEN 0 ELSE Masked(c, r.rval \div TwoTo[c.shft])
  BY RecordIsInitialized
<1>2. T \in PlcDataTypes /\ Support(c) \in Six
  BY ActiveType
<1>3. Support(c) \in Numeric => x \in RangeOf(T) /\ x \in Int
  BY NumberInBuffer
<1>4. \A w \in ValueRange(c), m \in Int, n \in Int :
        r = [val |-> w, rval |-> m, bits |-> n] => r \in [val: ValueRange(c), rval: Int, bits: Int]
  OBVIOUS
<1>. HIDE DEF r
<1>5. ASSUME Support(c) # "multiBinary", v \in ValueRange(c), r.rval \in Int, r.bits \in Int
      PROVE  IsRecord(c, r)
  BY <1>1, <1>4, <1>5 DEF IsRecord
<1>6. CASE Support(c) = "analog"
  <2>1. CASE T = "float"
    <3>1. v = x
      BY <1>6, <2>1 DEF ValueIn
    <3>. HIDE DEF x, v
    <3>. QED
      BY <1>1, <1>3, <1>5, <1>6, <2>1, <3>1, ValueRanges DEF Numeric, r
  <2>2. CASE T # "float"
    <3>. DEFINE s == ConversionOf(c).eslo
                o == ConversionOf(c).eoff
                y == Signed(x, Int32Bits)
    <3>1. v = y * s + o
      BY <1>6, <2>2 DEF ValueIn
    <3>2. s \in Nat /\ o \in Int
      BY <1>6, <2>2, ActiveType, Slope
    <3>. HIDE DEF x, s, o
    <3>3. y \in Int
      BY <1>3, <1>6, SignedInt32 DEF Numeric
    <3>. HIDE DEF y, v
    <3>4. v \in Int
      BY <3>1, <3>2, <3>3
    <3>5. r.rval = y /\ r.bits = 0
      BY <1>1, <1>6, <2>2 DEF y
    <3>. QED
      BY <1>5, <1>6, <2>2, <3>3, <3>4, <3>5, ValueRanges DEF r
  <2>. QED
    BY <2>1, <2>2
<1>7. CASE Support(c) = "long"
  <2>1. v = Signed(x, Int32Bits)
    BY <1>7 DEF ValueIn, LongRead
  <2>. HIDE DEF x, v
  <2>2. v \in ValueRange(c)
    BY <1>3, <1>7, <2>1, SignedInt32, ValueRanges DEF Numeric
  <2>. QED
    BY <1>1, <1>5, <1>7, <2>2 DEF r
<1>8. CASE Support(c) = "binary"
  <2>1. v = BinaryRead(c, x)
    BY <1>8 DEF ValueIn
  <2>. HIDE DEF x, v
  <2>2. v \in {0, 1}
    BY <2>1 DEF BinaryRead
  <2>3. v \in ValueRange(c)
    BY <1>8, <2>2, ValueRanges
  <2>. QED
    BY <1>1, <1>5, <1>8, <2>3 DEF r
<1>9. CASE Support(c) = "string"
  <2>1. v = StringRead(c, b)
    BY <1>9 DEF ValueIn
  <2>2. CASE T = "bool"
    <3>1. v \in {TrueString, FalseString}
      BY <2>1, <2>2 DEF StringRead
    <3>2. TrueString \in Seq(Nat) /\ FalseString \in Seq(Nat)
      BY DEF TrueString, FalseString
    <3>. HIDE DEF v
    <3>3. v \in ValueRange(c)
      BY <1>9, <2>2, <3>1, <3>2, ValueRanges
    <3>. QED
      BY <1>1, <1>5, <1>9, <3>3 DEF r
  <2>3. CASE T # "bool"
    <3>1. v = StringOf(b)
      BY <2>1, <2>3 DEF StringRead
    <3>2. b \in [1..MaxStringSize -> Bytes]
      <4>. DEFINE M == MaxStringSize
      <4>1. M \in Nat /\ M >= 1 /\ IoBufferSizeInBits(c) = M * ByteBits
        BY <1>9, <2>3, Sizes, SizeAssumption
      <4>2. IoBufferSizeInBytes(c) = M
        BY <4>1, WholeBytes
      <4>. QED
        BY <4>2, Sizes, Buffers
    <3>. HIDE DEF v, b
    <3>3. v \in ValueRange(c)
      BY <1>9, <2>3, <3>1, <3>2, StringIsRead, ValueRanges
    <3>. QED
      BY <1>1, <1>5, <1>9, <3>3 DEF r
  <2>. QED
    BY <2>2, <2>3
<1>10. CASE Support(c) = "array"
  <2>1. v = ArrayRead(c, b)
    BY <1>10 DEF ValueIn
  <2>. HIDE DEF v
  <2>2. v \in ValueRange(c)
    BY <1>10, <2>1, ElementsInBuffer, ValueRanges
  <2>. QED
    BY <1>1, <1>5, <1>10, <2>2 DEF r
<1>11. CASE Support(c) = "multiBinary"
  <2>. DEFINE D == BitsOf(c.dataSize)
              W == Int32Bits
              m == MultiBinaryRead(c, x)
              hasStates == c.recordType = "mbbo" /\ HasStates(c)
  <2>1. /\ D \in 0..W /\ D \in Nat /\ TwoTo[D] \in Nat /\ TwoTo[D] >= 1 /\ TwoTo[D] <= TwoTo[W]
        /\ TwoTo[W] \in Nat /\ UnknownState = TwoTo[W]
        /\ TwoTo[c.shft] \in Nat /\ TwoTo[c.shft] >= 1
    BY <1>11, StateWidths
  <2>2. v = State(c, m)
    BY <1>11 DEF ValueIn
  <2>3. m = Masked(c, x % TwoTo[D])
    BY DEF MultiBinaryRead, Unsigned
  <2>. HIDE DEF x, m, v, D
  <2>. DEFINE y == x % TwoTo[D]
  <2>4. y \in 0..(TwoTo[D] - 1)
    BY <1>3, <1>11, <2>1, Division DEF Numeric
  <2>. HIDE DEF y
  <2>5. m = Masked(c, y)
    BY <2>3 DEF y
  <2>6. m \in 0..(TwoTo[D] - 1)
    BY <2>1, <2>4, <2>5, MaskedSmall
  <2>7. y \in 0..(TwoTo[W] - 1) /\ m \in 0..(TwoTo[W] - 1)
    BY <2>1, <2>4, <2>6
  <2>8. Masked(c, m) = m
    BY <2>5, <2>7, MaskedTwice
  <2>9. /\ m \div TwoTo[c.shft] \in 0..(TwoTo[W] - 1)
        /\ ~hasStates => v = m \div TwoTo[c.shft]
        /\ hasStates /\ v # UnknownState => v \in 0..(Len(c.states) - 1)
    BY <1>11, <2>2, <2>7, StateOf
  <2>10. v \in ValueRange(c)
    BY <1>11, <2>1, <2>9, ValueRanges
  <2>11. r.rval = m /\ r.bits = IF c.recordType = "mbbo" THEN 0 ELSE Masked(c, m \div TwoTo[c.shft])
    BY <1>1, <1>11 DEF r, m, x
  <2>12. r.rval \in Int /\ r.bits \in Int
    <3>1. m \in Int /\ m \div TwoTo[c.shft] \in Int
      BY <2>1, <2>7, <2>9
    <3>2. Masked(c, m \div TwoTo[c.shft]) \in Int
      BY <3>1, MaskedNumber
    <3>. QED
      BY <2>11, <3>1, <3>2
  <2>13. r = [val |-> v, rval |-> r.rval, bits |-> r.bits]
    BY <1>1 DEF v, r
  <2>14. r \in [val: ValueRange(c), rval: Int, bits: Int] /\ r.val = v
    BY <2>10, <2>12, <2>13
  <2>15. v = UnknownState => ReadWithoutState(c, r)
    BY <2>2, <2>6, <2>8, <2>11 DEF ReadWithoutState, D
  <2>. QED
    BY <2>14, <2>15 DEF IsRecord, r
<1>. QED
  BY <1>2, <1>6, <1>7, <1>8, <1>9, <1>10, <1>11 DEF Six, r

------------------------------------------------------------------------------
(***************************************************************************)
(* The numbers that arrays show.                                           *)
(***************************************************************************)
\* A bit of the number in a sequence of bytes.
LEMMA BitOfBytes ==
  ASSUME NEW size \in Nat, NEW bytes \in [1..size -> Bytes], NEW i \in 0..(ByteBits * size - 1)
  PROVE  (bytes[size - i \div ByteBits] \div TwoTo[i % ByteBits]) % 2
           = (NumberOfBytes(bytes) \div TwoTo[i]) % 2
<1>. DEFINE B == ByteBits
            j == i \div B
            r == i % B
            N == NumberOfBytes(bytes)
            l == B * size
<1>1. B \in Nat /\ B >= 2 /\ l \in Nat /\ i \in Nat /\ i < l /\ l = size * B
  <2>1. B \in Nat /\ B >= 2
    BY Widths
  <2>2. l \in Nat /\ l = size * B
    BY <2>1
  <2>. HIDE DEF l
  <2>3. i \in 0..(l - 1)
    BY DEF l
  <2>. QED
    BY <2>1, <2>2, <2>3
<1>. HIDE DEF l
<1>2. j \in 0..i /\ r \in 0..(B - 1) /\ i = j * B + r
  <2>1. i \div B \in 0..i
    BY <1>1, Quotient
  <2>2. i % B \in 0..(B - 1) /\ i = (i \div B) * B + (i % B)
    BY <1>1, Division
  <2>. QED
    BY <2>1, <2>2
<1>. HIDE DEF j, r, B
<1>3. j \in 0..(size - 1)
  <2>1. CASE j >= size
    <3>1. size * B <= j * B /\ size * B \in Int /\ j * B \in Int
      BY <1>1, <1>2, <2>1, Products
    <3>. QED
      BY <1>1, <1>2, <3>1
  <2>. QED
    BY <1>1, <1>2, <2>1
<1>4. N \in Int /\ (N \div TwoTo[B * j]) % TwoTo[B] = bytes[size - j]
  <2>1. N \in 0..(TwoTo[B * size] - 1)
        /\ \A k \in 0..(size - 1) : (N \div TwoTo[B * k]) % TwoTo[B] = bytes[size - k]
    BY NumberOfBytesRange DEF B
  <2>2. TwoTo[B * size] \in Nat
    BY <1>1, TwoToIsPositive
  <2>. HIDE DEF N
  <2>. QED
    BY <1>3, <2>1, <2>2
<1>. HIDE DEF N
<1>. DEFINE P == TwoTo[B * j]
            d == TwoTo[r]
            k == TwoTo[B - r - 1]
            M == N \div P
<1>5. P \in Nat /\ P >= 1 /\ d \in Nat /\ d >= 1 /\ k \in Nat /\ k >= 1 /\ TwoTo[B] = d * 2 * k
      /\ TwoTo[i] = P * d /\ TwoTo[1] = 2
  <2>1. B * j \in Nat /\ r \in Nat /\ B - r - 1 \in Nat
    BY <1>1, <1>2, <1>3
  <2>2. TwoTo[1] = 2
    BY Widths
  <2>3. TwoTo[B * j + r] = TwoTo[B * j] * TwoTo[r] /\ B * j + r = i
    BY <1>1, <1>2, <1>3, <2>1, TwoToSum
  <2>4. TwoTo[r + 1] = TwoTo[r] * TwoTo[1] /\ r + 1 \in Nat
    BY <2>1, TwoToSum
  <2>5. TwoTo[(r + 1) + (B - r - 1)] = TwoTo[r + 1] * TwoTo[B - r - 1]
    BY <2>1, <2>4, TwoToSum
  <2>6. (r + 1) + (B - r - 1) = B
    BY <1>1, <2>1
  <2>7. TwoTo[B] = d * 2 * k
    BY <2>2, <2>4, <2>5, <2>6, Zenon
  <2>8. P \in Nat /\ P >= 1 /\ d \in Nat /\ d >= 1 /\ k \in Nat /\ k >= 1
    BY <2>1, TwoToIsPositive
  <2>. QED
    BY <2>2, <2>3, <2>7, <2>8
<1>. HIDE DEF P, d, k, M
<1>6. M \in Int /\ M % TwoTo[B] = bytes[size - j]
  BY <1>4, <1>5, Division DEF P, M
<1>7. ((M % (d * 2 * k)) \div d) % 2 = (M \div d) % 2
  <2>. DEFINE two == 2
  <2>1. two \in Nat /\ two >= 1
    OBVIOUS
  <2>. HIDE DEF two
  <2>2. ((M % (d * two * k)) \div d) % two = (M \div d) % two
    BY <1>5, <1>6, <2>1, DigitOfRemainder, ZenonT(30)
  <2>. QED
    BY <2>2 DEF two
<1>8. N \div (P * d) = M \div d
  BY <1>4, <1>5, DivideTwice DEF M
<1>9. (bytes[size - j] \div d) % 2 = (N \div TwoTo[i]) % 2
  BY <1>5, <1>6, <1>7, <1>8, Zenon
<1>. QED
  BY <1>9 DEF B, j, r, d, N

\* The meaning of bytes is the number of their data type.
LEMMA MeaningOfBytes ==
  ASSUME NEW type \in PlcDataTypes \ {"bool", "float"}, NEW size \in Nat, size = BytesOf(SizeOfType(type)),
         NEW bytes \in [1..size -> Bytes]
  PROVE  Meaning(type, bytes) = Decode(type, bytes)
<1>. DEFINE B == ByteBits
            n == B * size
            N == NumberOfBytes(bytes)
            weight(i) == IF i = n - 1 /\ type \in SignedTypes THEN -TwoTo[i] ELSE TwoTo[i]
            bit(i) == (bytes[size - i \div B] \div TwoTo[i % B]) % 2
            f == [i \in 0..(n - 1) |-> bit(i) * weight(i)]
<1>1. Len(bytes) = size /\ size \in {1, 2, 4} /\ B \in Nat /\ B >= 2
  BY TypeSizes, SequenceOf, Widths
<1>2. n \in Nat /\ n >= 2 /\ size * B = n
  BY <1>1
<1>3. Meaning(type, bytes) = SumOf(f, n)
  <2>. DEFINE n2 == Len(bytes) * ByteBits
              weight2(i) == IF i = n2 - 1 /\ type \in SignedTypes THEN -TwoTo[i] ELSE TwoTo[i]
              bit2(i) == (bytes[Len(bytes) - i \div ByteBits] \div TwoTo[i % ByteBits]) % 2
  <2>1. Meaning(type, bytes) = SumOf([i \in 0..(n2 - 1) |-> bit2(i) * weight2(i)], n2)
    BY DEF Meaning
  <2>2. n2 = n
    BY <1>1, <1>2
  <2>3. [i \in 0..(n2 - 1) |-> bit2(i) * weight2(i)] = f
    BY <1>1, <2>2, Zenon
  <2>. QED
    BY <2>1, <2>2, <2>3, Zenon
<1>4. N \in 0..(TwoTo[n] - 1) /\ TwoTo[n] \in Nat /\ N \in Int
  <2>1. N \in 0..(TwoTo[n] - 1)
    BY NumberOfBytesRange
  <2>2. TwoTo[n] \in Nat
    BY <1>2, TwoToIsPositive
  <2>. HIDE DEF N, n
  <2>. QED
    BY <2>1, <2>2
<1>5. ASSUME NEW i \in 0..(n - 1) PROVE bit(i) = (N \div TwoTo[i]) % 2
  BY <1>5, BitOfBytes
<1>6. Decode(type, bytes) = IF type \in SignedTypes THEN Signed(N, n) ELSE N
  BY <1>1, <1>2 DEF Decode
<1>. HIDE DEF n, N, B, bit
<1>7. \A i \in 0..(n - 1) : f[i] = ((N \div TwoTo[i]) % 2) * weight(i)
  BY <1>5
<1>. HIDE DEF f
<1>8. ASSUME NEW k \in Nat, k <= n, k = n => type \notin SignedTypes
      PROVE  SumOf(f, k) = N % TwoTo[k]
  <2>1. ASSUME NEW i \in 0..(k - 1)
        PROVE  f[i] = ((N \div TwoTo[1 * i]) % TwoTo[1]) * TwoTo[1 * i]
    <3>1. i \in 0..(n - 1) /\ weight(i) = TwoTo[i] /\ 1 * i = i
      BY <1>2, <1>8
    <3>2. TwoTo[1] = 2
      BY Widths
    <3>. HIDE DEF weight
    <3>. QED
      BY <1>7, <3>1, <3>2
  <2>. DEFINE one == 1
  <2>2. \A i \in 0..(k - 1) : f[i] = ((N \div TwoTo[one * i]) % TwoTo[one]) * TwoTo[one * i]
    BY <2>1
  <2>3. one \in Nat
    OBVIOUS
  <2>. HIDE DEF one
  <2>4. SumOf(f, k) = N % TwoTo[one * k]
    BY <1>4, <2>2, <2>3, SumOfDigits
  <2>5. one * k = k
    BY DEF one
  <2>. QED
    BY <2>4, <2>5, Zenon
<1>9. CASE type \notin SignedTypes
  <2>1. SumOf(f, n) = N % TwoTo[n]
    BY <1>2, <1>8, <1>9
  <2>2. N % TwoTo[n] = N
    BY <1>4, SmallNumber
  <2>. QED
    BY <1>3, <1>6, <1>9, <2>1, <2>2
<1>10. CASE type \in SignedTypes
  <2>. DEFINE k == n - 1
              H == TwoTo[k]
              q == N \div H
              r == N % H
  <2>1. k \in Nat /\ k <= n /\ k # n /\ k + 1 = n
    BY <1>2
  <2>2. SumOf(f, k) = N % TwoTo[k]
    BY <1>8, <2>1
  <2>3. SumOf(f, n) = SumOf(f, k) + f[k]
    <3>. HIDE DEF k
    <3>1. SumOf(f, k + 1) = SumOf(f, k) + f[k]
      BY <2>1, SumStep
    <3>. QED
      BY <2>1, <3>1
  <2>4. f[k] = ((N \div TwoTo[k]) % 2) * (-TwoTo[k])
    <3>1. k \in 0..(n - 1) /\ weight(k) = -TwoTo[k]
      BY <1>2, <1>10, <2>1
    <3>. HIDE DEF weight, k
    <3>. QED
      BY <1>7, <3>1
  <2>5. TwoTo[n] = 2 * H /\ H \in Nat /\ H >= 1
    <3>. HIDE DEF k
    <3>. QED
      BY <2>1, TwoToStep, TwoToIsPositive
  <2>6. Signed(N, n) = IF N < H THEN N ELSE N - TwoTo[n]
    <3>1. N % TwoTo[n] = N
      BY <1>4, SmallNumber
    <3>. QED
      BY <3>1 DEF Signed, Unsigned
  <2>. HIDE DEF k, H
  <2>7. q \in Int /\ r \in 0..(H - 1) /\ N = q * H + r
    BY <1>4, <2>5, Division
  <2>8. SumOf(f, n) = r + (q % 2) * (-H)
    BY <2>2, <2>3, <2>4 DEF H
  <2>. HIDE DEF q, r
  <2>9. q = 0 \/ q = 1
    <3>1. CASE q < 0
      <4>1. q * H <= (-1) * H /\ q * H \in Int
        BY <2>5, <2>7, <3>1, Products
      <4>. QED
        BY <1>4, <2>5, <2>7, <4>1
    <3>2. CASE q > 1
      <4>1. 2 * H <= q * H /\ q * H \in Int
        BY <2>5, <2>7, <3>2, Products
      <4>. QED
        BY <1>4, <2>5, <2>7, <4>1
    <3>. QED
      BY <2>7, <3>1, <3>2
  <2>10. SumOf(f, n) = Signed(N, n)
    <3>1. CASE q = 0
      BY <2>5, <2>6, <2>7, <2>8, <3>1
    <3>2. CASE q = 1
      BY <2>5, <2>6, <2>7, <2>8, <3>2
    <3>. QED
      BY <2>9, <3>1, <3>2
  <2>. QED
    BY <1>3, <1>6, <1>10, <2>10
<1>. QED
  BY <1>9, <1>10

\* An input array with one element, at the address and with the elements of an output array.
Reader(d, requested) ==
  [d EXCEPT !.recordType = InputFor[@], !.requested = requested, !.nelm = 1]

\* What such an array is, and how much of the memory it reads.
LEMMA ReaderFields ==
  ASSUME NEW d, IsActive(d), Support(d) = "array", NEW requested \in SUBSET PlcDataTypes,
         d.ftvl # "STRING", TypesOf(Reader(d, requested)) # {},
         Type(Reader(d, requested)) \notin {"bool", "float"}
  PROVE  LET c == Reader(d, requested)
             size == BytesOf(c.dataSize)
         IN /\ Support(c) = "array" /\ c.recordType \in {"aai", "waveformIn"}
            /\ c.ftvl = d.ftvl /\ c.dataSize = d.dataSize /\ c.nelm = 1 /\ c.requested = requested
            /\ Type(c) \in PlcDataTypes /\ SizeOfType(Type(c)) = c.dataSize
            /\ Type(c) \in ArrayType(requested, c.dataSize, ArrayInRequested(c.ftvl), ArrayInDefault(c.ftvl))
            /\ IoBufferSizeInBits(c) = size * ByteBits
            /\ size \in Nat /\ size >= 1 /\ size <= IoBufferSizeInBytes(d)
<1>. DEFINE c == Reader(d, requested)
            T == Type(c)
            size == BytesOf(d.dataSize)
<1>1. d \in Configurations
  BY DEF IsActive, IsConfiguration
<1>2. c.recordType = InputFor[d.recordType] /\ c.ftvl = d.ftvl /\ c.dataSize = d.dataSize
      /\ c.nelm = 1 /\ c.requested = requested
  BY <1>1 DEF Reader, Configurations
<1>3. /\ d.recordType \in {"aao", "waveformOut"} /\ d.ftvl \in ElementTypes /\ d.dataSize \in DataSizes
      /\ Type(d) \in PlcDataTypes /\ SizeOfType(Type(d)) = d.dataSize
      /\ d.nelm \in Nat /\ d.nelm >= 1
  BY ActiveType, Fields DEF IsActive
<1>4. InputFor["aao"] = "aai" /\ InputFor["waveformOut"] = "waveformIn"
  BY DEF InputFor
<1>5. T \in TypesOf(c)
  BY DEF Type
<1>6. T # "bool"
  OBVIOUS
<1>. HIDE DEF c, T
<1>7. c.recordType \in {"aai", "waveformIn"} /\ Support(c) = "array" /\ ClassOf[c.recordType].input
  BY <1>2, <1>3, <1>4, Kinds DEF Support
<1>8. T \in GetPlcDataType(c.recordType, d.ftvl, d.dataSize, requested) /\ SizeOfType(T) = d.dataSize
  BY <1>2, <1>5 DEF TypesOf
<1>9. T \in ArrayType(requested, d.dataSize, ArrayInRequested(d.ftvl), ArrayInDefault(d.ftvl))
  BY <1>3, <1>7, <1>8, TypesOfKinds DEF Support
<1>10. T \in PlcDataTypes
  BY <1>3, <1>9, ArrayInTypes
<1>11. BitsOf(d.dataSize) = ByteBits * size /\ size \in {1, 2, 4} /\ d.dataSize # "bit"
  <2>1. /\ BytesOf(SizeOfType(T)) \in {1, 2, 4}
        /\ Bits(T) = ByteBits * BytesOf(SizeOfType(T))
    BY <1>6, <1>10, TypeSizes
  <2>2. SizeOfType(T) # "bit"
    BY <1>6, <1>10 DEF SizeOfType, PlcDataTypes
  <2>. QED
    BY <1>8, <2>1, <2>2 DEF Bits
<1>12. Type(d) # "bool"
  BY <1>3, <1>11 DEF SizeOfType
<1>13. ByteBits \in Nat /\ ByteBits >= 2
  BY Widths
<1>14. IoBufferSizeInBytes(d) = d.nelm * size /\ size <= d.nelm * size
  <2>1. IoBufferSizeInBits(d) = (d.nelm * size) * ByteBits
    BY <1>12, Sizes
  <2>. DEFINE n == d.nelm
  <2>2. n \in Nat /\ n >= 1 /\ size \in Nat /\ size >= 1
    BY <1>3, <1>11
  <2>. HIDE DEF n, size
  <2>3. 1 * size <= n * size /\ n * size \in Nat
    BY <2>2, Products
  <2>4. n * size >= 1 /\ size <= n * size
    BY <2>2, <2>3
  <2>. QED
    BY <2>1, <2>3, <2>4, WholeBytes DEF n
<1>15. IoBufferSizeInBits(c) = size * ByteBits
  <2>1. IoBufferSizeInBits(c) = ArrayBufferBits(c)
    BY <1>7 DEF IoBufferSizeInBits
  <2>2. ArrayBufferBits(c) = 1 * 1 * BitsOf(d.dataSize)
    BY <1>2 DEF ArrayBufferBits
  <2>3. 1 * 1 * (ByteBits * size) = size * ByteBits
    BY <1>11, <1>13
  <2>. QED
    BY <1>11, <2>1, <2>2, <2>3
<1>16. size \in Nat /\ size >= 1
  BY <1>11
<1>. QED
  BY <1>2, <1>7, <1>8, <1>9, <1>10, <1>14, <1>15, <1>16 DEF c, T

\* It shows the number in the memory.
LEMMA ReaderShows ==
  ASSUME NEW d, IsActive(d), Support(d) = "array", NEW requested \in SUBSET PlcDataTypes,
         d.ftvl # "STRING", TypesOf(Reader(d, requested)) # {},
         Type(Reader(d, requested)) \notin {"bool", "float"},
         NEW bytes \in Seq(Bytes), IoBufferSizeInBytes(d) <= Len(bytes)
  PROVE  LET c == Reader(d, requested)
         IN Processed(c, WriteToRecord(c, bytes, EmptyRecord(c))).val
              = <<Meaning(Type(c), SubSeq(bytes, 1, BytesOf(c.dataSize)))>>
<1>. DEFINE c == Reader(d, requested)
            T == Type(c)
            size == BytesOf(c.dataSize)
            s == WriteToRecord(c, bytes, EmptyRecord(c))
            b == Buffer(c, bytes)
            p == SubSeq(bytes, 1, size)
            x == Decode(T, p)
<1>1. /\ Support(c) = "array" /\ c.recordType \in {"aai", "waveformIn"}
      /\ c.ftvl = d.ftvl /\ c.dataSize = d.dataSize /\ c.nelm = 1 /\ c.requested = requested
      /\ T \in PlcDataTypes /\ SizeOfType(T) = c.dataSize
      /\ T \in ArrayType(requested, c.dataSize, ArrayInRequested(c.ftvl), ArrayInDefault(c.ftvl))
      /\ IoBufferSizeInBits(c) = size * ByteBits
      /\ size \in Nat /\ size >= 1 /\ size <= IoBufferSizeInBytes(d)
  BY ReaderFields
<1>2. T \notin {"bool", "float"} /\ c.ftvl # "STRING"
  BY <1>1
<1>3. c.ftvl \in ElementTypes /\ c.ftvl \in ElementTypes \ {"STRING"} /\ Len(bytes) \in Nat
      /\ IoBufferSizeInBytes(d) \in Nat
  <2>1. d.ftvl \in ElementTypes
    BY Fields DEF IsActive
  <2>2. IoBufferSizeInBytes(d) \in Nat
    BY Sizes, Buffers
  <2>. QED
    BY <1>1, <1>2, <2>1, <2>2
<1>. HIDE DEF c, T, size
<1>4. size <= Len(bytes) /\ IoBufferSizeInBytes(c) = size
  BY <1>1, <1>3, WholeBytes
<1>5. b = [i \in 1..size |-> bytes[i]]
  <2>. DEFINE part(i) == IF i * ByteBits <= IoBufferSizeInBits(c) THEN bytes[i]
                         ELSE Unsigned(bytes[i], IoBufferSizeInBits(c) % ByteBits)
  <2>1. b = [i \in 1..size |-> part(i)]
    BY <1>4 DEF Buffer
  <2>2. ASSUME NEW i \in 1..size PROVE part(i) = bytes[i]
    <3>1. i \in Int /\ i <= size /\ size \in Int /\ ByteBits \in Nat
      BY <1>1, Widths
    <3>2. i * ByteBits <= size * ByteBits
      BY <3>1, Products
    <3>. QED
      BY <1>1, <3>2
  <2>. HIDE DEF part
  <2>. QED
    BY <2>1, <2>2, Zenon
<1>6. p = [i \in 1..size |-> bytes[i]] /\ p \in [1..size -> Bytes]
  <2>1. p = [i \in 1..size |-> bytes[i]]
    BY <1>1, <1>4
  <2>2. \A i \in 1..size : bytes[i] \in Bytes
    BY <1>1, <1>3, <1>4
  <2>. QED
    BY <2>1, <2>2
<1>7. Part(b, 1, size) = p
  <2>. DEFINE f == [i \in 1..size |-> bytes[i]]
  <2>1. f \in [1..size -> Bytes]
    BY <1>6
  <2>. HIDE DEF f
  <2>2. SubSeq(f, 1, size) = f
    <3>1. f \in Seq(Bytes) /\ Len(f) = size
      BY <1>1, <2>1, SequenceOf
    <3>. QED
      BY <1>1, <2>1, <3>1
  <2>3. (1 - 1) * size + 1 = 1 /\ 1 * size = size
    BY <1>1
  <2>. QED
    BY <1>5, <1>6, <2>2, <2>3 DEF Part, f
<1>8. ArrayRead(c, b) = <<ElementOf(c.ftvl, x)>>
  <2>1. ArrayRead(c, b) = [i \in 1..1 |-> ElementOf(c.ftvl, Decode(T, Part(b, i, size)))]
    BY <1>1, <1>2 DEF ArrayRead, T, size
  <2>. HIDE DEF b, p, x
  <2>. DEFINE g(i) == ElementOf(c.ftvl, Decode(T, Part(b, i, size)))
  <2>2. g(1) = ElementOf(c.ftvl, x)
    BY <1>7 DEF x
  <2>. HIDE DEF g
  <2>3. [i \in 1..1 |-> g(i)] = <<g(1)>>
    OBVIOUS
  <2>. QED
    BY <2>1, <2>2, <2>3 DEF g
<1>9. p \in [1..BytesOf(SizeOfType(T)) -> Bytes]
  BY <1>1, <1>6 DEF size
<1>. HIDE DEF p, b
<1>10. x \in RangeOf(T)
  BY <1>1, <1>2, <1>9, DecodeRange
<1>. HIDE DEF x
<1>11. ElementOf(c.ftvl, x) = x
  BY <1>1, <1>2, <1>3, <1>10, ElementsHoldPlc
<1>12. Meaning(T, p) = x
  <2>1. T \in PlcDataTypes \ {"bool", "float"} /\ size = BytesOf(SizeOfType(T))
    BY <1>1, <1>2 DEF size
  <2>. QED
    BY <1>1, <1>6, <2>1, MeaningOfBytes DEF x
<1>13. s.val = ArrayRead(c, b)
  <2>1. Support(c) \in Six
    BY <1>1 DEF Six
  <2>. QED
    BY <1>1, <2>1, RecordIsRead DEF b
<1>14. Processed(c, s) = s
  BY <1>1 DEF Processed
<1>. QED
  BY <1>8, <1>11, <1>12, <1>13, <1>14 DEF c, T, size, p

------------------------------------------------------------------------------
(***************************************************************************)
(* The record and the memory.                                              *)
(***************************************************************************)
\* A record that is initialized with the value in the memory, and the memory after it has
\* been processed without another value.
Started(c, bytes) == Initialized(c, WriteToRecord(c, bytes, EmptyRecord(c)))
AfterRestart(c, bytes) == Written(c, ReadFromRecord(c, Converted(c, Started(c, bytes))), bytes)

\* A memory that is large enough for a record.
IsMemory(c, bytes) == bytes \in Seq(Bytes) /\ IoBufferSizeInBytes(c) <= Len(bytes)

\* What a record with the state of an mbboDirect record shows in its bits.
LEMMA BitsAreValue ==
  ASSUME NEW c, IsActive(c), NEW bytes, IsMemory(c, bytes), c.recordType = "mbboDirect", ShiftIsWritten(c)
  PROVE  Started(c, bytes).bits = Started(c, bytes).val
<1>. DEFINE r == Started(c, bytes)
            b == Buffer(c, bytes)
            x == NumberIn(c, b)
            m == MultiBinaryRead(c, x)
            D == BitsOf(c.dataSize)
            W == Int32Bits
            n == m \div TwoTo[c.shft]
<1>1. Support(c) = "multiBinary" /\ Support(c) \in Numeric
  BY Kinds DEF Support, Numeric
<1>2. r = [val |-> ValueIn(c, b), rval |-> r.rval, bits |-> r.bits]
      /\ r.rval = m /\ r.bits = Masked(c, r.rval \div TwoTo[c.shft])
  BY <1>1, RecordIsInitialized DEF Started
<1>3. ValueIn(c, b) = State(c, m)
  BY <1>1 DEF ValueIn
<1>4. x \in Int
  BY <1>1, NumberInBuffer DEF IsMemory
<1>5. /\ D \in 0..W /\ D \in Nat /\ TwoTo[D] \in Nat /\ TwoTo[D] >= 1 /\ TwoTo[D] <= TwoTo[W]
      /\ TwoTo[W] \in Nat /\ TwoTo[c.shft] \in Nat /\ TwoTo[c.shft] >= 1
      /\ c.shft = 0 => TwoTo[c.shft] = 1
  BY <1>1, StateWidths
<1>6. m = Masked(c, x % TwoTo[D])
  BY DEF MultiBinaryRead, Unsigned
<1>. HIDE DEF r, x, m, D, b
<1>7. m \in 0..(TwoTo[W] - 1) /\ Masked(c, m) = m
  <2>. DEFINE y == x % TwoTo[D]
  <2>1. y \in 0..(TwoTo[D] - 1)
    BY <1>4, <1>5, Division
  <2>. HIDE DEF y
  <2>2. y \in 0..(TwoTo[W] - 1)
    BY <1>5, <2>1
  <2>3. m = Masked(c, y)
    BY <1>6 DEF y
  <2>. QED
    BY <2>2, <2>3, MaskedTwice, MaskedBits
<1>8. State(c, m) = n
  BY <1>1, <1>7, StateOf
<1>9. c.shft = 0 \/ Mask(c) = 0
  BY DEF ShiftIsWritten
<1>10. r.val = n /\ r.bits = Masked(c, n)
  <2>1. \A w, p, q : r = [val |-> w, rval |-> p, bits |-> q] => r.val = w
    OBVIOUS
  <2>. QED
    BY <1>2, <1>3, <1>8, <2>1
<1>11. CASE c.shft = 0
  <2>1. n = m
    BY <1>5, <1>7, <1>11
  <2>. HIDE DEF n
  <2>. QED
    BY <1>7, <1>10, <2>1 DEF r
<1>12. CASE Mask(c) = 0
  BY <1>10, <1>12 DEF Masked, r
<1>. QED
  BY <1>9, <1>11, <1>12

\* The memory and the record after the record has been processed.
LEMMA ProcessedMemory ==
  ASSUME NEW c, IsActive(c), NEW bytes, IsMemory(c, bytes), NEW rec, IsRecord(c, rec)
  PROVE  LET r == Converted(c, rec)
             b == Written(c, ReadFromRecord(c, r), bytes)
         IN /\ IsConverted(c, r) /\ IsRecord(c, r) /\ r.val = rec.val
            /\ IsMemory(c, b)
            /\ Buffer(c, b) = ReadFromRecord(c, r)
<1>. DEFINE r == Converted(c, rec)
            buffer == ReadFromRecord(c, r)
<1>1. IsConverted(c, r) /\ IsRecord(c, r) /\ r.val = rec.val
  BY ConvertedRecord DEF IsConverted
<1>2. buffer \in [1..IoBufferSizeInBytes(c) -> Bytes] /\ Buffer(c, buffer) = buffer
  BY <1>1, WrittenBuffer
<1>. HIDE DEF buffer
<1>3. IoBufferSizeInBits(c) \in Nat /\ IoBufferSizeInBits(c) >= 1
  BY Sizes
<1>4. /\ Written(c, buffer, bytes) \in Seq(Bytes)
      /\ Len(Written(c, buffer, bytes)) = Len(bytes)
      /\ Buffer(c, Written(c, buffer, bytes)) = buffer
  BY <1>2, <1>3, Buffers DEF IsMemory
<1>. QED
  BY <1>1, <1>4 DEF IsMemory, buffer

\* What a record has written where it reads it, it writes again after a restart.
LEMMA MemoryIsKept ==
  ASSUME NEW c, IsActive(c), NEW bytes, IsMemory(c, bytes), NEW rec, IsConverted(c, rec),
         WritesWhereItReads(c, rec.val), Buffer(c, bytes) = ReadFromRecord(c, rec)
  PROVE  AfterRestart(c, bytes) = bytes
<1>. DEFINE r == Started(c, bytes)
            b == Buffer(c, bytes)
<1>1. IsRecord(c, r)
  BY InitializedIsRecord DEF IsMemory, Started
<1>2. /\ r = [val |-> ValueIn(c, b), rval |-> r.rval, bits |-> r.bits]
      /\ Support(c) = "multiBinary" => r.rval = MultiBinaryRead(c, NumberIn(c, b))
  BY RecordIsInitialized DEF Started
<1>. HIDE DEF r
<1>3. r.val = ValueIn(c, b)
  <2>1. \A w, p, q : r = [val |-> w, rval |-> p, bits |-> q] => r.val = w
    OBVIOUS
  <2>. QED
    BY <1>2, <2>1
<1>4. WritesAgain(c, rec)
  BY RecordKeepsItsValue
<1>5. ReadFromRecord(c, Converted(c, r)) = b
  BY <1>1, <1>2, <1>3, <1>4 DEF WritesAgain
<1>6. IoBufferSizeInBits(c) \in Nat /\ IoBufferSizeInBits(c) >= 1
  BY Sizes
<1>7. Written(c, b, bytes) = bytes
  BY <1>6, Buffers DEF IsMemory
<1>. QED
  BY <1>5, <1>7 DEF AfterRestart, r

------------------------------------------------------------------------------
(***************************************************************************)
(* The inductive invariant.                                                *)
(***************************************************************************)
\* The types: the memory is large enough, and the fields are those of a record of its kind.
LoopTypeOK ==
  /\ config \in Outputs /\ IsActive(config)
  /\ IsMemory(config, memory)
  /\ IsRecord(config, record)
  /\ phase \in {"off", "blank", "started", "changed", "written"}
  /\ mine \in BOOLEAN

\* What a record has to do with the memory.
RecordIsOfPhase ==
  /\ phase = "off" => record = EmptyRecord(config)
  /\ phase = "started" => record = Started(config, memory)
  /\ phase = "written" =>
       IsConverted(config, record) /\ Buffer(config, memory) = ReadFromRecord(config, record)

\* A record that has been started again and processed leaves the memory as it is.
WrittenMemoryIsKept == mine => AfterRestart(config, memory) = memory

\* The inductive invariant.
LoopInv == LoopTypeOK /\ RecordIsOfPhase /\ WrittenMemoryIsKept

\* The invariant holds at first.
LEMMA LoopInvInit == LoopInit => LoopInv
<1>. SUFFICES ASSUME LoopInit PROVE LoopInv
  OBVIOUS
<1>1. config \in Outputs /\ IsActive(config)
  BY OutputsAssumption DEF LoopInit, IsActive
<1>2. IsMemory(config, memory)
  BY <1>1, ContentsAssumption DEF LoopInit, IsMemory, IsActive
<1>3. IsRecord(config, record)
  BY <1>1, EmptyIsRecord DEF LoopInit
<1>. QED
  BY <1>1, <1>2, <1>3 DEF LoopInit, LoopInv, LoopTypeOK, RecordIsOfPhase, WrittenMemoryIsKept

\* No step violates it: a case for each action.
LEMMA LoopInvNext == LoopInv /\ [LoopNext]_loopVars => LoopInv'
<1>. SUFFICES ASSUME LoopInv, [LoopNext]_loopVars PROVE LoopInv'
  OBVIOUS
<1>. USE DEF LoopInv, LoopTypeOK
<1>1. CASE InitRecord
  <2>1. UNCHANGED <<config, memory, mine>> /\ record = EmptyRecord(config)
    BY <1>1 DEF InitRecord, RecordIsOfPhase
  <2>2. CASE phase' = "started" /\ record' = Initialized(config, WriteToRecord(config, memory, record))
    <3>1. record' = Started(config, memory)
      BY <2>1, <2>2 DEF Started
    <3>2. IsRecord(config, record')
      BY <3>1, InitializedIsRecord DEF IsMemory, Started
    <3>. QED
      BY <2>1, <2>2, <3>1, <3>2 DEF RecordIsOfPhase, WrittenMemoryIsKept
  <2>3. CASE phase' = "blank" /\ UNCHANGED record
    BY <2>1, <2>3 DEF RecordIsOfPhase, WrittenMemoryIsKept
  <2>. QED
    BY <1>1, <2>2, <2>3 DEF InitRecord
<1>2. CASE Put
  <2>1. PICK v \in Values(config) : record' = [record EXCEPT !.val = v]
    BY <1>2 DEF Put
  <2>2. UNCHANGED <<config, memory, mine>> /\ phase' = "changed"
    BY <1>2 DEF Put
  <2>3. v \in LegalValues(config)
    BY ValuesAssumption DEF IsActive
  <2>4. IsRecord(config, record')
    BY <2>1, <2>3, PutIsRecord
  <2>. QED
    BY <2>2, <2>4 DEF RecordIsOfPhase, WrittenMemoryIsKept
<1>3. CASE Process
  <2>1. /\ record' = Converted(config, record)
        /\ memory' = Written(config, ReadFromRecord(config, record'), memory)
        /\ mine' = WritesWhereItReads(config, record.val)
        /\ phase' = "written" /\ config' = config
    BY <1>3 DEF Process
  <2>2. /\ IsConverted(config, record') /\ IsRecord(config, record') /\ record'.val = record.val
        /\ IsMemory(config, memory')
        /\ Buffer(config, memory') = ReadFromRecord(config, record')
    BY <2>1, ProcessedMemory
  <2>3. ASSUME mine' PROVE AfterRestart(config, memory') = memory'
    BY <2>1, <2>2, <2>3, MemoryIsKept
  <2>4. mine' \in BOOLEAN
    BY <2>1 DEF WritesWhereItReads
  <2>. QED
    BY <2>1, <2>2, <2>3, <2>4 DEF RecordIsOfPhase, WrittenMemoryIsKept
<1>4. CASE Restart
  <2>1. UNCHANGED <<config, memory, mine>> /\ phase' = "off" /\ record' = EmptyRecord(config)
    BY <1>4 DEF Restart
  <2>2. IsRecord(config, record')
    BY <2>1, EmptyIsRecord
  <2>. QED
    BY <2>1, <2>2 DEF RecordIsOfPhase, WrittenMemoryIsKept
<1>5. CASE PlcChanges
  <2>1. UNCHANGED <<config, record, phase>> /\ phase = "off" /\ memory' \in Contents /\ mine' = FALSE
    BY <1>5 DEF PlcChanges
  <2>2. IsMemory(config, memory')
    BY <2>1, ContentsAssumption DEF IsMemory, IsActive
  <2>. QED
    BY <2>1, <2>2 DEF RecordIsOfPhase, WrittenMemoryIsKept
<1>6. CASE UNCHANGED loopVars
  BY <1>6 DEF loopVars, RecordIsOfPhase, WrittenMemoryIsKept
<1>. QED
  BY <1>1, <1>2, <1>3, <1>4, <1>5, <1>6 DEF LoopNext

\* The invariant holds in every state.
THEOREM LoopInvariance == LoopSpec => []LoopInv
  BY LoopInvInit, LoopInvNext, PTL DEF LoopSpec

------------------------------------------------------------------------------
(***************************************************************************)
(* The properties.                                                         *)
(***************************************************************************)
\* The input record of the same kind shows the value in the memory.
LEMMA ShownByPartner ==
  ASSUME LoopInv, HasPartner(config)
  PROVE  Shown(Partner(config)) = ValueIn(config, Buffer(config, memory))
  BY PartnerShows DEF Shown, LoopInv, LoopTypeOK

\* What a record has written is what an input record of the same kind shows.
THEOREM LoopShowsWrittenValue == LoopSpec => []WrittenValueIsShown
<1>1. LoopInv => WrittenValueIsShown
  <2>. SUFFICES ASSUME LoopInv, phase = "written", Fits(config, record.val), HasPartner(config)
                PROVE  Shown(Partner(config)) = record.val
    BY DEF WrittenValueIsShown
  <2>1. IsConverted(config, record) /\ Buffer(config, memory) = ReadFromRecord(config, record)
    BY DEF LoopInv, RecordIsOfPhase
  <2>2. ShowsWritten(config, record)
    BY <2>1, RecordKeepsItsValue DEF LoopInv, LoopTypeOK
  <2>3. ValueIn(config, ReadFromRecord(config, record)) = record.val
    BY <2>2 DEF ShowsWritten
  <2>. QED
    BY <2>1, <2>3, ShownByPartner
<1>. QED
  BY <1>1, LoopInvariance, PTL

\* A record that starts with a value shows the value of the PLC.
THEOREM LoopStartsWithValueOfPlc == LoopSpec => []StartsWithValueOfPlc
<1>1. LoopInv => StartsWithValueOfPlc
  <2>. SUFFICES ASSUME LoopInv, phase = "started"
                PROVE  /\ HasPartner(config) => Shown(Partner(config)) = record.val
                       /\ config.recordType = "mbboDirect" /\ ShiftIsWritten(config)
                            => record.bits = record.val
    BY DEF StartsWithValueOfPlc
  <2>1. record = Started(config, memory) /\ IsActive(config) /\ IsMemory(config, memory)
    BY DEF LoopInv, LoopTypeOK, RecordIsOfPhase
  <2>2. record.val = ValueIn(config, Buffer(config, memory))
    <3>. DEFINE r == Started(config, memory)
                v == ValueIn(config, Buffer(config, memory))
    <3>1. r = [val |-> v, rval |-> r.rval, bits |-> r.bits]
      BY <2>1, RecordIsInitialized DEF Started
    <3>. HIDE DEF r, v
    <3>2. r.val = v
      <4>1. \A w, p, q : r = [val |-> w, rval |-> p, bits |-> q] => r.val = w
        OBVIOUS
      <4>. QED
        BY <3>1, <4>1
    <3>. QED
      BY <2>1, <3>2 DEF r, v
  <2>. QED
    BY <2>1, <2>2, ShownByPartner, BitsAreValue
<1>. QED
  BY <1>1, LoopInvariance, PTL

\* A restart is bumpless.
THEOREM LoopRestartIsBumpless == LoopSpec => RestartIsBumpless
<1>1. LoopInv /\ [LoopNext]_loopVars => [phase = "started" /\ mine /\ Process => memory' = memory]_loopVars
  <2>. SUFFICES ASSUME LoopInv, phase = "started", mine, Process PROVE memory' = memory
    OBVIOUS
  <2>1. record = Started(config, memory) /\ AfterRestart(config, memory) = memory
    BY DEF LoopInv, RecordIsOfPhase, WrittenMemoryIsKept
  <2>2. memory' = Written(config, ReadFromRecord(config, Converted(config, record)), memory)
    BY DEF Process
  <2>. QED
    BY <2>1, <2>2 DEF AfterRestart
<1>. QED
  BY <1>1, LoopInvariance, PTL DEF LoopSpec, RestartIsBumpless

\* An array shows the numbers of the PLC.
THEOREM LoopArraysShowNumbers == LoopSpec => []ArraysShowTheNumbersOfThePlc
<1>1. LoopInv => ArraysShowTheNumbersOfThePlc
  <2>. SUFFICES ASSUME LoopInv, Support(config) = "array",
                       NEW requested \in {{}} \union {{t} : t \in PlcDataTypes},
                       Reader(config, requested).ftvl # "STRING",
                       TypesOf(Reader(config, requested)) # {},
                       Type(Reader(config, requested)) \notin {"bool", "float"}
                PROVE  LET c == Reader(config, requested)
                       IN Shown(c) = <<Meaning(Type(c), SubSeq(memory, 1, BytesOf(c.dataSize)))>>
    BY DEF ArraysShowTheNumbersOfThePlc, Reader
  <2>1. IsActive(config) /\ memory \in Seq(Bytes) /\ IoBufferSizeInBytes(config) <= Len(memory)
    BY DEF LoopInv, LoopTypeOK, IsMemory
  <2>2. requested \in SUBSET PlcDataTypes
    OBVIOUS
  <2>3. Reader(config, requested).ftvl = config.ftvl
    BY <2>1 DEF IsActive, IsConfiguration, Configurations, Reader
  <2>. QED
    BY <2>1, <2>2, <2>3, ReaderShows DEF Shown
<1>. QED
  BY <1>1, LoopInvariance, PTL
==============================================================================
