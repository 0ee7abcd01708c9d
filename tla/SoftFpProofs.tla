---------------------------- MODULE SoftFpProofs ----------------------------
(***************************************************************************)
(* What the operations of SoftFp return, for a format of any size: a word  *)
(* and the five flags, so the assertions of normalize_sf and normalize2_sf *)
(* hold whatever the operands are.  The bounds that show it need the       *)
(* products of mul_u and the quotients of divrem_u to be exact, by halves  *)
(* and bit by bit too, and the roots of sqrtrem_u to be small.             *)
(***************************************************************************)
EXTENDS SoftFp, FiniteSetTheorems, WellFoundedInduction, TLAPS

-----------------------------------------------------------------------------
(* Powers of two, as numbers of subsets.                                   *)

\* A set of numbers has a least one.
LEMMA LeastOf ==
    ASSUME NEW S, S \subseteq Nat, S # {}
    PROVE  \E least \in S : \A other \in S : least <= other
<1>1. PICK least \in S : \A other \in S : <<other, least>> \notin OpToRel(<, Nat)
  BY NatLessThanWellFounded, WFMin
<1>2. ASSUME NEW other \in S PROVE least <= other
  <2>1. <<other, least>> \notin {pair \in Nat \X Nat : pair[1] < pair[2]}
    BY <1>1 DEF OpToRel
  <2> QED BY <2>1
<1> QED BY <1>2

\* Induction on a set of numbers.
LEMMA FromZero ==
    ASSUME NEW P, 0 \in P, \A k \in Nat : k \in P => k + 1 \in P
    PROVE  \A k \in Nat : k \in P
<1> DEFINE Bad == {k \in Nat : k \notin P}
<1> SUFFICES ASSUME Bad # {} PROVE FALSE
  OBVIOUS
<1>1. PICK m \in Bad : \A other \in Bad : m <= other
  <2>1. Bad \subseteq Nat
    OBVIOUS
  <2> HIDE DEF Bad
  <2> QED BY <2>1, LeastOf
<1>2. m \in Nat /\ m # 0
  OBVIOUS
<1>3. m - 1 \notin Bad
  <2>1. ~(m <= m - 1)
    BY <1>2
  <2> HIDE DEF Bad
  <2> QED BY <1>1, <2>1
<1>4. m - 1 \in P /\ m - 1 \in Nat /\ m - 1 + 1 = m
  BY <1>2, <1>3
<1> QED BY <1>4

\* The subsets of n elements.
LEMMA PowerCounts ==
    ASSUME NEW n \in Nat
    PROVE  IsFiniteSet(SUBSET (1..n)) /\ Cardinality(SUBSET (1..n)) = 2^n
<1>1. 1 \in Int /\ n \in Int
  OBVIOUS
<1>2. IsFiniteSet(1..n) /\ Cardinality(1..n) = IF 1 > n THEN 0 ELSE n - 1 + 1
  BY <1>1, FS_Interval, ZenonT(30)
<1>3. Cardinality(1..n) = n
  BY <1>2
<1>4. IsFiniteSet(SUBSET (1..n)) /\ Cardinality(SUBSET (1..n)) = 2^Cardinality(1..n)
  BY <1>2, FS_SUBSET, ZenonT(30)
<1> QED BY <1>3, <1>4, Zenon

\* A power of two is a positive number.
LEMMA PowerIsNat ==
    ASSUME NEW n \in Nat
    PROVE  2^n \in Nat /\ 2^n >= 1
<1>1. Cardinality(SUBSET (1..n)) \in Nat /\ (Cardinality(SUBSET (1..n)) = 0 <=> SUBSET (1..n) = {})
  BY PowerCounts, FS_CardinalityType, FS_EmptySet, ZenonT(30)
<1>2. SUBSET (1..n) # {}
  OBVIOUS
<1> DEFINE p == 2^n
<1>3. p \in Nat /\ p # 0
  BY <1>1, <1>2, PowerCounts, Zenon
<1> HIDE DEF p
<1>4. p \in Nat /\ p >= 1
  BY <1>3
<1> QED BY <1>4 DEF p

\* Each element more doubles their number: the subsets without it and those with it.
LEMMA PowerStep ==
    ASSUME NEW n \in Nat
    PROVE  2^(n + 1) = 2 * 2^n
<1> DEFINE N == n + 1
           A == SUBSET (1..n)
           B == {T \cup {N} : T \in A}
<1>1. IsFiniteSet(A) /\ Cardinality(A) = 2^n
  BY PowerCounts, Zenon
<1>2. 1..N = (1..n) \cup {N} /\ N \notin 1..n /\ N \in Nat
  OBVIOUS
<1> HIDE DEF N
<1>3. SUBSET (1..N) = A \cup B
  <2>1. ASSUME NEW T \in SUBSET (1..N) PROVE T \in A \cup B
    <3>1. CASE N \in T
      <4>1. T \ {N} \in A
        BY <1>2, Zenon
      <4>2. T = (T \ {N}) \cup {N}
        BY <3>1
      <4> QED BY <4>1, <4>2, Zenon
    <3>2. CASE N \notin T
      BY <3>2, <1>2, Zenon
    <3> QED BY <3>1, <3>2, Zenon
  <2>2. \A T \in A : T \subseteq 1..N /\ T \cup {N} \subseteq 1..N
    BY <1>2, Zenon
  <2> QED BY <2>1, <2>2
<1>4. A \cap B = {}
  BY <1>2, Zenon
<1>5. IsFiniteSet(B) /\ Cardinality(B) = 2^n
  <2> DEFINE g == [T \in A |-> T \cup {N}]
  <2>1. \A S, T \in A : g[S] = g[T] => S = T
    <3>1. SUFFICES ASSUME NEW S \in A, NEW T \in A, S \cup {N} = T \cup {N} PROVE S = T
      BY Zenon
    <3>2. N \notin S /\ N \notin T
      BY <1>2, Zenon
    <3> QED BY <3>1, <3>2
  <2>2. g \in [A -> B] /\ \A t \in B : \E s \in A : g[s] = t
    BY Zenon
  <2> HIDE DEF A, B, g
  <2>3. g \in Bijection(A, B)
    BY <2>1, <2>2, Zenon DEF Bijection, Injection, Surjection, IsInjective
  <2>4. ExistsBijection(A, B)
    BY <2>3, Zenon DEF ExistsBijection
  <2> QED BY <1>1, <2>4, FS_Bijection, Zenon
<1> HIDE DEF A, B
<1>6. Cardinality(A \cup B) = Cardinality(A) + Cardinality(B) - Cardinality(A \cap B)
  BY <1>1, <1>5, FS_Union, Zenon
<1>7. Cardinality(A \cap B) = 0
  BY <1>4, FS_EmptySet, Zenon
<1>8. Cardinality(SUBSET (1..N)) = 2^N
  BY <1>2, PowerCounts, Zenon
<1>9. 2^N = 2^n + 2^n - 0
  BY <1>1, <1>3, <1>5, <1>6, <1>7, <1>8, Zenon
<1> DEFINE p == 2^n
<1>10. p \in Nat
  BY PowerIsNat, Zenon
<1> HIDE DEF p
<1>11. p + p - 0 = 2 * p
  BY <1>10
<1> QED BY <1>9, <1>11, Zenon DEF p, N

\* A power of a sum is a product of powers.
LEMMA PowerAdd ==
    ASSUME NEW a \in Nat, NEW b \in Nat
    PROVE  2^(a + b) = 2^a * 2^b
<1> DEFINE P == {k \in Nat : 2^(a + k) = 2^a * 2^k}
<1>1. 0 \in P
  <2>1. a + 0 = a /\ 2^0 = 1 /\ 2^a \in Nat
    BY PowerIsNat
  <2>2. 2^a * 1 = 2^a
    BY <2>1
  <2>3. 2^(a + 0) = 2^a * 2^0
    BY <2>1, <2>2, Zenon
  <2> QED BY <2>3
<1>2. ASSUME NEW k \in Nat, k \in P PROVE k + 1 \in P
  <2> DEFINE p == 2^a
             q == 2^k
  <2>1. p \in Nat /\ q \in Nat
    BY PowerIsNat
  <2>2. 2^(a + k) = p * q
    BY <1>2
  <2>3. 2^(k + 1) = 2 * q
    BY PowerStep
  <2>4. a + (k + 1) = (a + k) + 1 /\ a + k \in Nat
    OBVIOUS
  <2>5. 2^((a + k) + 1) = 2 * 2^(a + k)
    BY <2>4, PowerStep
  <2> HIDE DEF p, q
  <2>6. 2 * (p * q) = p * (2 * q)
    BY <2>1
  <2>7. 2^(a + (k + 1)) = p * 2^(k + 1)
    BY <2>2, <2>3, <2>4, <2>5, <2>6, Zenon
  <2> QED BY <2>7 DEF p
<1> HIDE DEF P
<1>3. b \in P
  BY <1>1, <1>2, FromZero
<1> QED BY <1>3 DEF P

\* Powers grow, and faster than their exponents.
LEMMA PowerGrows ==
    ASSUME NEW a \in Nat, NEW b \in Nat
    PROVE  /\ a <= b => 2^a <= 2^b
           /\ a < b => 2 * 2^a <= 2^b
           /\ a < 2^a
<1>1. ASSUME NEW c \in Nat, NEW d \in Nat, c <= d PROVE 2^c <= 2^d
  <2> DEFINE p == 2^c
             q == 2^(d - c)
  <2>1. d - c \in Nat /\ d = c + (d - c)
    BY <1>1
  <2>2. 2^(c + (d - c)) = p * q
    BY <2>1, PowerAdd, Zenon
  <2>3. p \in Nat /\ q \in Nat /\ q >= 1
    BY <2>1, PowerIsNat
  <2> HIDE DEF p, q
  <2>4. p <= p * q
    BY <2>3
  <2>5. 2^d = p * q
    BY <2>1, <2>2, Zenon
  <2> QED BY <2>4, <2>5 DEF p
<1>2. a < b => 2 * 2^a <= 2^b
  <2> SUFFICES ASSUME a < b PROVE 2^(a + 1) <= 2^b
    BY PowerStep
  <2>1. a + 1 \in Nat /\ a + 1 <= b
    OBVIOUS
  <2> QED BY <2>1, <1>1
<1>3. a < 2^a
  <2> DEFINE P == {k \in Nat : k < 2^k}
  <2>1. 0 \in P
    OBVIOUS
  <2>2. ASSUME NEW k \in Nat, k \in P PROVE k + 1 \in P
    <3> DEFINE p == 2^k
    <3>1. p \in Nat /\ k < p /\ 2^(k + 1) = 2 * p
      BY <2>2, PowerIsNat, PowerStep
    <3> HIDE DEF p
    <3>2. k + 1 < 2 * p
      BY <3>1
    <3> QED BY <3>1, <3>2
  <2> HIDE DEF P
  <2>3. a \in P
    BY <2>1, <2>2, FromZero
  <2> QED BY <2>3 DEF P
<1> QED BY <1>1, <1>2, <1>3

-----------------------------------------------------------------------------
(* Quotients and remainders.                                               *)

\* A number is its quotient and its remainder.
LEMMA DivMod ==
    ASSUME NEW a \in Int, NEW n \in Nat \ {0}
    PROVE  a \div n \in Int /\ a % n \in 0..(n - 1) /\ a = n * (a \div n) + (a % n)
  OBVIOUS

\* Quotient and remainder are the only ones.
LEMMA DivModUnique ==
    ASSUME NEW n \in Nat \ {0}, NEW q \in Int, NEW r \in 0..(n - 1), NEW a \in Int, a = n * q + r
    PROVE  a \div n = q /\ a % n = r
<1> DEFINE d == a \div n
           m == a % n
<1>1. d \in Int /\ m \in 0..(n - 1) /\ a = n * d + m
  BY DivMod
<1> HIDE DEF d, m
<1>2. n * (q - d) = m - r
  BY <1>1
<1>3. q - d >= 1 => n * (q - d) >= n
  BY <1>1
<1>4. q - d <= -1 => n * (q - d) <= -n
  BY <1>1
<1>5. q - d = 0
  BY <1>1, <1>2, <1>3, <1>4
<1>6. d = q /\ n * (q - d) = 0
  BY <1>1, <1>5
<1>7. m = r
  BY <1>1, <1>2, <1>6
<1> QED BY <1>6, <1>7 DEF d, m

\* A quotient is no larger than its dividend.
LEMMA DivNat ==
    ASSUME NEW a \in Nat, NEW n \in Nat \ {0}
    PROVE  a \div n \in Nat /\ a \div n <= a
<1> DEFINE d == a \div n
           m == a % n
<1>1. d \in Int /\ m \in 0..(n - 1) /\ a = n * d + m
  BY DivMod
<1> HIDE DEF d, m
<1>2. d <= -1 => n * d <= -n
  BY <1>1
<1>3. d \in Nat
  BY <1>1, <1>2
<1>4. n * d >= d
  BY <1>3
<1> QED BY <1>1, <1>3, <1>4 DEF d

-----------------------------------------------------------------------------
(* A format and its words.                                                 *)

Words == 0..(2^F_SIZE - 1)
\* The flags of fflags: a failing assertion's is none of them.
Flags == {"NV", "DZ", "OF", "UF", "NX"}
\* What an operation returns.
WordResult(r) == r.v \in Words /\ r.fl \subseteq Flags

\* The numbers of mantissas, of exponents and of magnitudes.
MANTS == 2^MANT_SIZE
EXPS == 2^EXP_SIZE
TOP == 2^(F_SIZE - 1)

\* The numbers a format's sizes stand for, and how they relate.
LEMMA Format ==
    ASSUME FormatSuits
    PROVE  /\ F_SIZE \in Nat /\ F_SIZE >= 8 /\ F_SIZE - 1 \in Nat
           /\ RND_SIZE \in Nat /\ RND_SIZE >= 1 /\ RND_SIZE - 1 \in Nat
           /\ MANTS \in Nat /\ MANTS >= 4 /\ EXPS \in Nat /\ EXPS >= 32
           /\ TOP = EXPS * MANTS /\ TOP \in Nat /\ 2^F_SIZE = 2 * TOP
           /\ EXP_MASK = EXPS - 1 /\ MANT_MASK = MANTS - 1
           /\ 2^(MANT_SIZE - 1) \in Nat /\ 2 * 2^(MANT_SIZE - 1) = MANTS
           /\ BIAS \in Nat /\ EXPS = 2 * BIAS + 2
<1>1. /\ EXP_SIZE \in Nat /\ EXP_SIZE >= 5 /\ MANT_SIZE \in Nat /\ MANT_SIZE >= 2
      /\ F_SIZE = EXP_SIZE + MANT_SIZE + 1 /\ RND_SIZE = F_SIZE - 2 - MANT_SIZE
  BY DEF FormatSuits, F_SIZE, RND_SIZE, IMANT_SIZE
<1>2. /\ F_SIZE \in Nat /\ F_SIZE >= 8 /\ F_SIZE - 1 \in Nat /\ F_SIZE - 1 = EXP_SIZE + MANT_SIZE
      /\ RND_SIZE \in Nat /\ RND_SIZE >= 1 /\ RND_SIZE - 1 \in Nat /\ F_SIZE = (F_SIZE - 1) + 1
      /\ MANT_SIZE - 1 \in Nat /\ MANT_SIZE = (MANT_SIZE - 1) + 1
      /\ EXP_SIZE - 1 \in Nat /\ EXP_SIZE = (EXP_SIZE - 1) + 1
  BY <1>1
<1>3. MANTS \in Nat /\ MANTS >= 4
  <2>1. 2^2 <= 2^MANT_SIZE /\ 2^MANT_SIZE \in Nat
    BY <1>1, PowerGrows, PowerIsNat
  <2> QED BY <2>1 DEF MANTS
<1>4. EXPS \in Nat /\ EXPS >= 32
  <2>1. 2^5 <= 2^EXP_SIZE /\ 2^EXP_SIZE \in Nat
    BY <1>1, PowerGrows, PowerIsNat
  <2> QED BY <2>1 DEF EXPS
<1>5. TOP = EXPS * MANTS
  <2>1. 2^(EXP_SIZE + MANT_SIZE) = 2^EXP_SIZE * 2^MANT_SIZE
    BY <1>1, PowerAdd
  <2>2. TOP = 2^(EXP_SIZE + MANT_SIZE)
    BY <1>2, Zenon DEF TOP
  <2> QED BY <2>1, <2>2, Zenon DEF EXPS, MANTS
<1>6. TOP \in Nat
  BY <1>2, PowerIsNat DEF TOP
<1>7. 2^F_SIZE = 2 * TOP
  <2>1. 2^((F_SIZE - 1) + 1) = 2 * 2^(F_SIZE - 1)
    BY <1>2, PowerStep, Zenon
  <2> QED BY <1>2, <2>1, Zenon DEF TOP
<1>8. 2^(MANT_SIZE - 1) \in Nat /\ 2 * 2^(MANT_SIZE - 1) = MANTS
  <2>1. 2^((MANT_SIZE - 1) + 1) = 2 * 2^(MANT_SIZE - 1) /\ 2^(MANT_SIZE - 1) \in Nat
    BY <1>2, PowerStep, PowerIsNat, Zenon
  <2> QED BY <1>2, <2>1, Zenon DEF MANTS
<1>9. 2^(EXP_SIZE - 1) \in Nat /\ 2 * 2^(EXP_SIZE - 1) = EXPS
  <2>1. 2^((EXP_SIZE - 1) + 1) = 2 * 2^(EXP_SIZE - 1) /\ 2^(EXP_SIZE - 1) \in Nat
    BY <1>2, PowerStep, PowerIsNat, Zenon
  <2> QED BY <1>2, <2>1, Zenon DEF EXPS
<1>10. EXP_MASK = EXPS - 1 /\ MANT_MASK = MANTS - 1
  BY DEF EXP_MASK, MANT_MASK, EXPS, MANTS
<1>11. BIAS \in Nat /\ EXPS = 2 * BIAS + 2
  <2> DEFINE h == 2^(EXP_SIZE - 1)
  <2>1. h \in Nat /\ EXPS = 2 * h
    BY <1>9
  <2> HIDE DEF h
  <2>2. (EXPS - 1) \div 2 = h - 1 /\ h - 1 \in Nat
    BY <2>1, <1>4
  <2> QED BY <2>1, <2>2, <1>10 DEF BIAS
<1> QED BY <1>2, <1>3, <1>4, <1>5, <1>6, <1>7, <1>8, <1>10, <1>11, Zenon

\* Sign, exponent and mantissa of a word.
LEMMA Fields ==
    ASSUME FormatSuits, NEW a \in Words
    PROVE  /\ Sign(a) \in {0, 1} /\ Exp(a) \in 0..EXP_MASK /\ Mant(a) \in 0..MANT_MASK
           /\ Magnitude(a) \in 0..(TOP - 1)
           /\ Magnitude(a) = Exp(a) * MANTS + Mant(a)
           /\ a = Sign(a) * TOP + Magnitude(a)
           /\ (Sign(a) = 1) = (a >= TOP)
<1> DEFINE P == MANTS
           Q == EXPS
           T == TOP
<1>1. P \in Nat \ {0} /\ Q \in Nat \ {0} /\ T \in Nat \ {0} /\ T = Q * P
      /\ a \in 0..(2 * T - 1) /\ a \in Nat /\ a \in Int
  <2>1. a \in 0..(2^F_SIZE - 1)
    BY DEF Words
  <2>2. MANTS * EXPS > 0
    BY Format
  <2> QED BY <2>1, <2>2, Format
<1> HIDE DEF P, Q, T
<1> DEFINE s == a \div T
           x == a % T
           d == a \div P
           m == a % P
<1>2. s \in Int /\ x \in 0..(T - 1) /\ a = T * s + x
  BY <1>1, DivMod, Zenon
<1>3. d \in Nat /\ m \in 0..(P - 1) /\ a = P * d + m
  BY <1>1, DivMod, DivNat, Zenon
<1> DEFINE e == d % Q
           k == d \div Q
<1>4. e \in 0..(Q - 1) /\ k \in Int /\ d = Q * k + e
  BY <1>1, <1>3, DivMod
<1> HIDE DEF s, x, d, m, e, k
<1>5. s \in {0, 1} /\ (s = 1 <=> a >= T)
  <2>1. s >= 2 => T * s >= 2 * T
    BY <1>1, <1>2
  <2>2. s <= -1 => T * s <= -T
    BY <1>1, <1>2
  <2>3. s \in {0, 1}
    BY <1>1, <1>2, <2>1, <2>2
  <2> QED BY <2>3, <1>1, <1>2
<1>6. a = T * k + (e * P + m)
  <2>1. P * (Q * k + e) = (Q * P) * k + e * P
    BY <1>1, <1>4
  <2> QED BY <1>1, <1>3, <1>4, <2>1
<1>7. e * P + m \in 0..(T - 1)
  <2>1. e * P <= (Q - 1) * P /\ e * P >= 0 /\ e * P \in Int
    BY <1>1, <1>4
  <2>2. (Q - 1) * P = T - P
    BY <1>1
  <2> QED BY <1>1, <1>3, <2>1, <2>2
<1>8. s = k /\ x = e * P + m
  <2>1. T \in Nat \ {0} /\ k \in Int /\ e * P + m \in 0..(T - 1) /\ a \in Int
    BY <1>1, <1>4, <1>7
  <2>2. a \div T = k /\ a % T = e * P + m
    BY <2>1, <1>6, DivModUnique
  <2> QED BY <2>2, Zenon DEF s, x
<1>9. T * s = s * T
  BY <1>1, <1>2
<1>10. Sign(a) = s /\ Exp(a) = e /\ Mant(a) = m /\ Magnitude(a) = x
  BY DEF Sign, Exp, Mant, Magnitude, s, e, d, m, x, P, Q, T, TOP, MANTS, EXPS
<1>11. EXP_MASK = Q - 1 /\ MANT_MASK = P - 1
  BY Format DEF Q, P
<1>12. a = s * T + x
  BY <1>2, <1>9
<1> HIDE DEF MANT_MASK, EXP_MASK
<1> QED BY <1>2, <1>3, <1>4, <1>5, <1>8, <1>10, <1>11, <1>12 DEF P, T

-----------------------------------------------------------------------------
(* Packing and rounding.                                                   *)

\* The low bits of any number are a mantissa.
LEMMA MantTyped ==
    ASSUME FormatSuits, NEW m \in Int
    PROVE  Mant(m) \in 0..MANT_MASK
<1>1. MANTS \in Nat \ {0} /\ MANT_MASK = MANTS - 1
  BY Format
<1> HIDE DEF MANT_MASK
<1>2. m % MANTS \in 0..(MANTS - 1)
  BY <1>1, DivMod, Zenon
<1> QED BY <1>1, <1>2 DEF Mant, MANTS

\* pack_sf returns a word.
LEMMA PackTyped ==
    ASSUME FormatSuits, NEW s \in {0, 1}, NEW e \in 0..EXP_MASK, NEW m \in Int
    PROVE  PackSf(s, e, m) \in Words
<1> DEFINE P == MANTS
           Q == EXPS
           T == TOP
           l == Mant(m)
<1>1. /\ P \in Nat /\ Q \in Nat /\ T \in Nat /\ T = Q * P /\ 2^F_SIZE = 2 * T
      /\ EXP_MASK = Q - 1 /\ MANT_MASK = P - 1 /\ l \in 0..MANT_MASK
  BY Format, MantTyped
<1>2. e \in 0..(Q - 1) /\ l \in 0..(P - 1)
  BY <1>1
<1>3. PackSf(s, e, m) = s * T + e * P + l
  BY DEF PackSf, T, TOP, P, MANTS
<1> HIDE DEF P, Q, T, l, EXP_MASK, MANT_MASK
<1>4. e * P <= (Q - 1) * P /\ e * P >= 0 /\ e * P \in Int /\ (Q - 1) * P = T - P
  BY <1>1, <1>2
<1>5. s * T + e * P + l \in 0..(2 * T - 1)
  <2>1. CASE s = 0
    BY <2>1, <1>1, <1>2, <1>4
  <2>2. CASE s = 1
    BY <2>2, <1>1, <1>2, <1>4
  <2> QED BY <2>1, <2>2
<1> QED BY <1>1, <1>3, <1>5 DEF Words

\* The words an operation returns for what is no number, and for infinity.
LEMMA ConstantWords ==
    ASSUME FormatSuits
    PROVE  /\ F_QNAN \in Words /\ \A s \in {0, 1} : Inf(s) \in Words
           /\ \A s \in {0, 1}, e \in 0..EXP_MASK, m \in Int : PackSf(s, e, m) \in Words
           /\ WordResult(Invalid)
           /\ \A args : WordResult(QuietOf(args))
<1>1. \A s \in {0, 1}, e \in 0..EXP_MASK, m \in Int : PackSf(s, e, m) \in Words
  BY PackTyped
<1>2. EXP_MASK \in 0..EXP_MASK /\ 0 \in Int /\ 0 \in {0, 1} /\ 2^(MANT_SIZE - 1) \in Int
  <2>1. EXPS \in Nat /\ EXPS >= 32 /\ EXP_MASK = EXPS - 1 /\ 2^(MANT_SIZE - 1) \in Nat
    BY Format
  <2> HIDE DEF EXP_MASK
  <2> QED BY <2>1
<1>3. F_QNAN \in Words /\ \A s \in {0, 1} : Inf(s) \in Words
  BY <1>1, <1>2, Zenon DEF F_QNAN, Inf
<1>4. 0 \in Words
  <2>1. TOP \in Nat /\ EXPS * MANTS > 0 /\ TOP = EXPS * MANTS /\ 2^F_SIZE = 2 * TOP
    BY Format
  <2> QED BY <2>1 DEF Words
<1> QED BY <1>1, <1>3, <1>4 DEF WordResult, Invalid, QuietOf, Res, Flags

\* A bit or-ed in adds one at most.
LEMMA OrBitTyped ==
    ASSUME NEW a \in Int, NEW c
    PROVE  OrBit(a, c) \in Int /\ OrBit(a, c) \in {a, a + 1}
  BY DEF OrBit

\* rshift_rnd returns a number.
LEMMA RShiftTyped ==
    ASSUME NEW a \in Int, NEW d \in Nat
    PROVE  RShiftRnd(a, d) \in Int
<1>1. 2^d \in Nat \ {0}
  BY PowerIsNat
<1>2. a \div 2^d \in Int
  BY <1>1, DivMod, Zenon
<1> HIDE DEF OrBit
<1>3. OrBit(a \div 2^d, a % 2^d # 0) \in Int
  BY <1>2, OrBitTyped, Zenon
<1> QED BY <1>3 DEF RShiftRnd, Bit

\* round_pack_sf's addend is a number.
LEMMA AddendTyped ==
    ASSUME FormatSuits, NEW s, NEW rm
    PROVE  Addend(s, rm) \in Int
<1>1. 2^RND_SIZE \in Nat /\ 2^(RND_SIZE - 1) \in Nat
  BY Format, PowerIsNat
<1> QED BY <1>1 DEF Addend

\* A rounded mantissa is a number.
LEMMA RoundedTyped ==
    ASSUME FormatSuits, NEW m \in Int, NEW s, NEW rm
    PROVE  Rounded(m, s, rm) \in Int
<1> DEFINE r == (m + Addend(s, rm)) \div 2^RND_SIZE
<1>1. 2^RND_SIZE \in Nat \ {0} /\ m + Addend(s, rm) \in Int
  BY Format, PowerIsNat, AddendTyped
<1>2. r \in Int
  BY <1>1, DivMod, Zenon
<1> HIDE DEF r
<1>3. r - (r % 2) \in Int
  BY <1>2
<1>4. Rounded(m, s, rm) \in {r, r - (r % 2)}
  BY DEF Rounded, r
<1> QED BY <1>2, <1>3, <1>4

\* round_pack_sf returns a word, whatever exponent and mantissa it is given.
LEMMA RoundPackTyped ==
    ASSUME FormatSuits, NEW s \in {0, 1}, NEW e \in Int, NEW m \in Int, NEW rm
    PROVE  WordResult(RoundPackSf(s, e, m, rm))
<1> DEFINE addend == Addend(s, rm)
           shifted == IF e <= 0 THEN RShiftRnd(m, 1 - e) ELSE m
           inexact == shifted % 2^RND_SIZE # 0
           isSubnormal == e < 0 \/ (e = 0 /\ m + addend < 2^(F_SIZE - 1))
           r == Rounded(shifted, s, rm)
           d == r \div 2^(MANT_SIZE + 1)
           re == (IF e <= 0 THEN 1 ELSE e) + d
           fl == (IF inexact THEN {"NX"} ELSE {})
                \cup (IF isSubnormal /\ inexact THEN {"UF"} ELSE {})
<1>1. RoundPackSf(s, e, m, rm) =
          CASE r <= MANT_MASK -> Res(PackSf(s, 0, r), fl)
          [] r > MANT_MASK /\ re < EXP_MASK -> Res(PackSf(s, re, r), fl)
          [] OTHER -> Res(IF addend = 0 THEN PackSf(s, EXP_MASK - 1, MANT_MASK)
                                        ELSE Inf(s), {"OF", "NX"} \cup fl)
  BY Zenon DEF RoundPackSf
<1>2. shifted \in Int
  <2>1. e <= 0 => 1 - e \in Nat
    OBVIOUS
  <2> QED BY <2>1, RShiftTyped
<1> HIDE DEF shifted
<1>3. r \in Int
  BY <1>2, RoundedTyped
<1> HIDE DEF r
<1>4. 2^(MANT_SIZE + 1) \in Nat \ {0} /\ 0 \in 0..EXP_MASK /\ EXP_MASK - 1 \in 0..EXP_MASK
      /\ EXP_MASK \in Nat /\ MANT_MASK \in Int /\ MANT_MASK >= 0
  <2>1. MANT_SIZE + 1 \in Nat
    BY DEF FormatSuits
  <2>2. EXPS \in Nat /\ EXPS >= 32 /\ EXP_MASK = EXPS - 1 /\ MANTS \in Nat /\ MANTS >= 4
        /\ MANT_MASK = MANTS - 1
    BY Format
  <2> HIDE DEF EXP_MASK, MANT_MASK
  <2> QED BY <2>1, <2>2, PowerIsNat
<1> HIDE DEF EXP_MASK, MANT_MASK
<1>5. d \in Int /\ (r > MANT_MASK => d >= 0)
  <2>1. d \in Int
    BY <1>3, <1>4, DivMod, Zenon
  <2>2. r > MANT_MASK => r \in Nat
    BY <1>3, <1>4
  <2>3. r > MANT_MASK => d \in Nat
    BY <1>4, <2>2, DivNat, Zenon
  <2> QED BY <2>1, <2>3
<1>6. fl \subseteq Flags /\ {"OF", "NX"} \cup fl \subseteq Flags
  BY DEF Flags
<1> HIDE DEF fl, d, addend
<1>7. CASE r <= MANT_MASK
  <2>1. PackSf(s, 0, r) \in Words
    BY <1>3, <1>4, PackTyped
  <2>2. ~(r > MANT_MASK)
    BY <1>7, <1>3, <1>4
  <2>3. RoundPackSf(s, e, m, rm) = Res(PackSf(s, 0, r), fl)
    BY <1>1, <1>7, <2>2
  <2> QED BY <2>1, <2>3, <1>6 DEF WordResult, Res
<1>8. CASE r > MANT_MASK /\ re < EXP_MASK
  <2>1. re \in 0..EXP_MASK
    BY <1>4, <1>5, <1>8
  <2>2. PackSf(s, re, r) \in Words
    BY <1>3, <2>1, PackTyped
  <2>3. ~(r <= MANT_MASK)
    BY <1>8, <1>3, <1>4
  <2>4. RoundPackSf(s, e, m, rm) = Res(PackSf(s, re, r), fl)
    BY <1>1, <1>8, <2>3
  <2> QED BY <2>2, <2>4, <1>6 DEF WordResult, Res
<1>9. CASE ~(r <= MANT_MASK) /\ ~(r > MANT_MASK /\ re < EXP_MASK)
  <2>1. PackSf(s, EXP_MASK - 1, MANT_MASK) \in Words /\ Inf(s) \in Words
    BY <1>4, PackTyped, ConstantWords
  <2> DEFINE w == IF addend = 0 THEN PackSf(s, EXP_MASK - 1, MANT_MASK) ELSE Inf(s)
  <2>2. w \in Words
    BY <2>1
  <2>3. RoundPackSf(s, e, m, rm) = Res(w, {"OF", "NX"} \cup fl)
    BY <1>1, <1>9
  <2> HIDE DEF w
  <2> QED BY <2>2, <2>3, <1>6 DEF WordResult, Res
<1> QED BY <1>7, <1>8, <1>9

\* A number of k bits has n - k leading zeros, and more if it has fewer bits.
LEMMA ClzBounds ==
    ASSUME NEW a \in Int, NEW n \in Nat, NEW k \in 0..n
    PROVE  /\ Clz(a, n) \in 0..n
           /\ a < 2^k => Clz(a, n) >= n - k
           /\ a >= 2^k => Clz(a, n) <= n - k - 1 \/ k = n
<1> DEFINE zeros == {i \in 0..(n - 1) : a < 2^i}
<1>1. k \in Nat /\ n - 1 \in Int /\ 0 \in Int
  OBVIOUS
<1>2. IsFiniteSet(0..(n - 1)) /\ Cardinality(0..(n - 1)) = n
  <2>1. IsFiniteSet(0..(n - 1)) /\ Cardinality(0..(n - 1)) = IF 0 > n - 1 THEN 0 ELSE n - 1 - 0 + 1
    BY <1>1, FS_Interval
  <2> QED BY <2>1
<1>3. IsFiniteSet(k..(n - 1)) /\ Cardinality(k..(n - 1)) = n - k
  <2>1. IsFiniteSet(k..(n - 1)) /\ Cardinality(k..(n - 1)) = IF k > n - 1 THEN 0 ELSE n - 1 - k + 1
    BY <1>1, FS_Interval
  <2> QED BY <2>1
<1>4. zeros \in SUBSET (0..(n - 1))
  OBVIOUS
<1>5. Clz(a, n) = Cardinality(zeros)
  BY DEF Clz
<1>6. IsFiniteSet(zeros) /\ Cardinality(zeros) \in Nat /\ Cardinality(zeros) <= n
  <2> HIDE DEF zeros
  <2> QED BY <1>2, <1>4, FS_Subset, FS_CardinalityType
<1>7. ASSUME a < 2^k PROVE Cardinality(zeros) >= n - k
  <2>1. ASSUME NEW i \in k..(n - 1) PROVE i \in zeros
    <3>1. i \in Nat /\ k <= i /\ i \in 0..(n - 1)
      BY <1>1
    <3>2. 2^k <= 2^i /\ 2^k \in Nat /\ 2^i \in Nat
      BY <1>1, <3>1, PowerGrows, PowerIsNat
    <3>3. a < 2^i
      BY <1>7, <3>2
    <3> QED BY <3>1, <3>3
  <2> HIDE DEF zeros
  <2>2. k..(n - 1) \in SUBSET zeros
    BY <2>1
  <2>3. Cardinality(k..(n - 1)) <= Cardinality(zeros)
    BY <1>6, <2>2, FS_Subset
  <2> QED BY <1>3, <2>3
<1>8. ASSUME a >= 2^k, k # n PROVE Cardinality(zeros) <= n - k - 1
  <2>1. IsFiniteSet((k + 1)..(n - 1)) /\ Cardinality((k + 1)..(n - 1)) = n - k - 1
    <3>1. k + 1 \in Int
      OBVIOUS
    <3>2. IsFiniteSet((k + 1)..(n - 1))
          /\ Cardinality((k + 1)..(n - 1)) = IF k + 1 > n - 1 THEN 0 ELSE n - 1 - (k + 1) + 1
      BY <1>1, <3>1, FS_Interval
    <3> QED BY <3>2, <1>8
  <2>2. ASSUME NEW i \in zeros PROVE i \in (k + 1)..(n - 1)
    <3>1. i \in Nat /\ a < 2^i /\ i <= n - 1
      OBVIOUS
    <3>2. i <= k => 2^i <= 2^k /\ 2^k \in Nat /\ 2^i \in Nat
      BY <1>1, <3>1, PowerGrows, PowerIsNat
    <3>3. ~(i <= k)
      BY <3>1, <3>2, <1>8
    <3> QED BY <3>1, <3>3
  <2> HIDE DEF zeros
  <2>3. zeros \in SUBSET ((k + 1)..(n - 1))
    BY <2>2
  <2>4. Cardinality(zeros) <= Cardinality((k + 1)..(n - 1))
    BY <2>1, <2>3, FS_Subset
  <2> QED BY <2>1, <2>4
<1> HIDE DEF zeros
<1> QED BY <1>5, <1>6, <1>7, <1>8

\* And those zeros say how many bits it has.
LEMMA ClzExact ==
    ASSUME NEW n \in Nat, NEW a \in Nat, a < 2^n
    PROVE  /\ Clz(a, n) \in 0..n
           /\ a < 2^(n - Clz(a, n))
           /\ a >= 1 => Clz(a, n) <= n - 1 /\ a >= 2^(n - 1 - Clz(a, n))
<1> DEFINE z == Clz(a, n)
<1>1. z \in 0..n
  <2>1. 0 \in 0..n /\ a \in Int
    OBVIOUS
  <2> QED BY <2>1, ClzBounds, Zenon
<1> HIDE DEF z
<1>2. a < 2^(n - z)
  <2>1. n - z \in 0..n /\ n - (n - z) - 1 = z - 1
    BY <1>1
  <2> DEFINE k == n - z
  <2>2. k \in 0..n /\ (a >= 2^k => z <= n - k - 1 \/ k = n) /\ n - k - 1 = z - 1
    BY <2>1, ClzBounds DEF z
  <2> HIDE DEF k
  <2>3. 2^k \in Nat
    BY <2>2, PowerIsNat
  <2>4. a < 2^k
    BY <1>1, <2>2, <2>3
  <2> QED BY <2>4 DEF k
<1>3. ASSUME a >= 1 PROVE z <= n - 1 /\ a >= 2^(n - 1 - z)
  <2>1. z <= n - 1
    <3>1. z = n => a < 1
      <4>1. n - n = 0 /\ 2^0 = 1
        OBVIOUS
      <4>2. z = n => n - z = 0
        BY <4>1
      <4> QED BY <1>2, <4>1, <4>2
    <3> QED BY <1>1, <1>3, <3>1
  <2> DEFINE k == n - 1 - z
  <2>2. k \in 0..n /\ n - k = z + 1
    BY <1>1, <2>1
  <2>3. a < 2^k => z >= n - k
    BY <2>2, ClzBounds DEF z
  <2> HIDE DEF k
  <2>4. 2^k \in Nat
    BY <2>2, PowerIsNat
  <2>5. a >= 2^k
    BY <1>1, <2>2, <2>3, <2>4
  <2> QED BY <2>1, <2>5 DEF k
<1> QED BY <1>1, <1>2, <1>3 DEF z

\* A mantissa that leaves the top bit free is normalised; the assertion holds.
LEMMA NormalizeTyped ==
    ASSUME FormatSuits, NEW s \in {0, 1}, NEW e \in Int, NEW m \in Int, m < TOP, NEW rm
    PROVE  WordResult(NormalizeSf(s, e, m, rm))
<1> DEFINE shift == Clz(m, F_SIZE) - 1
<1>1. shift \in Nat
  <2> DEFINE k == F_SIZE - 1
  <2>1. F_SIZE \in Nat /\ k \in 0..F_SIZE /\ F_SIZE - k = 1 /\ m < 2^k
    BY Format DEF TOP
  <2> HIDE DEF k
  <2>2. Clz(m, F_SIZE) \in 0..F_SIZE /\ Clz(m, F_SIZE) >= 1
    BY <2>1, ClzBounds
  <2> QED BY <2>1, <2>2
<1>2. NormalizeSf(s, e, m, rm) =
          IF shift < 0 THEN Abort ELSE RoundPackSf(s, e - shift, m * 2^shift, rm)
  BY DEF NormalizeSf
<1> HIDE DEF shift
<1>3. 2^shift \in Nat /\ e - shift \in Int
  BY <1>1, PowerIsNat
<1>4. m * 2^shift \in Int
  BY <1>3
<1> QED BY <1>1, <1>2, <1>3, <1>4, RoundPackTyped

\* The high half of a double word is a number.
LEMMA StickyTyped ==
    ASSUME FormatSuits, NEW m \in Int
    PROVE  Sticky(m) \in Int
<1>1. 2^F_SIZE \in Nat \ {0}
  BY Format, PowerIsNat
<1>2. m \div 2^F_SIZE \in Int
  BY <1>1, DivMod, Zenon
<1> QED BY <1>2, OrBitTyped, Zenon DEF Sticky

\* The same for the mantissa of normalize2_sf, a double word.
LEMMA Normalize2Typed ==
    ASSUME FormatSuits, NEW s \in {0, 1}, NEW e \in Int, NEW m \in Int,
           m < 2^(2 * F_SIZE - 1), NEW rm
    PROVE  WordResult(Normalize2Sf(s, e, m, rm))
<1> DEFINE n == 2 * F_SIZE
           shift == Clz(m, n) - 1
<1>1. shift \in Nat
  <2> DEFINE k == n - 1
  <2>1. n \in Nat /\ k \in 0..n /\ n - k = 1 /\ m < 2^k
    BY Format
  <2> HIDE DEF k, n
  <2>2. Clz(m, n) \in 0..n /\ Clz(m, n) >= 1
    BY <2>1, ClzBounds
  <2> QED BY <2>1, <2>2
<1>2. Normalize2Sf(s, e, m, rm) =
          IF shift < 0 THEN Abort ELSE RoundPackSf(s, e - shift, Sticky(m * 2^shift), rm)
  BY DEF Normalize2Sf
<1> HIDE DEF shift
<1>3. 2^shift \in Nat /\ e - shift \in Int
  BY <1>1, PowerIsNat
<1>4. m * 2^shift \in Int
  BY <1>3
<1>5. Sticky(m * 2^shift) \in Int
  BY <1>4, StickyTyped
<1> QED BY <1>1, <1>2, <1>3, <1>5, RoundPackTyped

\* A bound that is even holds also when a lost bit is kept in the last one.
LEMMA OrBitBelow ==
    ASSUME NEW a \in Int, NEW n \in Int, a < 2 * n, NEW c
    PROVE  OrBit(a, c) < 2 * n
  BY DEF OrBit

\* A quotient is below what its dividend is below a multiple of.
LEMMA DivBelow ==
    ASSUME NEW a \in Int, NEW n \in Nat \ {0}, NEW b \in Int, a < n * b
    PROVE  a \div n < b
<1> DEFINE d == a \div n
           m == a % n
<1>1. d \in Int /\ m \in 0..(n - 1) /\ a = n * d + m
  BY DivMod
<1> HIDE DEF d, m
<1>2. d >= b => n * d >= n * b
  BY <1>1
<1> QED BY <1>1, <1>2 DEF d

\* A shift makes a number no larger, and leaves the bits above those shifted out.
LEMMA RShiftBelow ==
    ASSUME FormatSuits, NEW a \in Nat, NEW d \in Nat
    PROVE  /\ RShiftRnd(a, d) \in Nat /\ RShiftRnd(a, d) <= a
           /\ \A k \in Nat \ {0} : a < 2^(k + d) => RShiftRnd(a, d) < 2^k
<1> DEFINE p == 2^d
<1>1. p \in Nat \ {0} /\ p >= 1 /\ a \in Int /\ 2^d = p
  BY PowerIsNat
<1> HIDE DEF p
<1> DEFINE q == a \div p
           c == a % p # 0
<1>2. q \in Nat /\ a % p \in 0..(p - 1) /\ a = p * q + (a % p)
  BY <1>1, DivMod, DivNat, Zenon
<1>3. OrBit(q, c) \in Nat /\ OrBit(q, c) <= a
  <2> HIDE DEF q
  <2>1. p * q >= q
    BY <1>1, <1>2
  <2> QED BY <1>1, <1>2, <2>1 DEF OrBit
<1>4. RShiftRnd(a, d) = IF d >= F_SIZE THEN Bit(a # 0) ELSE OrBit(q, c)
  BY <1>1 DEF RShiftRnd
<1>5. ASSUME NEW k \in Nat \ {0}, a < 2^(k + d) PROVE RShiftRnd(a, d) < 2^k
  <2> DEFINE h == 2^(k - 1)
  <2>1. h \in Nat /\ h >= 1 /\ 2^k = 2 * h /\ 2^(k + d) = 2^k * p
    <3>1. k - 1 \in Nat /\ k = (k - 1) + 1 /\ k \in Nat
      OBVIOUS
    <3>2. 2^((k - 1) + 1) = 2 * 2^(k - 1)
      BY <3>1, PowerStep, Zenon
    <3>3. 2^k = 2 * h
      BY <3>1, <3>2, Zenon
    <3> QED BY <1>1, <3>1, <3>3, PowerIsNat, PowerAdd
  <2> HIDE DEF h
  <2>2. q < 2 * h
    <3>1. a < p * (2 * h) /\ 2 * h \in Int
      BY <1>1, <1>5, <2>1
    <3> QED BY <1>1, <3>1, DivBelow
  <2> HIDE DEF q, c
  <2>3. OrBit(q, c) < 2 * h
    BY <1>2, <2>1, <2>2, OrBitBelow
  <2> QED BY <1>4, <2>1, <2>3 DEF Bit
<1> HIDE DEF q, c
<1> QED BY <1>3, <1>4, <1>5 DEF Bit

-----------------------------------------------------------------------------
(* Recursive functions: their existence is that of their first values.     *)

\* f holds the values from start on that n steps on V take.
Steps(step, n, V) == step \in [1..n -> [V -> V]]
Iterates(f, step, n, V, start) ==
    /\ f \in [0..n -> V]
    /\ f[0] = start
    /\ \A i \in 1..n : f[i] = step[i][f[i - 1]]

\* There are such values.
LEMMA IteratedExists ==
    ASSUME NEW n \in Nat, NEW V, NEW start \in V, NEW step, Steps(step, n, V)
    PROVE  \E f : Iterates(f, step, n, V, start)
<1>0. step \in [1..n -> [V -> V]]
  BY DEF Steps
<1> DEFINE Upto(f, k) == f \in [0..k -> V] /\ f[0] = start
                         /\ \A i \in 1..k : f[i] = step[i][f[i - 1]]
           P == {k \in Nat : k <= n => \E f : Upto(f, k)}
<1>1. 0 \in P
  <2>1. Upto([i \in 0..0 |-> start], 0)
    OBVIOUS
  <2> QED BY <2>1, Zenon
<1>2. ASSUME NEW k \in Nat, k \in P PROVE k + 1 \in P
  <2>1. CASE ~(k + 1 <= n)
    BY <2>1
  <2>2. CASE k + 1 <= n
    <3>1. k <= n /\ k + 1 \in 1..n
      BY <2>2
    <3>2. PICK f : Upto(f, k)
      BY <3>1, <1>2
    <3>3. f[k] \in V /\ step[k + 1] \in [V -> V]
      BY <1>0, <3>1, <3>2
    <3> DEFINE next == step[k + 1][f[k]]
               g == [i \in 0..(k + 1) |-> IF i = k + 1 THEN next ELSE f[i]]
    <3>4. next \in V
      BY <3>3
    <3> HIDE DEF next
    <3>5. g \in [0..(k + 1) -> V] /\ g[0] = start
      BY <3>2, <3>4
    <3>6. ASSUME NEW i \in 1..(k + 1) PROVE g[i] = step[i][g[i - 1]]
      <4>1. CASE i = k + 1
        <5>1. i - 1 = k /\ k \in 0..(k + 1) /\ k # k + 1
          BY <4>1
        <5>2. g[i] = next /\ g[i - 1] = f[k]
          BY <4>1, <5>1
        <5> QED BY <4>1, <5>2 DEF next
      <4>2. CASE i # k + 1
        <5>1. i \in 1..k /\ i - 1 \in 0..(k + 1) /\ i - 1 # k + 1
          BY <4>2
        <5>2. g[i] = f[i] /\ g[i - 1] = f[i - 1]
          BY <4>2, <5>1
        <5> QED BY <3>2, <5>1, <5>2
      <4> QED BY <4>1, <4>2
    <3>7. Upto(g, k + 1)
      BY <3>5, <3>6
    <3> HIDE DEF Upto
    <3>8. k + 1 \in Nat
      OBVIOUS
    <3> QED BY <3>7, <3>8
  <2> QED BY <2>1, <2>2
<1>3. \A k \in Nat : k \in P
  <2> HIDE DEF P
  <2> QED BY <1>1, <1>2, FromZero
<1>4. \E f : Upto(f, n)
  BY <1>3
<1> QED BY <1>4 DEF Iterates

\* The same where a value is found by following smaller and smaller arguments.
Descends(f, to, n) ==
    /\ f \in [1..n -> Int]
    /\ \A u \in 1..n : f[u] = IF to[u] \in 1..(u - 1) THEN f[to[u]] ELSE u

\* There are such values.
LEMMA DescentExists ==
    ASSUME NEW n \in Nat, NEW to
    PROVE  \E f : Descends(f, to, n)
<1> DEFINE Upto(f, k) == f \in [1..k -> Int]
               /\ \A u \in 1..k : f[u] = IF to[u] \in 1..(u - 1) THEN f[to[u]] ELSE u
           P == {k \in Nat : \E f : Upto(f, k)}
<1>1. 0 \in P
  <2>1. Upto([i \in 1..0 |-> 0], 0)
    OBVIOUS
  <2> QED BY <2>1, Zenon
<1>2. ASSUME NEW k \in Nat, k \in P PROVE k + 1 \in P
  <2>1. PICK f : Upto(f, k)
    BY <1>2
  <2> DEFINE next == IF to[k + 1] \in 1..k THEN f[to[k + 1]] ELSE k + 1
             g == [i \in 1..(k + 1) |-> IF i = k + 1 THEN next ELSE f[i]]
  <2>2. next \in Int
    BY <2>1
  <2>3. g \in [1..(k + 1) -> Int]
    <3> HIDE DEF next
    <3> QED BY <2>1, <2>2
  <2>4. ASSUME NEW u \in 1..(k + 1)
        PROVE  g[u] = IF to[u] \in 1..(u - 1) THEN g[to[u]] ELSE u
    <3>0. \A i \in 1..k : g[i] = f[i]
      OBVIOUS
    <3>1. CASE u = k + 1
      <4>1. g[u] = next /\ u - 1 = k
        BY <3>1
      <4> HIDE DEF g
      <4> QED BY <3>0, <3>1, <4>1
    <3>2. CASE u # k + 1
      <4>1. u \in 1..k /\ 1..(u - 1) \subseteq 1..k
        BY <3>2
      <4>2. f[u] = IF to[u] \in 1..(u - 1) THEN f[to[u]] ELSE u
        BY <2>1, <4>1
      <4>3. g[u] = f[u]
        BY <3>0, <4>1
      <4> HIDE DEF g
      <4> QED BY <3>0, <4>1, <4>2, <4>3
    <3> QED BY <3>1, <3>2
  <2>5. Upto(g, k + 1)
    BY <2>3, <2>4
  <2> HIDE DEF Upto
  <2> QED BY <2>5
<1>3. \A k \in Nat : k \in P
  <2> HIDE DEF P
  <2> QED BY <1>1, <1>2, FromZero
<1>4. \E f : Upto(f, n)
  BY <1>3
<1> QED BY <1>4 DEF Descends

-----------------------------------------------------------------------------
(* Quotients and roots of double words.                                    *)

Pairs == [hi : Int, lo : Int]
DivisionStep(b, p) ==
    LET wide == 2 * p.hi + (p.lo \div 2^(F_SIZE - 1))
        qb == Bit(wide >= b)
    IN  [hi |-> Word(wide - qb * b), lo |-> Word(2 * p.lo) + qb]

\* A number cut to a word's size is a word.
LEMMA WordTyped ==
    ASSUME FormatSuits, NEW a \in Int
    PROVE  Word(a) \in Words
<1>1. 2^F_SIZE \in Nat \ {0}
  BY Format, PowerIsNat
<1> QED BY <1>1, DivMod, Zenon DEF Word, Words

\* A word is a number.
LEMMA WordsAreNumbers ==
    ASSUME FormatSuits, NEW w \in Words
    PROVE  w \in Nat /\ w \in Int
<1>1. 2^F_SIZE \in Nat
  BY Format, PowerIsNat
<1> QED BY <1>1 DEF Words

\* A step of the loop returns two numbers.
LEMMA DivisionStepTyped ==
    ASSUME FormatSuits, NEW b \in Int, NEW p \in Pairs
    PROVE  DivisionStep(b, p) \in Pairs
<1> DEFINE wide == 2 * p.hi + (p.lo \div 2^(F_SIZE - 1))
           qb == Bit(wide >= b)
<1>1. 2^(F_SIZE - 1) \in Nat \ {0}
  BY Format, PowerIsNat
<1>2. p.hi \in Int /\ p.lo \in Int
  BY DEF Pairs
<1>3. p.lo \div 2^(F_SIZE - 1) \in Int
  BY <1>1, <1>2, DivMod, Zenon
<1>4. wide \in Int /\ qb \in {0, 1}
  BY <1>2, <1>3 DEF Bit
<1>5. DivisionStep(b, p) = [hi |-> Word(wide - qb * b), lo |-> Word(2 * p.lo) + qb]
  BY DEF DivisionStep
<1> HIDE DEF wide, qb
<1>6. wide - qb * b \in Int /\ 2 * p.lo \in Int
  BY <1>2, <1>4
<1>7. Word(wide - qb * b) \in Int /\ Word(2 * p.lo) \in Int
  BY <1>6, WordTyped, WordsAreNumbers
<1> QED BY <1>4, <1>5, <1>7 DEF Pairs

\* The values of the loop of divrem_u: before a bit, and after each.
Divides(f, a, b) ==
    /\ f \in [0..F_SIZE -> Pairs]
    /\ f[0] = [hi |-> a \div 2^F_SIZE, lo |-> Word(a)]
    /\ \A i \in 1..F_SIZE : f[i] = DivisionStep(b, f[i - 1])

\* divrem_u divides at once or bit by bit.
LEMMA DivremIs ==
    ASSUME FormatSuits, NEW a \in Int, NEW b \in Nat \ {0}
    PROVE  \E f : /\ Divides(f, a, b)
                  /\ DivremU(a, b) = IF HasULong THEN [q |-> Word(a \div b), r |-> a % b]
                                     ELSE [q |-> f[F_SIZE].lo, r |-> f[F_SIZE].hi]
<1> DEFINE first == [hi |-> a \div 2^F_SIZE, lo |-> Word(a)]
           long[i \in 0..F_SIZE] ==
               IF i = 0 THEN first
               ELSE LET p == long[i - 1]
                        wide == 2 * p.hi + (p.lo \div 2^(F_SIZE - 1))
                        qb == Bit(wide >= b)
                    IN  [hi |-> Word(wide - qb * b), lo |-> Word(2 * p.lo) + qb]
<1>1. DivremU(a, b) = IF HasULong THEN [q |-> Word(a \div b), r |-> a % b]
                      ELSE [q |-> long[F_SIZE].lo, r |-> long[F_SIZE].hi]
  BY DEF DivremU
<1>2. 2^F_SIZE \in Nat \ {0}
  BY Format, PowerIsNat
<1>3. first \in Pairs
  <2>1. a \div 2^F_SIZE \in Int
    BY <1>2, DivMod, Zenon
  <2>2. Word(a) \in Int
    BY WordTyped, WordsAreNumbers
  <2> QED BY <2>1, <2>2 DEF Pairs
<1>4. F_SIZE \in Nat
  BY Format
<1> HIDE DEF first
<1>5. long = [i \in 0..F_SIZE |-> IF i = 0 THEN first ELSE DivisionStep(b, long[i - 1])]
  <2> DEFINE step == [i \in 1..F_SIZE |-> [p \in Pairs |-> DivisionStep(b, p)]]
  <2>1. Steps(step, F_SIZE, Pairs)
    BY DivisionStepTyped DEF Steps
  <2>2. \A i \in 1..F_SIZE, p \in Pairs : step[i][p] = DivisionStep(b, p)
    OBVIOUS
  <2> HIDE DEF step
  <2>3. PICK f : Iterates(f, step, F_SIZE, Pairs, first)
    <3> HIDE DEF long
    <3> QED BY <1>3, <1>4, <2>1, IteratedExists, Zenon
  <2>4. \A i \in 1..F_SIZE : i \in 0..F_SIZE /\ i - 1 \in 0..F_SIZE /\ i # 0
    BY <1>4
  <2>5. \A i \in 0..F_SIZE : i # 0 => i \in 1..F_SIZE
    BY <1>4
  <2>6. f = [i \in 0..F_SIZE |-> IF i = 0 THEN first ELSE DivisionStep(b, f[i - 1])]
    BY <2>2, <2>3, <2>4, <2>5 DEF Iterates
  <2>7. f = [i \in 0..F_SIZE |->
               IF i = 0 THEN first
               ELSE LET p == f[i - 1]
                        wide == 2 * p.hi + (p.lo \div 2^(F_SIZE - 1))
                        qb == Bit(wide >= b)
                    IN  [hi |-> Word(wide - qb * b), lo |-> Word(2 * p.lo) + qb]]
    BY <2>6, Zenon DEF DivisionStep
  <2> QED BY <2>7, Zenon DEF DivisionStep
<1> HIDE DEF long
<1>6. \A i \in 1..F_SIZE : long[i] = DivisionStep(b, long[i - 1])
  <2> TAKE i \in 1..F_SIZE
  <2>1. i \in 0..F_SIZE /\ i # 0
    BY <1>4
  <2> QED BY <1>5, <2>1, Zenon
<1>7. long[0] = first
  <2>1. 0 \in 0..F_SIZE
    BY <1>4
  <2> QED BY <1>5, <2>1, Zenon
<1>8. \A k \in 0..F_SIZE : long[k] \in Pairs
  <2> DEFINE P == {k \in Nat : k <= F_SIZE => long[k] \in Pairs}
  <2>1. 0 \in P
    BY <1>3, <1>7
  <2>2. ASSUME NEW k \in Nat, k \in P PROVE k + 1 \in P
    <3> SUFFICES ASSUME k + 1 <= F_SIZE PROVE long[k + 1] \in Pairs
      OBVIOUS
    <3>1. k + 1 \in 1..F_SIZE /\ k <= F_SIZE /\ (k + 1) - 1 = k
      BY <1>4
    <3>2. long[k] \in Pairs
      BY <3>1, <2>2
    <3>3. long[k + 1] = DivisionStep(b, long[k])
      BY <1>6, <3>1
    <3> QED BY <3>2, <3>3, DivisionStepTyped
  <2> HIDE DEF P
  <2>3. \A k \in Nat : k \in P
    BY <2>1, <2>2, FromZero
  <2> QED BY <1>4, <2>3 DEF P
<1>9. long = [i \in 0..F_SIZE |-> long[i]]
  BY <1>5, Zenon
<1>10. long \in [0..F_SIZE -> Pairs]
  BY <1>8, <1>9
<1>11. Divides(long, a, b)
  BY <1>6, <1>7, <1>10 DEF Divides, first
<1> QED BY <1>1, <1>11

\* Of the bits of the dividend x are left, and q are those of the quotient so far: the
\* low word holds both, the high one the remainder.
Divided(p, a, b, i) ==
    \E x \in 0..(2^(F_SIZE - i) - 1), q \in 0..(2^i - 1) :
        /\ p.hi \in 0..(b - 1)
        /\ p.lo = x * 2^i + q
        /\ a = (q * b + p.hi) * 2^(F_SIZE - i) + x

\* The loop's invariant: a bit more of the quotient, a bit less of the dividend.
LEMMA DividedStep ==
    ASSUME FormatSuits, NEW a \in Nat, NEW b \in Nat \ {0}, b <= 2^F_SIZE,
           NEW i \in 0..(F_SIZE - 1), NEW p \in Pairs, Divided(p, a, b, i)
    PROVE  Divided(DivisionStep(b, p), a, b, i + 1)
<1> DEFINE n == F_SIZE - (i + 1)
           N == 2^n
           I == 2^i
           T == 2^(F_SIZE - 1)
           W == 2^F_SIZE
<1>1. F_SIZE \in Nat /\ n \in Nat /\ i \in Nat /\ F_SIZE - 1 \in Nat /\ F_SIZE = (F_SIZE - 1) + 1
      /\ F_SIZE - i = n + 1 /\ F_SIZE - 1 = n + i /\ F_SIZE - (i + 1) = n
  BY Format
<1>2. N \in Nat \ {0} /\ I \in Nat \ {0} /\ T \in Nat \ {0} /\ W \in Nat \ {0}
  BY <1>1, PowerIsNat
<1>3. 2^(i + 1) = 2 * I /\ 2^(F_SIZE - i) = 2 * N
  <2>1. 2^(n + 1) = 2 * 2^n /\ 2^(i + 1) = 2 * 2^i
    BY <1>1, PowerStep, Zenon
  <2> QED BY <1>1, <2>1, Zenon
<1>4. T = N * I /\ W = 2 * T
  <2>1. 2^((F_SIZE - 1) + 1) = 2 * 2^(F_SIZE - 1) /\ 2^(n + i) = 2^n * 2^i
    BY <1>1, PowerStep, PowerAdd, Zenon
  <2> QED BY <1>1, <2>1, Zenon
<1>5. PICK x \in 0..(2 * N - 1), q \in 0..(I - 1) :
          /\ p.hi \in 0..(b - 1)
          /\ p.lo = x * I + q
          /\ a = (q * b + p.hi) * (2 * N) + x
  BY <1>3, Zenon DEF Divided
<1> DEFINE hi == p.hi
           t == IF x >= N THEN 1 ELSE 0
           y == x - t * N
           low == y * I + q
           wide == 2 * hi + (p.lo \div T)
           qb == Bit(wide >= b)
           next == 2 * q + qb
           rest == wide - qb * b
<1>6. DivisionStep(b, p) = [hi |-> Word(rest), lo |-> Word(2 * p.lo) + qb]
  BY DEF DivisionStep
<1>7. b \in Nat \ {0} /\ b <= W
  OBVIOUS
<1> HIDE DEF N, I, T, W, n
<1>8. t \in {0, 1} /\ y \in 0..(N - 1) /\ x = t * N + y
  BY <1>2, <1>5
<1> HIDE DEF t, y
<1>9. low \in 0..(T - 1) /\ p.lo = T * t + low
  <2>1. y * I <= (N - 1) * I /\ y * I \in Nat
    BY <1>2, <1>8
  <2>2. (N - 1) * I = T - I
    BY <1>2, <1>4
  <2>3. low \in 0..(T - 1)
    BY <1>2, <1>5, <2>1, <2>2
  <2>4. (t * N + y) * I = (N * I) * t + y * I
    BY <1>2, <1>8
  <2>5. x * I = T * t + y * I
    BY <1>4, <1>8, <2>4, Zenon
  <2>6. T * t \in Int /\ y * I \in Int /\ q \in Int
    BY <1>2, <1>5, <1>8
  <2>7. p.lo = (T * t + y * I) + q
    BY <1>5, <2>5, Zenon
  <2> DEFINE u == T * t
             z == y * I
  <2>8. (u + z) + q = u + (z + q)
    <3>1. u \in Int /\ z \in Int /\ q \in Int
      BY <2>6
    <3> HIDE DEF u, z
    <3> QED BY <3>1
  <2>9. p.lo = T * t + low
    BY <2>7, <2>8
  <2> QED BY <2>3, <2>9
<1> HIDE DEF low
<1>10. p.lo \div T = t
  <2>1. p.lo \in Int /\ t \in Int
    BY <1>2, <1>8, <1>9
  <2> QED BY <1>2, <1>9, <2>1, DivModUnique
<1>11. Word(2 * p.lo) = 2 * low
  <2> DEFINE whole == 2 * p.lo
             part == 2 * low
  <2>1. whole = W * t + part /\ part \in 0..(W - 1) /\ whole \in Int /\ t \in Int
    BY <1>2, <1>4, <1>8, <1>9
  <2> HIDE DEF whole, part
  <2>2. whole % W = part
    BY <1>2, <2>1, DivModUnique
  <2> USE DEF whole, part
  <2> QED BY <2>2 DEF Word, W
<1>12. wide = 2 * hi + t /\ wide \in 0..(2 * b - 1) /\ hi \in 0..(b - 1)
  BY <1>5, <1>8, <1>10
<1> HIDE DEF hi, wide
<1>13. qb \in {0, 1} /\ rest \in 0..(b - 1) /\ wide = qb * b + rest
  BY <1>7, <1>12 DEF Bit
<1> HIDE DEF qb, rest
<1>14. Word(rest) = rest
  <2>1. rest \in 0..(W - 1) /\ rest \in Int /\ rest = W * 0 + rest
    BY <1>2, <1>7, <1>13
  <2>2. rest % W = rest
    BY <1>2, <2>1, DivModUnique
  <2> QED BY <2>2 DEF Word, W
<1>15. next \in 0..(2 * I - 1)
  BY <1>2, <1>5, <1>13
<1>16. 2 * low + qb = y * (2 * I) + next
  <2>1. y * (2 * I) = 2 * (y * I)
    BY <1>2, <1>8
  <2>2. y * I \in Int
    BY <1>2, <1>8
  <2> QED BY <1>5, <1>8, <1>13, <2>1, <2>2 DEF low
<1>17. a = (next * b + rest) * N + y
  <2>1. next * b + rest = 2 * (q * b) + wide
    <3> DEFINE c == q * b
               d == qb * b
    <3>1. (2 * q + qb) * b = 2 * c + d
      BY <1>5, <1>7, <1>13
    <3>2. c \in Int /\ d \in Int /\ rest \in Int /\ wide = d + rest
      BY <1>5, <1>7, <1>13
    <3>3. next * b = 2 * c + d
      BY <3>1
    <3> HIDE DEF c, d, next
    <3>4. next * b + rest = 2 * c + wide
      BY <3>2, <3>3
    <3> QED BY <3>4 DEF c
  <2>2. a = (q * b + hi) * (2 * N) + x
    BY <1>5 DEF hi
  <2> DEFINE c == q * b
  <2>3. c \in Int
    BY <1>5, <1>7
  <2> HIDE DEF c
  <2>4. next * b + rest = 2 * c + (2 * hi + t)
    BY <1>12, <2>1 DEF c
  <2>5. (2 * c + (2 * hi + t)) * N = (c + hi) * (2 * N) + t * N
    BY <1>2, <1>8, <1>12, <2>3
  <2>6. a = (c + hi) * (2 * N) + x /\ (c + hi) * (2 * N) \in Int /\ t * N \in Int
    BY <1>2, <1>8, <1>12, <2>2, <2>3 DEF c
  <2> HIDE DEF next
  <2> QED BY <1>8, <2>4, <2>5, <2>6
<1> HIDE DEF next
<1> DEFINE r == DivisionStep(b, p)
<1>18. r.hi = rest /\ r.lo = y * (2 * I) + next
  BY <1>6, <1>11, <1>14, <1>16
<1> HIDE DEF r
<1>19. /\ y \in 0..(2^(F_SIZE - (i + 1)) - 1) /\ next \in 0..(2^(i + 1) - 1)
       /\ r.hi \in 0..(b - 1)
       /\ r.lo = y * 2^(i + 1) + next
       /\ a = (next * b + r.hi) * 2^(F_SIZE - (i + 1)) + y
  BY <1>1, <1>3, <1>8, <1>13, <1>15, <1>17, <1>18 DEF N
<1> QED BY <1>19, Zenon DEF Divided, r

\* Bit by bit or not: the quotient, when it fits.
LEMMA DivremExact ==
    ASSUME FormatSuits, NEW a \in Nat, NEW b \in Nat \ {0}, b <= 2^F_SIZE, a < b * 2^F_SIZE
    PROVE  DivremU(a, b).q = a \div b
<1> DEFINE W == 2^F_SIZE
<1>1. W \in Nat \ {0} /\ F_SIZE \in Nat /\ a \in Int /\ b <= W /\ a < b * W
  BY Format, PowerIsNat
<1>2. PICK f : /\ Divides(f, a, b)
               /\ DivremU(a, b) = IF HasULong THEN [q |-> Word(a \div b), r |-> a % b]
                                  ELSE [q |-> f[F_SIZE].lo, r |-> f[F_SIZE].hi]
  BY <1>1, DivremIs
<1>3. Word(a) = a % W /\ 2^(F_SIZE - 0) = W /\ 2^0 = 1 /\ 2^(F_SIZE - F_SIZE) = 1
  <2>1. F_SIZE - 0 = F_SIZE /\ F_SIZE - F_SIZE = 0 /\ 2^0 = 1
    BY <1>1
  <2> QED BY <2>1, Zenon DEF Word
<1>4. CASE HasULong
  <2> HIDE DEF W
  <2>1. a \div b \in Nat /\ a \div b < W
    BY <1>1, DivNat, DivBelow
  <2>2. a \div b \in Int /\ a \div b \in 0..(W - 1) /\ a \div b = W * 0 + (a \div b)
    BY <1>1, <2>1
  <2>3. (a \div b) % W = a \div b
    BY <1>1, <2>2, DivModUnique
  <2>4. Word(a \div b) = a \div b
    BY <2>3 DEF Word, W
  <2> QED BY <1>2, <1>4, <2>4
<1>5. CASE ~HasULong
  <2>1. Divided(f[0], a, b, 0)
    <3> DEFINE x == a % W
               h == a \div W
    <3> HIDE DEF W
    <3>1. x \in 0..(W - 1) /\ h \in Nat /\ a = W * h + x
      BY <1>1, DivMod, DivNat, Zenon
    <3>2. h < b
      <4>1. a < W * b
        BY <1>1
      <4> QED BY <1>1, <4>1, DivBelow
    <3>3. f[0].hi = h /\ f[0].lo = x
      BY <1>2, <1>3 DEF Divides, W
    <3> HIDE DEF x, h
    <3>4. /\ x \in 0..(2^(F_SIZE - 0) - 1) /\ 0 \in 0..(2^0 - 1)
          /\ f[0].hi \in 0..(b - 1)
          /\ f[0].lo = x * 2^0 + 0
          /\ a = (0 * b + f[0].hi) * 2^(F_SIZE - 0) + x
      BY <1>1, <1>3, <3>1, <3>2, <3>3
    <3> QED BY <3>4, Zenon DEF Divided
  <2> DEFINE P == {k \in Nat : k <= F_SIZE => Divided(f[k], a, b, k)}
  <2>2. 0 \in P
    BY <2>1
  <2>3. ASSUME NEW k \in Nat, k \in P PROVE k + 1 \in P
    <3> SUFFICES ASSUME k + 1 <= F_SIZE PROVE Divided(f[k + 1], a, b, k + 1)
      OBVIOUS
    <3>1. k + 1 \in 1..F_SIZE /\ k <= F_SIZE /\ (k + 1) - 1 = k /\ k \in 0..(F_SIZE - 1)
          /\ k \in 0..F_SIZE
      BY <1>1
    <3>2. f[k] \in Pairs /\ f[k + 1] = DivisionStep(b, f[k])
      BY <1>2, <3>1 DEF Divides
    <3>3. Divided(f[k], a, b, k)
      BY <3>1, <2>3
    <3> QED BY <3>1, <3>2, <3>3, DividedStep
  <2> HIDE DEF P
  <2>4. F_SIZE \in P
    BY <1>1, <2>2, <2>3, FromZero
  <2>5. Divided(f[F_SIZE], a, b, F_SIZE)
    BY <1>1, <2>4 DEF P
  <2>6. PICK x \in 0..(1 - 1), q \in 0..(W - 1) :
            /\ f[F_SIZE].hi \in 0..(b - 1)
            /\ f[F_SIZE].lo = x * W + q
            /\ a = (q * b + f[F_SIZE].hi) * 1 + x
    BY <1>3, <2>5, Zenon DEF Divided
  <2> HIDE DEF W
  <2>7. x = 0
    OBVIOUS
  <2> DEFINE h == f[F_SIZE].hi
  <2>8. f[F_SIZE].lo = q /\ a = b * q + h /\ h \in 0..(b - 1) /\ q \in Int
    BY <1>1, <2>6, <2>7
  <2> HIDE DEF h
  <2>9. a \div b = q
    BY <1>1, <2>8, DivModUnique
  <2> QED BY <1>2, <1>5, <2>8, <2>9
<1> QED BY <1>4, <1>5

\* The root's estimates fall, and the first is no more than half a word's number.
LEMMA SqrtremTyped ==
    ASSUME FormatSuits, NEW a \in Nat, a < TOP * TOP
    PROVE  SqrtremU(a).s \in Int /\ SqrtremU(a).s < TOP
<1> DEFINE l == 2 * F_SIZE - Clz(a - 1, 2 * F_SIZE)
           newton[u \in 1..2^F_SIZE] ==
               LET v == (DivremU(a, u).q + u) \div 2
               IN  IF v \in 1..(u - 1) THEN newton[v] ELSE u
           s == newton[2^((l + 1) \div 2)]
<1>1. SqrtremU(a).s = s
  BY DEF SqrtremU
<1>2. F_SIZE \in Nat /\ 2 * F_SIZE \in Nat /\ 2^F_SIZE \in Nat
  BY Format, PowerIsNat
<1>3. l \in 0..(2 * F_SIZE - 2)
  <2> DEFINE n == 2 * F_SIZE
             k == 2 * F_SIZE - 2
             c == a - 1
  <2>1. n \in Nat /\ k \in 0..n /\ c \in Int /\ n - k = 2
    BY <1>2, Format
  <2>2. 2^k = TOP * TOP
    <3>1. F_SIZE - 1 \in Nat /\ k = (F_SIZE - 1) + (F_SIZE - 1)
      BY Format
    <3>2. 2^((F_SIZE - 1) + (F_SIZE - 1)) = 2^(F_SIZE - 1) * 2^(F_SIZE - 1)
      BY <3>1, PowerAdd, Zenon
    <3> QED BY <3>1, <3>2, Zenon DEF TOP
  <2>3. c < 2^k
    <3>1. c < TOP * TOP
      BY Format
    <3> QED BY <2>2, <3>1, Zenon
  <2> HIDE DEF n, k, c
  <2>4. Clz(c, n) \in 0..n /\ Clz(c, n) >= n - k
    BY <2>1, <2>3, ClzBounds, Zenon
  <2>5. n - Clz(c, n) \in 0..(n - 2)
    BY <2>1, <2>4
  <2> QED BY <2>5 DEF n, c
<1> DEFINE h == (l + 1) \div 2
           start == 2^h
<1>4. start \in 1..2^F_SIZE /\ start <= TOP
  <2>1. h \in Nat /\ h <= F_SIZE - 1 /\ F_SIZE - 1 \in Nat /\ TOP \in Nat /\ 2^F_SIZE = 2 * TOP
    <3> HIDE DEF l
    <3>1. (l + 1) \div 2 \in Nat /\ (l + 1) \div 2 <= F_SIZE - 1
      BY <1>2, <1>3
    <3> QED BY <3>1, Format
  <2> HIDE DEF h
  <2>2. 2^h \in Nat /\ 2^h >= 1 /\ 2^h <= 2^(F_SIZE - 1)
    BY <2>1, PowerIsNat, PowerGrows
  <2>3. start <= TOP /\ start \in Nat /\ start >= 1
    BY <2>2 DEF TOP
  <2> HIDE DEF start
  <2> QED BY <1>2, <2>1, <2>3
<1> HIDE DEF h, start
<1> HIDE DEF l
<1> DEFINE to == [u \in 1..2^F_SIZE |-> (DivremU(a, u).q + u) \div 2]
<1>5. newton = [u \in 1..2^F_SIZE |-> IF to[u] \in 1..(u - 1) THEN newton[to[u]] ELSE u]
  <2>1. PICK f : Descends(f, to, 2^F_SIZE)
    <3> HIDE DEF newton, to
    <3> QED BY <1>2, DescentExists
  <2>2. f = [u \in 1..2^F_SIZE |-> f[u]]
    BY <2>1 DEF Descends
  <2>3. \A u \in 1..2^F_SIZE :
            f[u] = LET v == (DivremU(a, u).q + u) \div 2
                   IN  IF v \in 1..(u - 1) THEN f[v] ELSE u
    BY <2>1, Zenon DEF Descends
  <2>4. f = [u \in 1..2^F_SIZE |->
                LET v == (DivremU(a, u).q + u) \div 2
                IN  IF v \in 1..(u - 1) THEN f[v] ELSE u]
    BY <2>2, <2>3, Zenon
  <2>5. newton = [u \in 1..2^F_SIZE |->
                LET v == (DivremU(a, u).q + u) \div 2
                IN  IF v \in 1..(u - 1) THEN newton[v] ELSE u]
    BY <2>4, Zenon
  <2> HIDE DEF newton
  <2> QED BY <2>5
<1> HIDE DEF newton, to
<1>6. ASSUME NEW u \in 1..2^F_SIZE PROVE newton[u] \in Int /\ newton[u] <= u
  <2> DEFINE Bad == {k \in 1..2^F_SIZE : ~(newton[k] \in Int /\ newton[k] <= k)}
  <2> SUFFICES ASSUME Bad # {} PROVE FALSE
    OBVIOUS
  <2>1. PICK m \in Bad : \A other \in Bad : m <= other
    <3>1. Bad \subseteq Nat
      BY <1>2
    <3> HIDE DEF Bad
    <3> QED BY <3>1, LeastOf
  <2>2. m \in 1..2^F_SIZE /\ newton[m] = IF to[m] \in 1..(m - 1) THEN newton[to[m]] ELSE m
    BY <1>5
  <2>3. CASE to[m] \in 1..(m - 1)
    <3>1. to[m] \in 1..2^F_SIZE /\ ~(m <= to[m]) /\ to[m] <= m
      BY <1>2, <2>2, <2>3
    <3>2. to[m] \notin Bad
      BY <2>1, <3>1
    <3>3. newton[to[m]] \in Int /\ newton[to[m]] <= to[m]
      BY <3>1, <3>2
    <3> QED BY <1>2, <2>2, <2>3, <3>1, <3>3
  <2>4. CASE to[m] \notin 1..(m - 1)
    BY <1>2, <2>2, <2>4
  <2> QED BY <2>3, <2>4
<1>7. newton[start] < TOP
  <2>1. CASE start < TOP
    BY <1>4, <1>6, <2>1, Format
  <2>2. CASE start = TOP
    <3> DEFINE T == TOP
               d == a \div T
               v == (d + T) \div 2
    <3>1. T \in Nat \ {0} /\ T >= 4 /\ T \in 1..2^F_SIZE /\ a < T * T /\ T <= 2^F_SIZE
      <4>1. TOP = EXPS * MANTS /\ EXPS >= 32 /\ MANTS >= 4 /\ TOP \in Nat
            /\ EXPS \in Nat /\ MANTS \in Nat
        BY Format
      <4>2. EXPS * MANTS >= 4
        BY <4>1
      <4> QED BY <1>4, <2>2, <4>1, <4>2, Format
    <3> HIDE DEF T
    <3>2. d \in Nat /\ d < T
      BY <3>1, DivNat, DivBelow
    <3>3. DivremU(a, T).q = d
      <4>1. a < T * 2^F_SIZE
        <5>1. T * T <= T * 2^F_SIZE
          BY <1>2, <3>1
        <5> QED BY <1>2, <3>1, <5>1
      <4> QED BY <3>1, <4>1, DivremExact, Zenon
    <3> HIDE DEF d
    <3>4. v \in 1..(T - 1)
      BY <3>1, <3>2
    <3>5. to[T] = v
      BY <3>1, <3>3 DEF to
    <3> HIDE DEF v
    <3>6. newton[T] = newton[v] /\ v \in 1..2^F_SIZE
      BY <1>5, <1>2, <3>1, <3>4, <3>5
    <3>7. newton[v] \in Int /\ newton[v] <= v
      BY <1>6, <3>6
    <3> QED BY <2>2, <3>1, <3>4, <3>6, <3>7 DEF T
  <2> QED BY <1>4, <2>1, <2>2, Format
<1> QED BY <1>1, <1>4, <1>6, <1>7 DEF h, start

-----------------------------------------------------------------------------
(* Exponents and significands.                                             *)

\* unpack_sf returns a significand of a bit more than the mantissa.
LEMMA SignificandTyped ==
    ASSUME FormatSuits, NEW a \in Words
    PROVE  /\ Significand(a).e \in Int /\ Significand(a).e >= 1
           /\ Significand(a).m \in Nat /\ Significand(a).m < 2 * MANTS
<1>1. /\ 2^MANT_SIZE = MANTS /\ MANTS \in Nat /\ MANT_MASK = MANTS - 1 /\ EXP_MASK \in Int
      /\ Exp(a) \in 0..EXP_MASK /\ Mant(a) \in 0..MANT_MASK
  <2>1. MANTS \in Nat /\ EXPS \in Nat /\ EXP_MASK = EXPS - 1 /\ MANT_MASK = MANTS - 1
    BY Format
  <2> HIDE DEF EXP_MASK, MANT_MASK
  <2> QED BY <2>1, Fields DEF MANTS
<1> HIDE DEF MANT_MASK, EXP_MASK, MANTS
<1> QED BY <1>1 DEF Significand

\* A subnormal's mantissa has its top bit where the implicit one is.
LEMMA SubnormalTyped ==
    ASSUME FormatSuits, NEW a \in Words
    PROVE  /\ NormalizeSubnormalSf(a).e \in Int /\ NormalizeSubnormalSf(a).e <= EXP_MASK
           /\ NormalizeSubnormalSf(a).m \in Nat /\ NormalizeSubnormalSf(a).m < 2 * MANTS
           /\ ~IsZero(a) => NormalizeSubnormalSf(a).e >= 1 - MANT_SIZE
                            /\ NormalizeSubnormalSf(a).m >= MANTS
<1> DEFINE z == Clz(Mant(a), F_SIZE)
           shift == MANT_SIZE - (F_SIZE - 1 - z)
<1>1. /\ MANT_SIZE \in Nat /\ F_SIZE \in Nat /\ MANTS \in Nat /\ MANTS >= 4
      /\ F_SIZE >= MANT_SIZE + 6
      /\ MANT_MASK = MANTS - 1 /\ EXP_MASK = EXPS - 1 /\ EXPS \in Nat
  BY Format DEF FormatSuits, F_SIZE
<1>2. Exp(a) \in 0..EXP_MASK /\ Mant(a) \in 0..MANT_MASK
      /\ Magnitude(a) = Exp(a) * MANTS + Mant(a)
  BY Fields
<1> HIDE DEF EXP_MASK, MANT_MASK
<1>3. Mant(a) \in Nat /\ Mant(a) < 2^MANT_SIZE /\ Exp(a) \in Nat
  BY <1>1, <1>2 DEF MANTS
<1>4. /\ z \in 0..F_SIZE /\ z >= F_SIZE - MANT_SIZE
      /\ Mant(a) < 2^(F_SIZE - z)
      /\ Mant(a) >= 1 => z <= F_SIZE - 1 /\ Mant(a) >= 2^(F_SIZE - 1 - z)
  <2>1. MANT_SIZE \in 0..F_SIZE
    BY <1>1
  <2>2. z >= F_SIZE - MANT_SIZE
    BY <1>1, <1>3, <2>1, ClzBounds
  <2>3. Mant(a) < 2^F_SIZE
    <3>1. 2^MANT_SIZE <= 2^F_SIZE /\ 2^MANT_SIZE \in Nat /\ 2^F_SIZE \in Nat
      BY <1>1, PowerGrows, PowerIsNat
    <3> QED BY <1>3, <3>1
  <2>4. /\ z \in 0..F_SIZE /\ Mant(a) < 2^(F_SIZE - z)
        /\ Mant(a) >= 1 => z <= F_SIZE - 1 /\ Mant(a) >= 2^(F_SIZE - 1 - z)
    BY <1>1, <1>3, <2>3, ClzExact, Zenon
  <2> QED BY <2>2, <2>4
<1> HIDE DEF z
<1>5. shift \in Nat /\ (Mant(a) >= 1 => shift <= MANT_SIZE)
  BY <1>1, <1>4
<1>6. NormalizeSubnormalSf(a) =
          IF Exp(a) = 0 THEN [e |-> 1 - shift, m |-> Mant(a) * 2^shift] ELSE Significand(a)
  BY DEF NormalizeSubnormalSf, z
<1>7. 2^shift \in Nat /\ 2^shift >= 1
  BY <1>5, PowerIsNat
<1>8. CASE Exp(a) = 0
  <2> DEFINE p == 2^shift
             m == Mant(a)
             u == 2^(F_SIZE - z)
             v == 2^(F_SIZE - 1 - z)
  <2>1. p \in Nat /\ p >= 1 /\ m \in Nat
    BY <1>3, <1>7
  <2>2. ~IsZero(a) => m >= 1
    BY <1>1, <1>2, <1>3, <1>8 DEF IsZero
  <2>3. u \in Nat /\ m < u /\ u * p = 2 * MANTS
    <3>1. F_SIZE - z \in Nat /\ (F_SIZE - z) + shift = MANT_SIZE + 1
      BY <1>1, <1>4, <1>5
    <3>2. 2^((F_SIZE - z) + shift) = u * p /\ 2^(MANT_SIZE + 1) = 2 * 2^MANT_SIZE
      BY <1>1, <1>5, <3>1, PowerAdd, PowerStep, Zenon
    <3>3. u * p = 2 * MANTS
      BY <3>1, <3>2, Zenon DEF MANTS
    <3> QED BY <1>4, <3>1, <3>3, PowerIsNat
  <2>4. m >= 1 => v \in Nat /\ m >= v /\ v * p = MANTS
    <3> SUFFICES ASSUME m >= 1 PROVE v \in Nat /\ m >= v /\ v * p = MANTS
      OBVIOUS
    <3>1. F_SIZE - 1 - z \in Nat /\ (F_SIZE - 1 - z) + shift = MANT_SIZE
      BY <1>1, <1>4, <1>5
    <3>2. 2^((F_SIZE - 1 - z) + shift) = v * p
      BY <1>5, <3>1, PowerAdd, Zenon
    <3>3. v * p = MANTS
      BY <3>1, <3>2, Zenon DEF MANTS
    <3> QED BY <1>4, <3>1, <3>3, PowerIsNat
  <2> HIDE DEF p, m, u, v, shift
  <2>5. m * p \in Nat /\ m * p < 2 * MANTS
    <3>1. m * p < u * p
      BY <2>1, <2>3
    <3> QED BY <2>1, <2>3, <3>1
  <2>6. m >= 1 => m * p >= MANTS
    <3>1. m >= 1 => m * p >= v * p
      BY <2>1, <2>4
    <3> QED BY <2>4, <3>1, <2>1
  <2> HIDE DEF MANTS
  <2>7. NormalizeSubnormalSf(a).e = 1 - shift /\ NormalizeSubnormalSf(a).m = m * p
    BY <1>6, <1>8 DEF m, p
  <2>8. 1 - shift \in Int /\ (m >= 1 => 1 - shift >= 1 - MANT_SIZE) /\ 1 - shift <= EXP_MASK
    BY <1>1, <1>5, Format DEF m
  <2> QED BY <2>2, <2>5, <2>6, <2>7, <2>8
<1>9. CASE Exp(a) # 0
  <2> HIDE DEF shift, MANTS
  <2>1. NormalizeSubnormalSf(a) = [e |-> Exp(a), m |-> 2^MANT_SIZE + Mant(a)]
    BY <1>6, <1>9 DEF Significand
  <2>2. 2^MANT_SIZE = MANTS
    BY DEF MANTS
  <2> QED BY <1>1, <1>2, <1>3, <1>9, <2>1, <2>2
<1> QED BY <1>8, <1>9

-----------------------------------------------------------------------------
(* The operations return words.                                            *)

\* A word with its sign changed is a word.
LEMMA NegatedTyped ==
    ASSUME FormatSuits, NEW a \in Words
    PROVE  Negated(a) \in Words
<1> DEFINE T == TOP
<1>1. T \in Nat /\ a \in 0..(2 * T - 1) /\ (Sign(a) = 1) = (a >= T)
      /\ 2^(F_SIZE - 1) = T /\ Words = 0..(2 * T - 1)
  BY Format, Fields DEF Words, TOP
<1> HIDE DEF T
<1> QED BY <1>1 DEF Negated

\* Signs and conditions are bits.
LEMMA SignsTyped ==
    ASSUME FormatSuits, NEW a \in Words
    PROVE  Sign(a) \in {0, 1} /\ \A c : Bit(c) \in {0, 1}
  BY Fields DEF Bit

\* add_sf: the sum of two significands, with three bits more and a carry, leaves the top
\* bit free.
LEMMA AddTyped ==
    ASSUME FormatSuits, NEW x \in Words, NEW y \in Words, NEW rm
    PROVE  WordResult(AddSf(x, y, rm))
<1> DEFINE swap == Magnitude(x) < Magnitude(y)
           a == IF swap THEN y ELSE x
           b == IF swap THEN x ELSE y
           A == Significand(a)
           B == Significand(b)
           bm == RShiftRnd(B.m * 8, A.e - B.e)
           m == IF Sign(a) = Sign(b) THEN A.m * 8 + bm ELSE A.m * 8 - bm
           s == IF Sign(a) # Sign(b) /\ m = 0 THEN Bit(rm = RDN) ELSE Sign(a)
           e == A.e + RND_SIZE - 3
<1>1. a \in Words /\ b \in Words /\ Sign(a) \in {0, 1}
  BY SignsTyped
<1>2. A.e \in Int /\ A.m \in Nat /\ A.m < 2 * MANTS /\ B.e \in Int /\ B.m \in Nat
      /\ B.m < 2 * MANTS
  BY <1>1, SignificandTyped
<1>3. A.e - B.e \in Nat
  <2>1. Magnitude(b) <= Magnitude(a) /\ Magnitude(a) \in Nat /\ Magnitude(b) \in Nat
    <3>1. Magnitude(x) \in Nat /\ Magnitude(y) \in Nat
      BY Fields, Format
    <3> QED BY <3>1
  <2>2. Exp(b) <= Exp(a) /\ Exp(a) \in Nat /\ Exp(b) \in Nat
    <3> DEFINE P == MANTS
               p == Exp(a)
               q == Exp(b)
    <3>1. P \in Nat /\ P >= 4 /\ MANT_MASK = P - 1 /\ EXP_MASK \in Int
      BY Format
    <3>2. /\ Magnitude(a) = p * P + Mant(a) /\ Magnitude(b) = q * P + Mant(b)
          /\ p \in 0..EXP_MASK /\ q \in 0..EXP_MASK
          /\ Mant(a) \in 0..MANT_MASK /\ Mant(b) \in 0..MANT_MASK
      BY <1>1, Fields
    <3> HIDE DEF MANT_MASK, EXP_MASK, P, p, q, a, b
    <3>3. p \in Nat /\ q \in Nat /\ Mant(a) \in 0..(P - 1) /\ Mant(b) \in 0..(P - 1)
      BY <3>1, <3>2
    <3>4. q >= p + 1 => q * P >= p * P + P
      BY <3>1, <3>3
    <3>5. ~(q >= p + 1)
      <4>1. p * P \in Nat /\ q * P \in Nat
        BY <3>1, <3>3
      <4> QED BY <2>1, <3>1, <3>2, <3>3, <3>4, <4>1
    <3>6. q <= p
      BY <3>3, <3>5
    <3> QED BY <3>3, <3>6 DEF p, q
  <2> HIDE DEF a, b
  <2>3. A.e = (IF Exp(a) = 0 THEN 1 ELSE Exp(a)) /\ B.e = (IF Exp(b) = 0 THEN 1 ELSE Exp(b))
    BY DEF Significand
  <2> HIDE DEF A, B
  <2> QED BY <2>2, <2>3
<1> HIDE DEF a, b, A, B
<1>4. bm \in Nat /\ bm <= B.m * 8
  <2>1. B.m * 8 \in Nat
    BY <1>2
  <2> QED BY <1>3, <2>1, RShiftBelow, Zenon
<1> HIDE DEF bm
<1>5. m \in Int /\ m < TOP /\ e \in Int /\ RND_SIZE \in Int
  <2>1. MANTS \in Nat /\ EXPS \in Nat /\ EXPS >= 32 /\ TOP = EXPS * MANTS /\ RND_SIZE \in Int
    BY Format
  <2>2. 32 * MANTS <= EXPS * MANTS
    BY <2>1
  <2>3. TOP \in Int /\ 32 * MANTS <= TOP
    BY <2>1, <2>2
  <2> QED BY <1>2, <1>4, <2>1, <2>3
<1>6. s \in {0, 1}
  BY <1>1, SignsTyped
<1>7. AddSf(x, y, rm) = CASE IsNan(a) -> QuietOf({a, b})
          [] IsInf(a) -> (IF Exp(b) = EXP_MASK /\ Sign(a) # Sign(b)
                          THEN Invalid ELSE Res(a, {}))
          [] OTHER -> NormalizeSf(s, e, m, rm)
  BY Zenon DEF AddSf, a, b, A, B, bm
<1> HIDE DEF m, s, e
<1>8. WordResult(NormalizeSf(s, e, m, rm)) /\ WordResult(Res(a, {})) /\ WordResult(Invalid)
      /\ WordResult(QuietOf({a, b}))
  BY <1>1, <1>5, <1>6, NormalizeTyped, ConstantWords DEF WordResult, Res
<1>9. IsNan(a) => ~IsInf(a)
  BY DEF IsNan, IsInf
<1> HIDE DEF WordResult
<1> QED BY <1>7, <1>8, <1>9

\* sub_sf returns a word.
LEMMA SubTyped ==
    ASSUME FormatSuits, NEW a \in Words, NEW b \in Words, NEW rm
    PROVE  WordResult(SubSf(a, b, rm))
  BY NegatedTyped, AddTyped DEF SubSf

\* With a type of twice the size or by halves, the product is exact.
LEMMA MulUExact ==
    ASSUME FormatSuits, NEW a \in Words, NEW b \in Words
    PROVE  MulU(a, b) = a * b
<1> DEFINE H == 2^(F_SIZE \div 2)
           W == 2^F_SIZE
           a0 == a % H
           a1 == a \div H
           b0 == b % H
           b1 == b \div H
<1>1. H \in Nat \ {0} /\ W \in Nat \ {0} /\ a \in 0..(W - 1) /\ b \in 0..(W - 1)
  <2>1. F_SIZE \in Nat /\ F_SIZE \div 2 \in Nat
    BY Format
  <2> QED BY <2>1, PowerIsNat DEF Words
<1> DEFINE r00 == a0 * b0
           r01 == a0 * b1
           r10 == a1 * b0
           r11 == a1 * b1
           c1 == (r00 \div H) + (r01 % H) + (r10 % H)
           c2 == (c1 \div H) + (r01 \div H) + (r10 \div H) + (r11 % H)
           x == (c2 \div H) + (r11 \div H)
           long == ((x % H) * H + (c2 % H)) * W + (c1 % H) * H + (r00 % H)
<1>2. MulU(a, b) = IF HasULong THEN a * b ELSE long
  BY DEF MulU
<1> SUFFICES ASSUME ~HasULong PROVE long = a * b
  BY <1>2
<1>3. W = H * H
  <2> DEFINE k == F_SIZE \div 2
  <2>1. F_SIZE \in Nat /\ F_SIZE % 2 = 0
    BY Format DEF FormatSuits
  <2>2. k \in Nat /\ F_SIZE = k + k
    BY <2>1
  <2> HIDE DEF k
  <2>3. 2^(k + k) = 2^k * 2^k
    BY <2>2, PowerAdd, Zenon
  <2>4. W = 2^k * 2^k
    BY <2>2, <2>3, Zenon
  <2> QED BY <2>4 DEF k
<1> HIDE DEF H, W
<1>4. \A k \in Nat : /\ k \div H \in Nat /\ k % H \in 0..(H - 1) /\ k % H \in Nat
                     /\ k = H * (k \div H) + (k % H)
  <2> TAKE k \in Nat
  <2> DEFINE u == k \div H
             v == k % H
  <2>1. k \in Int /\ u \in Nat
    BY <1>1, DivNat
  <2>2. v \in 0..(H - 1) /\ k = H * u + v
    BY <1>1, <2>1, DivMod, Zenon
  <2> HIDE DEF u, v
  <2>3. v \in Nat
    BY <1>1, <2>2
  <2> QED BY <2>1, <2>2, <2>3 DEF u, v
<1>5. /\ a0 \in Nat /\ a1 \in Nat /\ a = H * a1 + a0
      /\ b0 \in Nat /\ b1 \in Nat /\ b = H * b1 + b0
  <2>1. a \in Nat /\ b \in Nat
    BY <1>1
  <2> QED BY <1>4, <2>1, Zenon
<1> HIDE DEF a0, a1, b0, b1
<1>6. r00 \in Nat /\ r01 \in Nat /\ r10 \in Nat /\ r11 \in Nat
  BY <1>5
<1>7. a * b = r00 + H * (r01 + r10) + (H * H) * r11
  <2>1. (H * a1 + a0) * (H * b1 + b0)
            = a0 * b0 + H * (a0 * b1 + a1 * b0) + (H * H) * (a1 * b1)
    BY <1>1, <1>5
  <2> QED BY <1>5, <2>1
<1> HIDE DEF r00, r01, r10, r11
<1> DEFINE q0 == r00 \div H
           p0 == r00 % H
           q1 == r01 \div H
           p1 == r01 % H
           q2 == r10 \div H
           p2 == r10 % H
           q3 == r11 \div H
           p3 == r11 % H
<1>8. /\ q0 \in Nat /\ p0 \in Nat /\ r00 = H * q0 + p0
      /\ q1 \in Nat /\ p1 \in Nat /\ r01 = H * q1 + p1
      /\ q2 \in Nat /\ p2 \in Nat /\ r10 = H * q2 + p2
      /\ q3 \in Nat /\ p3 \in Nat /\ r11 = H * q3 + p3
  BY <1>4, <1>6, Zenon
<1> HIDE DEF q0, p0, q1, p1, q2, p2, q3, p3
<1>9. c1 \in Nat /\ c1 = q0 + p1 + p2
  BY <1>8 DEF q0, p1, p2
<1> HIDE DEF c1
<1> DEFINE d1 == c1 \div H
           m1 == c1 % H
<1>10. d1 \in Nat /\ m1 \in Nat /\ c1 = H * d1 + m1
  BY <1>4, <1>9, Zenon
<1> HIDE DEF d1, m1
<1>11. c2 \in Nat /\ c2 = d1 + q1 + q2 + p3
  BY <1>8, <1>10 DEF d1, q1, q2, p3
<1> HIDE DEF c2
<1> DEFINE d2 == c2 \div H
           m2 == c2 % H
<1>12. d2 \in Nat /\ m2 \in Nat /\ c2 = H * d2 + m2
  BY <1>4, <1>11, Zenon
<1> HIDE DEF d2, m2
<1>13. x \in Nat /\ x = d2 + q3
  BY <1>8, <1>12 DEF d2, q3
<1> HIDE DEF x
<1>14. a * b = (x * H + m2) * W + m1 * H + p0
  <2>1. H * (r01 + r10) = (H * H) * (q1 + q2) + H * (p1 + p2)
    BY <1>1, <1>8
  <2>2. r00 + H * (p1 + p2) = H * c1 + p0
    BY <1>1, <1>8, <1>9
  <2>3. H * c1 = (H * H) * d1 + m1 * H
    BY <1>1, <1>10
  <2>4. (H * H) * r11 = (H * H) * (H * q3) + (H * H) * p3
    BY <1>1, <1>8
  <2>5. (H * H) * (d1 + q1 + q2 + p3) = (H * H) * c2
    BY <1>11
  <2>6. (H * H) * c2 = (H * H) * (H * d2) + (H * H) * m2
    BY <1>1, <1>12
  <2>7. (x * H + m2) * (H * H) = (H * H) * (H * d2) + (H * H) * (H * q3) + (H * H) * m2
    BY <1>1, <1>8, <1>12, <1>13
  <2>8. (H * H) * (d1 + q1 + q2 + p3) = (H * H) * d1 + (H * H) * (q1 + q2) + (H * H) * p3
    BY <1>1, <1>8, <1>10
  <2> DEFINE A == (H * H) * d1
             B == (H * H) * (q1 + q2)
             C == (H * H) * p3
             E == (H * H) * (H * d2)
             F == (H * H) * (H * q3)
             G == (H * H) * m2
             I == H * (p1 + p2)
             J == m1 * H
             K == H * c1
             L == (H * H) * c2
  <2>9. /\ A \in Int /\ B \in Int /\ C \in Int /\ E \in Int /\ F \in Int /\ G \in Int
        /\ I \in Int /\ J \in Int /\ K \in Int /\ L \in Int
    <3>1. H * H \in Int /\ H * d2 \in Int /\ H * q3 \in Int /\ q1 + q2 \in Int /\ p1 + p2 \in Int
      BY <1>1, <1>8, <1>12
    <3> DEFINE HH == H * H
               u == H * d2
               v == H * q3
    <3>2. HH \in Int /\ u \in Int /\ v \in Int
      BY <3>1
    <3> HIDE DEF HH, u, v
    <3>3. HH * d1 \in Int /\ HH * (q1 + q2) \in Int /\ HH * p3 \in Int /\ HH * u \in Int
          /\ HH * v \in Int /\ HH * m2 \in Int /\ HH * c2 \in Int
      BY <3>1, <3>2, <1>8, <1>10, <1>11, <1>12
    <3>4. I \in Int /\ J \in Int /\ K \in Int
      BY <3>1, <1>1, <1>9, <1>10
    <3> QED BY <3>3, <3>4 DEF HH, u, v
  <2>10. /\ a * b = r00 + (B + I) + (F + C) /\ r00 + I = K + p0 /\ K = A + J
         /\ A + B + C = L /\ L = E + G
         /\ (x * H + m2) * (H * H) = E + F + G
    BY <1>7, <2>1, <2>2, <2>3, <2>4, <2>5, <2>6, <2>7, <2>8, Zenon
  <2> DEFINE ab == a * b
             xm == (x * H + m2) * (H * H)
  <2>11. ab = r00 + (B + I) + (F + C) /\ xm = E + F + G
    BY <2>10
  <2> HIDE DEF A, B, C, E, F, G, I, J, K, L, ab, xm
  <2>12. ab = xm + J + p0
    BY <1>6, <1>8, <2>9, <2>10, <2>11
  <2> QED BY <1>3, <2>12, Zenon DEF ab, xm, J
<1>15. x < H
  <2>1. a * b < W * W
    <3>1. a * b <= (W - 1) * b /\ (W - 1) * b <= (W - 1) * W /\ (W - 1) * W < W * W
      BY <1>1
    <3>2. a * b \in Int /\ (W - 1) * b \in Int /\ (W - 1) * W \in Int /\ W * W \in Int
      BY <1>1
    <3> DEFINE u == a * b
               v == (W - 1) * b
               w == (W - 1) * W
               y == W * W
    <3>3. u \in Int /\ v \in Int /\ w \in Int /\ y \in Int /\ u <= v /\ v <= w /\ w < y
      BY <3>1, <3>2
    <3> HIDE DEF u, v, w, y
    <3>4. u < y
      BY <3>3
    <3> QED BY <3>4 DEF u, y
  <2>2. x >= H => (x * H) * W >= W * W
    <3> SUFFICES ASSUME x >= H PROVE (x * H) * W >= W * W
      OBVIOUS
    <3>1. x * H >= H * H
      BY <1>1, <1>13
    <3>2. x * H \in Nat /\ x * H >= W
      BY <1>1, <1>3, <1>13, <3>1
    <3> DEFINE y == x * H
    <3>3. y \in Nat /\ y >= W
      BY <3>2
    <3> HIDE DEF y
    <3>4. y * W >= W * W
      BY <1>1, <3>3
    <3> QED BY <3>4 DEF y
  <2>3. a * b >= (x * H) * W
    <3> DEFINE y == x * H
               J == m1 * H
    <3>1. y \in Nat /\ J \in Nat /\ p0 \in Nat /\ m2 \in Nat
      BY <1>1, <1>8, <1>10, <1>12, <1>13
    <3>2. a * b = (y + m2) * W + J + p0
      BY <1>14
    <3> HIDE DEF y, J
    <3>3. (y + m2) * W >= y * W /\ (y + m2) * W \in Int /\ y * W \in Int
      BY <1>1, <3>1
    <3>4. (y + m2) * W + J + p0 >= y * W
      BY <3>1, <3>3
    <3> QED BY <3>2, <3>4 DEF y
  <2>4. a * b \in Int /\ W * W \in Int /\ (x * H) * W \in Int
    <3>1. x * H \in Int
      BY <1>1, <1>13
    <3> QED BY <1>1, <3>1
  <2> QED BY <1>1, <1>13, <2>1, <2>2, <2>3, <2>4
<1>16. x % H = x
  <2>1. x \in 0..(H - 1) /\ x = H * 0 + x /\ x \in Int
    BY <1>1, <1>13, <1>15
  <2> QED BY <1>1, <2>1, DivModUnique
<1>17. long = (x * H + m2) * W + m1 * H + p0
  BY <1>16, Zenon DEF m2, m1, p0
<1> QED BY <1>14, <1>17, Zenon

\* A significand moved up to the top of a word, but for the sign's bit.
LEMMA Scale ==
    ASSUME FormatSuits
    PROVE  TOP = (2 * MANTS) * 2^RND_SIZE
<1> DEFINE R == 2^RND_SIZE
<1>1. MANT_SIZE \in Nat /\ RND_SIZE \in Nat /\ MANT_SIZE + RND_SIZE \in Nat
      /\ F_SIZE - 1 = (MANT_SIZE + RND_SIZE) + 1
  BY Format DEF FormatSuits, RND_SIZE, IMANT_SIZE
<1>2. 2^(MANT_SIZE + RND_SIZE) = MANTS * R
  BY <1>1, PowerAdd DEF MANTS
<1>3. 2^((MANT_SIZE + RND_SIZE) + 1) = 2 * 2^(MANT_SIZE + RND_SIZE)
  BY <1>1, PowerStep, Zenon
<1>4. TOP = 2 * (MANTS * R)
  BY <1>1, <1>2, <1>3, Zenon DEF TOP
<1>5. R \in Nat /\ MANTS \in Nat
  BY <1>1, PowerIsNat, Format
<1> HIDE DEF R
<1>6. 2 * (MANTS * R) = (2 * MANTS) * R
  BY <1>5
<1> QED BY <1>4, <1>6 DEF R

\* Half of what a double word may hold is half of what a word may hold.
LEMMA StickyBelow ==
    ASSUME FormatSuits, NEW m \in Nat, m < 2^F_SIZE * TOP
    PROVE  Sticky(m) \in Int /\ Sticky(m) < TOP
<1> DEFINE W == 2^F_SIZE
           h == 2^(F_SIZE - 2)
           q == m \div W
           c == m % W # 0
<1>1. W \in Nat \ {0} /\ TOP \in Nat /\ h \in Nat /\ TOP = 2 * h
  <2>1. F_SIZE \in Nat /\ F_SIZE - 2 \in Nat /\ F_SIZE - 1 = (F_SIZE - 2) + 1
    BY Format
  <2>2. 2^((F_SIZE - 2) + 1) = 2 * 2^(F_SIZE - 2)
    BY <2>1, PowerStep, Zenon
  <2>3. TOP = 2 * h
    BY <2>1, <2>2, Zenon DEF TOP
  <2> QED BY <2>1, <2>3, PowerIsNat, Format
<1>2. Sticky(m) = OrBit(q, c)
  BY DEF Sticky
<1> HIDE DEF W, h
<1>3. q \in Nat /\ q < 2 * h
  BY <1>1, DivNat, DivBelow DEF W
<1> HIDE DEF q, c
<1>4. OrBit(q, c) \in Int /\ OrBit(q, c) < 2 * h
  BY <1>1, <1>3, OrBitTyped, OrBitBelow
<1> QED BY <1>1, <1>2, <1>4

\* mul_sf: the product's high half leaves the top bit free.
LEMMA MulTyped ==
    ASSUME FormatSuits, NEW a \in Words, NEW b \in Words, NEW rm
    PROVE  WordResult(MulSf(a, b, rm))
<1> DEFINE s == Bit(Sign(a) # Sign(b))
           A == NormalizeSubnormalSf(a)
           B == NormalizeSubnormalSf(b)
           m == MulU(A.m * 2^RND_SIZE, B.m * 2^(RND_SIZE + 1))
           e == A.e + B.e - 2^(EXP_SIZE - 1) + 2
<1>1. s \in {0, 1}
  BY DEF Bit
<1>2. A.e \in Int /\ A.m \in Nat /\ A.m < 2 * MANTS /\ B.e \in Int /\ B.m \in Nat
      /\ B.m < 2 * MANTS
  BY SubnormalTyped
<1>3. /\ 2^(EXP_SIZE - 1) \in Int
      /\ \A k \in Nat : k < 2 * MANTS => /\ k * 2^RND_SIZE \in Nat /\ k * 2^RND_SIZE < TOP
                                         /\ k * 2^(RND_SIZE + 1) \in Nat
                                         /\ k * 2^(RND_SIZE + 1) < 2 * TOP
  <2>1. EXP_SIZE - 1 \in Nat /\ RND_SIZE \in Nat
    BY Format DEF FormatSuits
  <2> DEFINE R == 2^RND_SIZE
  <2>2. R \in Nat /\ R >= 1 /\ 2^(RND_SIZE + 1) = 2 * R /\ TOP = (2 * MANTS) * R
        /\ MANTS \in Nat
    BY <2>1, PowerIsNat, PowerStep, Scale, Format
  <2> HIDE DEF R
  <2>3. ASSUME NEW k \in Nat, k < 2 * MANTS
        PROVE  k * R \in Nat /\ k * R < TOP /\ k * (2 * R) \in Nat /\ k * (2 * R) < 2 * TOP
    <3>1. k * R < (2 * MANTS) * R
      BY <2>2, <2>3
    <3>2. k * R \in Nat /\ k * (2 * R) = 2 * (k * R)
      BY <2>2
    <3> DEFINE y == k * R
    <3>3. y \in Nat /\ y < TOP /\ k * (2 * R) = 2 * y
      BY <2>2, <3>1, <3>2
    <3> HIDE DEF y
    <3>4. 2 * y \in Nat /\ 2 * y < 2 * TOP
      BY <3>3, Format
    <3> QED BY <3>3, <3>4 DEF y
  <2>4. 2^(EXP_SIZE - 1) \in Int
    BY <2>1, PowerIsNat
  <2> QED BY <2>2, <2>3, <2>4 DEF R
<1>4. MulSf(a, b, rm) =
        CASE IsNan(a) \/ IsNan(b) -> QuietOf({a, b})
          [] (IsInf(a) /\ IsZero(b)) \/ (IsInf(b) /\ IsZero(a)) -> Invalid
          [] (IsInf(a) /\ ~IsNan(b) /\ ~IsZero(b)) \/ (IsInf(b) /\ ~IsNan(a) /\ ~IsZero(a))
               -> Res(Inf(s), {})
          [] (IsZero(a) \/ IsZero(b)) /\ EXP_MASK \notin {Exp(a), Exp(b)}
               -> Res(PackSf(s, 0, 0), {})
          [] OTHER -> NormalizeSf(s, e, Sticky(m), rm)
  BY Zenon DEF MulSf
<1> HIDE DEF A, B, s
<1>5. m \in Nat /\ m < 2^F_SIZE * TOP /\ e \in Int
  <2> DEFINE u == A.m * 2^RND_SIZE
             v == B.m * 2^(RND_SIZE + 1)
  <2>1. u \in Nat /\ u < TOP /\ v \in Nat /\ v < 2 * TOP
    BY <1>2, <1>3
  <2>2. u \in Words /\ v \in Words /\ TOP \in Nat /\ 2^F_SIZE = 2 * TOP
    <3> HIDE DEF u, v
    <3> QED BY <2>1, Format DEF Words
  <2>3. m = u * v
    BY <2>2, MulUExact, Zenon
  <2> HIDE DEF u, v
  <2>4. u * v \in Nat /\ u * v < 2^F_SIZE * TOP
    <3>1. u * v <= (TOP - 1) * v /\ (TOP - 1) * v <= (TOP - 1) * (2 * TOP)
          /\ (TOP - 1) * (2 * TOP) < (2 * TOP) * TOP
      <4>1. TOP > 0
        BY <2>1, <2>2
      <4> QED BY <2>1, <2>2, <4>1
    <3> DEFINE y == u * v
               z == (TOP - 1) * v
               w == (TOP - 1) * (2 * TOP)
               t == (2 * TOP) * TOP
    <3>2. y \in Nat /\ z \in Int /\ w \in Int /\ t \in Int /\ y <= z /\ z <= w /\ w < t
      BY <2>1, <2>2, <3>1
    <3> HIDE DEF y, z, w, t
    <3>3. y \in Nat /\ y < t
      BY <3>2
    <3> QED BY <2>2, <3>3 DEF y, t
  <2>5. e \in Int
    BY <1>2, <1>3
  <2> QED BY <2>3, <2>4, <2>5
<1> HIDE DEF m, e
<1>6. Sticky(m) \in Int /\ Sticky(m) < TOP
  BY <1>5, StickyBelow
<1>7. WordResult(NormalizeSf(s, e, Sticky(m), rm))
  BY <1>1, <1>5, <1>6, NormalizeTyped
<1>8. WordResult(Res(Inf(s), {})) /\ WordResult(Res(PackSf(s, 0, 0), {}))
      /\ WordResult(Invalid) /\ WordResult(QuietOf({a, b}))
  <2>1. 0 \in 0..EXP_MASK /\ 0 \in Int
    <3>1. EXPS \in Nat /\ EXPS >= 32 /\ EXP_MASK = EXPS - 1
      BY Format
    <3> HIDE DEF EXP_MASK
    <3> QED BY <3>1
  <2> QED BY <1>1, <2>1, ConstantWords DEF WordResult, Res
<1>9. (IsNan(a) => ~IsInf(a) /\ Exp(a) = EXP_MASK) /\ (IsNan(b) => ~IsInf(b) /\ Exp(b) = EXP_MASK)
      /\ (IsInf(a) => Exp(a) = EXP_MASK) /\ (IsInf(b) => Exp(b) = EXP_MASK)
  BY DEF IsNan, IsInf
<1> HIDE DEF WordResult
<1> DEFINE r == MulSf(a, b, rm)
<1>10. r \in {QuietOf({a, b}), Invalid, Res(Inf(s), {}), Res(PackSf(s, 0, 0), {}),
              NormalizeSf(s, e, Sticky(m), rm)}
  <2> HIDE DEF r
  <2> QED BY <1>4, <1>9 DEF r
<1> QED BY <1>7, <1>8, <1>10

\* Double words as fma adds them: their top bit is the third from the left or one
\* below it.
LOW == 2^(2 * F_SIZE - 3)

\* What such double words are in terms of words.
LEMMA Doubles ==
    ASSUME FormatSuits
    PROVE  /\ LOW \in Nat /\ LOW >= 4
           /\ 2^(2 * F_SIZE - 1) = 4 * LOW /\ 2^(2 * F_SIZE) = 8 * LOW
           /\ 2^F_SIZE * TOP = 4 * LOW
           /\ \E h \in Nat : /\ h >= 4 /\ h = MANTS * 2^RND_SIZE
                             /\ TOP = 2 * h /\ 2^F_SIZE = 4 * h /\ LOW = 2 * (h * h)
<1> DEFINE h == 2^(F_SIZE - 2)
           k == 2 * F_SIZE - 3
<1>1. /\ F_SIZE \in Nat /\ F_SIZE - 2 \in Nat /\ F_SIZE - 1 \in Nat /\ F_SIZE - 1 = (F_SIZE - 2) + 1
      /\ k \in Nat /\ k + 1 \in Nat /\ k + 2 \in Nat /\ k = (F_SIZE - 1) + (F_SIZE - 2)
      /\ 2 * F_SIZE - 1 = (k + 1) + 1 /\ 2 * F_SIZE = ((k + 1) + 1) + 1 /\ F_SIZE - 2 >= 2
  BY Format
<1>2. h \in Nat /\ h >= 4
  <2>1. 2^2 <= 2^(F_SIZE - 2) /\ 2^2 = 4
    BY <1>1, PowerGrows
  <2> QED BY <1>1, <2>1, PowerIsNat
<1>3. TOP = 2 * h /\ 2^F_SIZE = 2 * TOP
  <2>1. 2^((F_SIZE - 2) + 1) = 2 * 2^(F_SIZE - 2)
    BY <1>1, PowerStep, Zenon
  <2>2. TOP = 2 * h
    BY <1>1, <2>1, Zenon DEF TOP
  <2> QED BY <2>2, Format
<1>4. LOW = TOP * h
  <2>1. 2^((F_SIZE - 1) + (F_SIZE - 2)) = 2^(F_SIZE - 1) * 2^(F_SIZE - 2)
    BY <1>1, PowerAdd, Zenon
  <2> QED BY <1>1, <2>1, Zenon DEF LOW, TOP
<1>5. 2^((k + 1) + 1) = 2 * (2 * LOW) /\ 2^(((k + 1) + 1) + 1) = 2 * (2 * (2 * LOW))
  <2>1. 2^(k + 1) = 2 * LOW
    BY <1>1, PowerStep, Zenon DEF LOW
  <2>2. 2^((k + 1) + 1) = 2 * 2^(k + 1)
    BY <1>1, PowerStep, Zenon
  <2>3. (k + 1) + 1 \in Nat
    BY <1>1
  <2>4. 2^(((k + 1) + 1) + 1) = 2 * 2^((k + 1) + 1)
    BY <2>3, PowerStep, Zenon
  <2> QED BY <2>1, <2>2, <2>4, Zenon
<1>6. h = MANTS * 2^RND_SIZE
  <2>1. RND_SIZE \in Nat /\ MANT_SIZE \in Nat /\ F_SIZE - 2 = MANT_SIZE + RND_SIZE
    BY Format DEF FormatSuits, RND_SIZE, IMANT_SIZE
  <2> QED BY <2>1, PowerAdd, Zenon DEF MANTS
<1>7. LOW = 2 * (h * h) /\ h * h \in Nat /\ h * h >= 4
  <2> HIDE DEF h
  <2> QED BY <1>2, <1>3, <1>4
<1>8. 2^(2 * F_SIZE - 1) = 2 * (2 * LOW) /\ 2^(2 * F_SIZE) = 2 * (2 * (2 * LOW))
  BY <1>1, <1>5, Zenon
<1> HIDE DEF h, k
<1>9. LOW \in Nat /\ LOW >= 4 /\ 2^F_SIZE * TOP = 4 * LOW
  <2>1. 2^F_SIZE * TOP = (2 * (2 * h)) * (2 * h)
    BY <1>3
  <2>2. (2 * (2 * h)) * (2 * h) = 8 * (h * h)
    BY <1>2
  <2> DEFINE y == h * h
  <2>3. y \in Nat /\ y >= 4 /\ LOW = 2 * y /\ 2^F_SIZE * TOP = 8 * y
    BY <1>7, <2>1, <2>2
  <2> HIDE DEF y
  <2> QED BY <2>3
<1>10. 2 * (2 * LOW) = 4 * LOW /\ 2 * (2 * (2 * LOW)) = 8 * LOW
  BY <1>9
<1>11. 2^F_SIZE = 4 * h
  BY <1>2, <1>3
<1> QED BY <1>2, <1>3, <1>6, <1>7, <1>8, <1>9, <1>10, <1>11

\* A term that is shifted by anything is no larger than the smallest that is not.
LEMMA RShift2Typed ==
    ASSUME FormatSuits, NEW m \in Nat, m < 2 * LOW, NEW d \in Nat
    PROVE  /\ RShift2(m, d) \in Nat
           /\ d = 0 => RShift2(m, d) = m
           /\ d # 0 => RShift2(m, d) <= LOW
<1> DEFINE W == 2^F_SIZE
           D == 2^d
           far == RShiftRnd(m \div W, d - F_SIZE)
           q == m \div D
           c == m % D # 0
           near == OrBit(q, c)
<1>1. F_SIZE \in Nat /\ F_SIZE >= 1 /\ W \in Nat \ {0} /\ W >= 2 /\ D \in Nat \ {0}
      /\ (d # 0 => D >= 2) /\ (d = 0 => D = 1) /\ LOW \in Nat /\ LOW >= 4
  <2>1. F_SIZE \in Nat /\ F_SIZE >= 8 /\ W \in Nat \ {0} /\ D \in Nat \ {0}
    BY Format, PowerIsNat
  <2>2. 2^1 <= W /\ 2^1 = 2 /\ 2^0 = 1
    BY <2>1, PowerGrows
  <2>3. d # 0 => 2^1 <= D
    BY PowerGrows
  <2>4. d = 0 => D = 1
    BY <2>2, Zenon
  <2>5. LOW \in Nat /\ LOW >= 4
    BY Doubles
  <2> HIDE DEF W, D
  <2> QED BY <2>1, <2>2, <2>3, <2>4, <2>5
<1>2. RShift2(m, d) = CASE d >= 2 * F_SIZE -> Bit(m # 0)
          [] d > F_SIZE /\ d < 2 * F_SIZE -> far
          [] OTHER -> near
  BY Zenon DEF RShift2
<1> HIDE DEF W, D
<1>3. Bit(m # 0) \in {0, 1}
  BY DEF Bit
<1>4. d > F_SIZE => far \in Nat /\ far <= LOW
  <2> SUFFICES ASSUME d > F_SIZE PROVE far \in Nat /\ far <= LOW
    OBVIOUS
  <2> DEFINE h == m \div W
             f == d - F_SIZE
  <2>1. m < W * LOW
    <3>1. 2 * LOW <= W * LOW /\ W * LOW \in Nat
      BY <1>1
    <3> QED BY <1>1, <3>1
  <2>2. h \in Nat /\ h < LOW
    BY <1>1, <2>1, DivNat, DivBelow
  <2>3. f \in Nat
    BY <1>1
  <2> HIDE DEF h, f
  <2>4. RShiftRnd(h, f) \in Nat /\ RShiftRnd(h, f) <= h
    BY <2>2, <2>3, RShiftBelow
  <2> QED BY <1>1, <2>2, <2>4 DEF h, f
<1>5. near \in Nat /\ (d = 0 => near = m) /\ (d # 0 => near <= LOW)
  <2>1. q \in Nat
    BY <1>1, DivNat
  <2>2. d = 0 => q = m /\ ~c
    <3> SUFFICES ASSUME d = 0 PROVE q = m /\ ~c
      OBVIOUS
    <3>1. D = 1
      BY <1>1
    <3>2. m \div 1 = m /\ m % 1 = 0
      OBVIOUS
    <3> QED BY <3>1, <3>2
  <2>3. d # 0 => q < LOW
    <3> SUFFICES ASSUME d # 0 PROVE q < LOW
      OBVIOUS
    <3>1. 2 * LOW <= D * LOW /\ D * LOW \in Nat
      BY <1>1
    <3>2. m < D * LOW
      BY <1>1, <3>1
    <3> QED BY <1>1, <3>2, DivBelow
  <2> HIDE DEF q, c
  <2> QED BY <1>1, <2>1, <2>2, <2>3 DEF OrBit
<1> HIDE DEF far, near
<1> QED BY <1>1, <1>2, <1>3, <1>4, <1>5

\* The terms of a sum: a sign, an exponent and a double word.
Term(t) == t.s \in {0, 1} /\ t.e \in Int /\ t.m \in LOW..(2 * LOW - 1)

\* Of the terms, the second holds nothing in its low half; so comparing the high halves
\* finds the larger, and neither the sum nor the difference reaches the top bit.
LEMMA FusedSumTyped ==
    ASSUME FormatSuits, NEW p, NEW q, Term(p), Term(q), NEW rm,
           NEW half \in Nat, q.m = 2^F_SIZE * half
    PROVE  WordResult(FusedSum(p, q, rm))
<1> DEFINE W == 2^F_SIZE
           ph == p.m \div W
           qh == q.m \div W
           swap == ~(p.e > q.e \/ (p.e = q.e /\ ph >= qh))
           big == IF swap THEN q ELSE p
           small == IF swap THEN p ELSE q
           low == RShift2(small.m, big.e - small.e)
           n == 2^(2 * F_SIZE)
           m == IF p.s = q.s THEN big.m + low ELSE (big.m - low) % n
           s == IF p.s # q.s /\ m = 0 THEN Bit(rm = RDN) ELSE big.s
<1>1. FusedSum(p, q, rm) = Normalize2Sf(s, big.e, m, rm)
  BY DEF FusedSum
<1>2. W \in Nat \ {0} /\ n = 8 * LOW /\ 2^(2 * F_SIZE - 1) = 4 * LOW /\ LOW \in Nat /\ LOW >= 4
  BY Format, PowerIsNat, Doubles
<1>3. p.m \in Nat /\ q.m \in Nat /\ p.e \in Int /\ q.e \in Int
  BY <1>2 DEF Term
<1> HIDE DEF W, n
<1>4. ph \in Nat /\ p.m >= W * ph /\ p.m < W * ph + W
  <2> DEFINE r == p.m % W
  <2>1. p.m \in Int /\ ph \in Nat
    BY <1>2, <1>3, DivNat
  <2>2. r \in 0..(W - 1) /\ p.m = W * ph + r
    BY <1>2, <2>1, DivMod, Zenon
  <2> HIDE DEF r, ph
  <2>3. W * ph \in Int
    BY <1>2, <2>1
  <2> QED BY <1>2, <2>1, <2>2, <2>3
<1>5. qh = half
  <2>1. q.m = W * half + 0 /\ 0 \in 0..(W - 1) /\ half \in Int /\ q.m \in Int
    BY <1>2, <1>3 DEF W
  <2> QED BY <1>2, <2>1, DivModUnique
<1> HIDE DEF ph, qh
<1>6. p.e = q.e => small.m <= big.m
  <2>1. ph >= qh => W * ph >= W * half
    BY <1>2, <1>4, <1>5
  <2>2. ~(ph >= qh) => W * half >= W * ph + W
    BY <1>2, <1>4, <1>5
  <2>3. q.m = W * half /\ W * half \in Nat /\ W * ph \in Nat
    BY <1>2, <1>4 DEF W
  <2> QED BY <1>2, <1>3, <1>4, <2>1, <2>2, <2>3
<1>7. Term(big) /\ Term(small) /\ big.e - small.e \in Nat /\ (big.e = small.e => p.e = q.e)
  <2>1. big.e >= small.e
    BY <1>3
  <2> QED BY <1>3, <2>1 DEF Term
<1> HIDE DEF big, small
<1>8. /\ big.m \in Nat /\ small.m \in Nat /\ LOW <= big.m /\ big.m < 2 * LOW /\ small.m < 2 * LOW
      /\ big.e \in Int /\ small.e \in Int /\ big.s \in {0, 1}
  BY <1>2, <1>7 DEF Term
<1>9. low \in Nat /\ low <= big.m
  <2> DEFINE d == big.e - small.e
  <2>1. d \in Nat
    BY <1>7
  <2>2. /\ low \in Nat /\ (d = 0 => low = small.m) /\ (d # 0 => low <= LOW)
    <3> HIDE DEF d
    <3>1. /\ RShift2(small.m, d) \in Nat /\ (d = 0 => RShift2(small.m, d) = small.m)
          /\ (d # 0 => RShift2(small.m, d) <= LOW)
      BY <1>8, <2>1, RShift2Typed
    <3> QED BY <3>1 DEF d
  <2>3. d = 0 => p.e = q.e
    BY <1>7, <1>8
  <2> HIDE DEF low, d
  <2> QED BY <1>2, <1>6, <1>8, <2>1, <2>2, <2>3
<1> HIDE DEF low
<1>10. m \in Nat /\ m < 4 * LOW
  <2>1. CASE p.s = q.s
    BY <1>2, <1>8, <1>9, <2>1
  <2>2. CASE p.s # q.s
    <3> DEFINE x == big.m - low
    <3>1. x \in Nat /\ x < 2 * LOW /\ x \in 0..(n - 1) /\ x = n * 0 + x /\ x \in Int /\ n \in Nat \ {0}
      BY <1>2, <1>8, <1>9
    <3> HIDE DEF x
    <3>2. x % n = x
      BY <3>1, DivModUnique
    <3>3. m = x
      BY <2>2, <3>2 DEF x
    <3> HIDE DEF m
    <3> QED BY <1>2, <3>1, <3>3
  <2> QED BY <2>1, <2>2
<1>11. s \in {0, 1}
  BY <1>8 DEF Bit
<1> HIDE DEF m, s
<1>12. m \in Int /\ m < 2^(2 * F_SIZE - 1)
  BY <1>2, <1>10
<1> QED BY <1>1, <1>8, <1>11, <1>12, Normalize2Typed

\* What a term is made of: a significand moved up to the third bit of a double word.
LEMMA TermTyped ==
    ASSUME FormatSuits, NEW k \in Nat, MANTS <= k, k < 2 * MANTS
    PROVE  \E half \in Nat : /\ k * 2^(RND_SIZE - 1 + F_SIZE) = 2^F_SIZE * half
                             /\ k * 2^(RND_SIZE - 1 + F_SIZE) \in LOW..(2 * LOW - 1)
<1> DEFINE R == 2^(RND_SIZE - 1)
           W == 2^F_SIZE
           half == k * R
<1>1. RND_SIZE - 1 \in Nat /\ F_SIZE \in Nat /\ RND_SIZE = (RND_SIZE - 1) + 1 /\ RND_SIZE \in Nat
  BY Format
<1>2. 2^(RND_SIZE - 1 + F_SIZE) = R * W /\ 2^RND_SIZE = 2 * R /\ R \in Nat /\ R >= 1
  <2>1. 2^((RND_SIZE - 1) + 1) = 2 * 2^(RND_SIZE - 1)
    BY <1>1, PowerStep, Zenon
  <2> QED BY <1>1, <2>1, PowerAdd, PowerIsNat
<1>3. PICK h \in Nat : h >= 4 /\ h = MANTS * 2^RND_SIZE /\ W = 4 * h /\ LOW = 2 * (h * h)
  BY Doubles
<1>4. MANTS \in Nat
  BY Format
<1> HIDE DEF R, W
<1>5. half \in Nat /\ 2 * half >= h /\ half < h
  <2>1. h = 2 * (MANTS * R) /\ (2 * MANTS) * R = 2 * (MANTS * R)
    BY <1>2, <1>3, <1>4
  <2>2. MANTS * R <= k * R /\ k * R < (2 * MANTS) * R /\ k * R \in Nat /\ MANTS * R \in Nat
    BY <1>2, <1>4
  <2> DEFINE y == MANTS * R
  <2>3. y \in Nat /\ h = 2 * y /\ y <= half /\ half < 2 * y /\ half \in Nat
    BY <2>1, <2>2
  <2> HIDE DEF y, half
  <2> QED BY <2>3
<1>6. k * (R * W) = W * half
  <2>1. W \in Nat
    BY <1>3
  <2> QED BY <1>2, <2>1
<1> HIDE DEF half
<1>7. W * half \in LOW..(2 * LOW - 1)
  <2>1. W * half = 4 * (h * half)
    BY <1>3, <1>5
  <2>2. h * (2 * half) >= h * h /\ h * half < h * h
    BY <1>3, <1>5
  <2>3. h * (2 * half) = 2 * (h * half)
    BY <1>3, <1>5
  <2> DEFINE y == h * half
             z == h * h
  <2>4. y \in Nat /\ z \in Nat /\ W * half = 4 * y /\ 2 * y >= z /\ y < z /\ LOW = 2 * z
    BY <1>3, <1>5, <2>1, <2>2, <2>3
  <2> HIDE DEF y, z
  <2>5. 4 * y \in (2 * z)..(2 * (2 * z) - 1)
    BY <2>4
  <2> QED BY <2>4, <2>5
<1>8. k * 2^(RND_SIZE - 1 + F_SIZE) = W * half
  BY <1>2, <1>6, Zenon
<1> QED BY <1>5, <1>7, <1>8 DEF W

\* The product of two significands so moved, by the same bits together.
LEMMA ProductTyped ==
    ASSUME FormatSuits, NEW j \in Nat, MANTS <= j, j < 2 * MANTS, NEW k \in Nat, MANTS <= k, k < 2 * MANTS
    PROVE  LET m == MulU(j * 2^RND_SIZE, k * 2^RND_SIZE) IN
           m \in Nat /\ m < 2 * LOW /\ 2 * m >= LOW
<1> DEFINE R == 2^RND_SIZE
           u == j * R
           v == k * R
<1>1. PICK h \in Nat : h >= 4 /\ h = MANTS * R /\ TOP = 2 * h /\ 2^F_SIZE = 4 * h /\ LOW = 2 * (h * h)
  BY Doubles
<1>2. R \in Nat /\ R >= 1 /\ MANTS \in Nat
  BY Format, PowerIsNat
<1> HIDE DEF R
<1>3. ASSUME NEW i \in Nat, MANTS <= i, i < 2 * MANTS
      PROVE  i * R \in Nat /\ h <= i * R /\ i * R < 2 * h
  <2>1. MANTS * R <= i * R /\ i * R < (2 * MANTS) * R /\ (2 * MANTS) * R = 2 * (MANTS * R)
        /\ i * R \in Nat
    BY <1>2, <1>3
  <2> QED BY <1>1, <2>1
<1>4. u \in Nat /\ h <= u /\ u < 2 * h /\ v \in Nat /\ h <= v /\ v < 2 * h
  BY <1>3
<1> HIDE DEF u, v
<1>5. u \in Words /\ v \in Words
  BY <1>1, <1>4 DEF Words
<1>6. MulU(u, v) = u * v
  BY <1>5, MulUExact
<1>7. u * v \in Nat /\ u * v >= h * h /\ u * v < 4 * (h * h)
  <2>1. h * h <= u * h /\ u * h <= u * v
    BY <1>4
  <2>2. u * v <= u * (2 * h) /\ u * (2 * h) < (2 * h) * (2 * h)
    BY <1>1, <1>4
  <2> DEFINE a == h * h
             b == u * h
             c == u * v
             d == u * (2 * h)
             e == (2 * h) * (2 * h)
  <2>3. /\ a \in Nat /\ b \in Nat /\ c \in Nat /\ d \in Nat /\ e \in Nat /\ e = 4 * a
        /\ a <= b /\ b <= c /\ c <= d /\ d < e
    BY <1>1, <1>4, <2>1, <2>2
  <2> HIDE DEF a, b, c, d, e
  <2>4. c \in Nat /\ c >= a /\ c < 4 * a
    BY <2>3
  <2> QED BY <2>4 DEF a, c
<1> DEFINE y == u * v
           z == h * h
<1>8. y \in Nat /\ z \in Nat /\ y >= z /\ y < 4 * z /\ LOW = 2 * z /\ MulU(u, v) = y
  BY <1>1, <1>6, <1>7
<1> HIDE DEF y, z
<1>9. y \in Nat /\ y < 2 * LOW /\ 2 * y >= LOW
  BY <1>8
<1> QED BY <1>8, <1>9 DEF u, v, R

\* fma_sf: neither assertion of the normalisations fails.
LEMMA FmaTyped ==
    ASSUME FormatSuits, NEW a \in Words, NEW b \in Words, NEW c \in Words, NEW rm
    PROVE  WordResult(FmaSf(a, b, c, rm))
<1> DEFINE s == Bit(Sign(a) # Sign(b))
           A == NormalizeSubnormalSf(a)
           B == NormalizeSubnormalSf(b)
           C == NormalizeSubnormalSf(c)
           e == A.e + B.e - 2^(EXP_SIZE - 1) + 3
           m == MulU(A.m * 2^RND_SIZE, B.m * 2^RND_SIZE)
           product == IF m < 2^(2 * F_SIZE - 3) THEN [s |-> s, e |-> e - 1, m |-> 2 * m]
                                                ELSE [s |-> s, e |-> e, m |-> m]
           term == [s |-> Sign(c), e |-> C.e + 1, m |-> C.m * 2^(RND_SIZE - 1 + F_SIZE)]
           special == EXP_MASK \in {Exp(a), Exp(b), Exp(c)}
           infProduct == IsInf(a) \/ IsInf(b)
           infinity == Res(Inf(IF IsInf(c) THEN Sign(c) ELSE s), {})
           zero == Res(PackSf(IF Sign(c) # s THEN Bit(rm = RDN) ELSE s, 0, 0), {})
<1>1. s \in {0, 1} /\ Sign(c) \in {0, 1} /\ Bit(rm = RDN) \in {0, 1}
  BY SignsTyped DEF Bit
<1>2. /\ A.e \in Int /\ A.m \in Nat /\ A.m < 2 * MANTS /\ (~IsZero(a) => A.m >= MANTS)
      /\ B.e \in Int /\ B.m \in Nat /\ B.m < 2 * MANTS /\ (~IsZero(b) => B.m >= MANTS)
      /\ C.e \in Int /\ C.m \in Nat /\ C.m < 2 * MANTS /\ (~IsZero(c) => C.m >= MANTS)
      /\ MANTS \in Nat
  BY SubnormalTyped, Format
<1>3. 2^(EXP_SIZE - 1) \in Int
  <2>1. EXP_SIZE - 1 \in Nat
    BY Format DEF FormatSuits
  <2> QED BY <2>1, PowerIsNat
<1>4. FmaSf(a, b, c, rm) =
    CASE IsNan(a) \/ IsNan(b) \/ IsNan(c) -> QuietOf({a, b, c})
      [] special /\ ~(IsNan(a) \/ IsNan(b) \/ IsNan(c)) ->
               (IF \/ IsInf(a) /\ IsZero(b)
                   \/ IsInf(b) /\ IsZero(a)
                   \/ infProduct /\ IsInf(c) /\ s # Sign(c)
                THEN Invalid
                ELSE infinity)
      [] ~special /\ (IsZero(a) \/ IsZero(b)) ->
               (IF IsZero(c) THEN zero ELSE Res(c, {}))
      [] OTHER ->
               (IF IsZero(c) THEN NormalizeSf(s, product.e, Sticky(product.m), rm)
                             ELSE FusedSum(product, term, rm))
  BY Zenon DEF FmaSf
<1> HIDE DEF A, B, C, s
<1>5. ~IsZero(a) /\ ~IsZero(b) => m \in Nat /\ m < 2 * LOW /\ 2 * m >= LOW
  BY <1>2, ProductTyped, Zenon
<1>6. e \in Int
  BY <1>2, <1>3
<1> HIDE DEF m, e
<1>7. ~IsZero(a) /\ ~IsZero(b) => Term(product)
  <2>1. 2^(2 * F_SIZE - 3) = LOW /\ LOW \in Nat
    BY Doubles DEF LOW
  <2>2. product = IF m < LOW THEN [s |-> s, e |-> e - 1, m |-> 2 * m]
                             ELSE [s |-> s, e |-> e, m |-> m]
    BY <2>1
  <2> HIDE DEF product
  <2> QED BY <1>1, <1>5, <1>6, <2>1, <2>2 DEF Term
<1> HIDE DEF product, special, infProduct
<1>8. ~IsZero(a) /\ ~IsZero(b) => WordResult(NormalizeSf(s, product.e, Sticky(product.m), rm))
  <2> SUFFICES ASSUME ~IsZero(a), ~IsZero(b)
               PROVE  WordResult(NormalizeSf(s, product.e, Sticky(product.m), rm))
    OBVIOUS
  <2>1. product.m \in Nat /\ product.m < 2^F_SIZE * TOP /\ product.e \in Int
    BY <1>7, Doubles DEF Term
  <2>2. Sticky(product.m) \in Int /\ Sticky(product.m) < TOP
    BY <2>1, StickyBelow
  <2> QED BY <1>1, <2>1, <2>2, NormalizeTyped
<1>9. ~IsZero(a) /\ ~IsZero(b) /\ ~IsZero(c) => WordResult(FusedSum(product, term, rm))
  <2> SUFFICES ASSUME ~IsZero(a), ~IsZero(b), ~IsZero(c)
               PROVE  WordResult(FusedSum(product, term, rm))
    OBVIOUS
  <2>1. PICK half \in Nat : /\ C.m * 2^(RND_SIZE - 1 + F_SIZE) = 2^F_SIZE * half
                            /\ C.m * 2^(RND_SIZE - 1 + F_SIZE) \in LOW..(2 * LOW - 1)
    BY <1>2, TermTyped
  <2>2. Term(term) /\ term.m = 2^F_SIZE * half
    BY <1>1, <1>2, <2>1 DEF Term
  <2> HIDE DEF term
  <2> QED BY <1>7, <2>2, FusedSumTyped
<1> HIDE DEF term
<1>10. WordResult(infinity) /\ WordResult(zero)
  <2>1. 0 \in 0..EXP_MASK /\ 0 \in Int
    <3>1. EXPS \in Nat /\ EXPS >= 32 /\ EXP_MASK = EXPS - 1
      BY Format
    <3> HIDE DEF EXP_MASK
    <3> QED BY <3>1
  <2> QED BY <1>1, <2>1, ConstantWords DEF WordResult, Res
<1>11. WordResult(Res(c, {})) /\ WordResult(Invalid) /\ WordResult(QuietOf({a, b, c}))
  BY ConstantWords DEF WordResult, Res
<1> HIDE DEF infinity, zero, WordResult
<1> DEFINE r == FmaSf(a, b, c, rm)
<1>12. \/ r \in {QuietOf({a, b, c}), Invalid, infinity, zero, Res(c, {})}
       \/ /\ ~IsZero(a) /\ ~IsZero(b)
          /\ r = NormalizeSf(s, product.e, Sticky(product.m), rm)
       \/ /\ ~IsZero(a) /\ ~IsZero(b) /\ ~IsZero(c)
          /\ r = FusedSum(product, term, rm)
  <2> HIDE DEF r
  <2> QED BY <1>4 DEF r
<1> QED BY <1>8, <1>9, <1>10, <1>11, <1>12

\* div_sf: the quotient of two significands, the divisor shifted by two, fits.
LEMMA DivTyped ==
    ASSUME FormatSuits, NEW a \in Words, NEW b \in Words, NEW rm
    PROVE  WordResult(DivSf(a, b, rm))
<1> DEFINE s == Bit(Sign(a) # Sign(b))
           A == NormalizeSubnormalSf(a)
           B == NormalizeSubnormalSf(b)
           d == DivremU(A.m * 2^F_SIZE, B.m * 4)
           e == A.e - B.e + 2^(EXP_SIZE - 1) - 1
           quotient == NormalizeSf(s, e, OrBit(d.q, d.r # 0), rm)
<1>1. s \in {0, 1}
  BY DEF Bit
<1>2. /\ A.e \in Int /\ A.m \in Nat /\ A.m < 2 * MANTS
      /\ B.e \in Int /\ B.m \in Nat /\ B.m < 2 * MANTS /\ (~IsZero(b) => B.m >= MANTS)
  BY SubnormalTyped
<1>3. 2^F_SIZE \in Int /\ 2^(EXP_SIZE - 1) \in Int
  <2>1. F_SIZE \in Nat /\ EXP_SIZE - 1 \in Nat
    BY Format DEF FormatSuits
  <2> QED BY <2>1, PowerIsNat
<1>4. DivSf(a, b, rm) =
    CASE IsNan(a) \/ IsNan(b) -> QuietOf({a, b})
      [] (IsInf(a) /\ IsInf(b)) \/ (IsZero(a) /\ IsZero(b)) -> Invalid
      [] IsInf(a) /\ Exp(b) # EXP_MASK -> Res(Inf(s), {})
      [] (IsInf(b) /\ Exp(a) # EXP_MASK) \/ (IsZero(a) /\ Exp(b) # EXP_MASK /\ ~IsZero(b))
               -> Res(PackSf(s, 0, 0), {})
      [] IsZero(b) /\ Exp(a) # EXP_MASK /\ ~IsZero(a) -> Res(Inf(s), {"DZ"})
      [] OTHER -> quotient
  BY Zenon DEF DivSf
<1> HIDE DEF A, B, s
<1>5. ~IsZero(b) => WordResult(quotient)
  <2> SUFFICES ASSUME ~IsZero(b) PROVE WordResult(quotient)
    OBVIOUS
  <2> DEFINE x == A.m * 2^F_SIZE
             y == B.m * 4
             q == x \div y
  <2>1. PICK h \in Nat : h >= 4 /\ TOP = 2 * h /\ 2^F_SIZE = 4 * h
    BY Doubles
  <2>2. MANTS \in Nat /\ MANTS >= 4 /\ EXPS \in Nat /\ EXPS >= 32 /\ TOP = EXPS * MANTS
    BY Format
  <2>3. x \in Nat /\ y \in Nat \ {0} /\ y <= 2^F_SIZE /\ x < y * TOP
    <3>1. 32 * MANTS <= EXPS * MANTS
      BY <2>2
    <3>2. y \in Nat \ {0} /\ y <= 2^F_SIZE
      BY <1>2, <2>1, <2>2, <3>1
    <3>3. x = 4 * (A.m * h) /\ A.m * h \in Nat
      BY <1>2, <2>1
    <3>4. y * TOP = 8 * (B.m * h) /\ B.m * h \in Nat
      BY <1>2, <2>1
    <3>5. A.m * h < 2 * (B.m * h)
      <4>1. A.m < 2 * B.m
        BY <1>2, <2>2
      <4>2. A.m * h < (2 * B.m) * h /\ (2 * B.m) * h = 2 * (B.m * h)
        BY <1>2, <2>1, <4>1
      <4> QED BY <4>2
    <3> DEFINE t == A.m * h
               u == B.m * h
               v == y * TOP
    <3>6. t \in Nat /\ u \in Nat /\ x = 4 * t /\ v = 8 * u /\ t < 2 * u
      BY <3>3, <3>4, <3>5
    <3> HIDE DEF t, u, v, x, y
    <3>7. x \in Nat /\ x < v
      BY <3>6
    <3> QED BY <3>2, <3>7 DEF v
  <2> HIDE DEF x, y
  <2>4. y * TOP <= y * 2^F_SIZE /\ y * TOP \in Nat /\ y * 2^F_SIZE \in Nat
    BY <2>1, <2>3
  <2>5. x < y * 2^F_SIZE
    BY <2>3, <2>4
  <2>6. d.q = q
    <3>1. DivremU(x, y).q = q
      BY <2>3, <2>5, DivremExact, Zenon
    <3> QED BY <3>1 DEF x, y
  <2>7. q \in Nat /\ q < TOP
    BY <2>1, <2>3, DivNat, DivBelow
  <2> HIDE DEF q, d
  <2>8. OrBit(d.q, d.r # 0) \in Int /\ OrBit(d.q, d.r # 0) < TOP
    BY <2>1, <2>6, <2>7, OrBitTyped, OrBitBelow
  <2>9. e \in Int
    BY <1>2, <1>3
  <2> HIDE DEF e
  <2> QED BY <1>1, <2>8, <2>9, NormalizeTyped
<1>6. WordResult(Res(Inf(s), {})) /\ WordResult(Res(PackSf(s, 0, 0), {}))
      /\ WordResult(Res(Inf(s), {"DZ"}))
      /\ WordResult(Invalid) /\ WordResult(QuietOf({a, b}))
  <2>1. 0 \in 0..EXP_MASK /\ 0 \in Int
    <3>1. EXPS \in Nat /\ EXPS >= 32 /\ EXP_MASK = EXPS - 1
      BY Format
    <3> HIDE DEF EXP_MASK
    <3> QED BY <3>1
  <2> QED BY <1>1, <2>1, ConstantWords DEF WordResult, Res, Flags
<1>7. /\ (IsInf(a) <=> Exp(a) = EXP_MASK /\ ~IsNan(a))
      /\ IsZero(b) => Exp(b) # EXP_MASK
  <2>1. Exp(a) = EXP_MASK => (IsInf(a) <=> ~IsNan(a))
    BY DEF IsInf, IsNan
  <2>2. IsInf(a) => Exp(a) = EXP_MASK /\ ~IsNan(a)
    BY DEF IsInf, IsNan
  <2>3. IsZero(b) => Exp(b) # EXP_MASK
    <3>1. /\ Magnitude(b) = Exp(b) * MANTS + Mant(b) /\ Mant(b) \in 0..MANT_MASK
          /\ MANTS \in Nat /\ MANTS >= 4 /\ EXPS \in Nat /\ EXPS >= 32 /\ EXP_MASK = EXPS - 1
          /\ MANT_MASK = MANTS - 1
      BY Format, Fields
    <3> HIDE DEF EXP_MASK, MANT_MASK
    <3> SUFFICES ASSUME Exp(b) = EXP_MASK PROVE Magnitude(b) # 0
      BY DEF IsZero
    <3>2. (EXPS - 1) * MANTS >= MANTS
      BY <3>1
    <3> QED BY <3>1, <3>2
  <2> QED BY <2>1, <2>2, <2>3
<1> HIDE DEF quotient, WordResult
<1> DEFINE r == DivSf(a, b, rm)
<1>8. \/ r \in {QuietOf({a, b}), Invalid, Res(Inf(s), {}), Res(PackSf(s, 0, 0), {}), Res(Inf(s), {"DZ"})}
      \/ ~IsZero(b) /\ r = quotient
  <2> HIDE DEF r
  <2> QED BY <1>4, <1>7 DEF r
<1> QED BY <1>5, <1>6, <1>8

\* sqrt_sf returns a word.
LEMMA SqrtTyped ==
    ASSUME FormatSuits, NEW a \in Words, NEW rm
    PROVE  WordResult(SqrtSf(a, rm))
<1> DEFINE A == NormalizeSubnormalSf(a)
           e == A.e - BIAS
           m == (IF e % 2 = 1 THEN 2 * A.m ELSE A.m) * 2^(F_SIZE - 4 - MANT_SIZE)
           r == SqrtremU(m * 2^F_SIZE)
           root == NormalizeSf(0, (e \div 2) + BIAS, OrBit(r.s, r.inexact), rm)
<1>1. A.e \in Int /\ A.m \in Nat /\ A.m < 2 * MANTS /\ BIAS \in Int /\ F_SIZE \in Nat
  BY SubnormalTyped, Format
<1> DEFINE R == 2^(F_SIZE - 4 - MANT_SIZE)
<1>2. R \in Nat /\ R >= 1 /\ MANTS \in Nat /\ 2^F_SIZE \in Nat /\ 2^F_SIZE = 2 * TOP
      /\ TOP \in Nat /\ TOP = (8 * MANTS) * R
  <2>1. F_SIZE - 4 - MANT_SIZE \in Nat /\ RND_SIZE = ((F_SIZE - 4 - MANT_SIZE) + 1) + 1
        /\ (F_SIZE - 4 - MANT_SIZE) + 1 \in Nat
    BY DEF FormatSuits, F_SIZE, RND_SIZE, IMANT_SIZE
  <2>2. 2^(((F_SIZE - 4 - MANT_SIZE) + 1) + 1) = 2 * 2^((F_SIZE - 4 - MANT_SIZE) + 1)
        /\ 2^((F_SIZE - 4 - MANT_SIZE) + 1) = 2 * R
    BY <2>1, PowerStep, Zenon
  <2>3. 2^RND_SIZE = 2 * (2 * R) /\ R \in Nat /\ R >= 1
    BY <2>1, <2>2, PowerIsNat
  <2>4. TOP = (2 * MANTS) * (2 * (2 * R)) /\ MANTS \in Nat
    BY <2>3, Scale, Format
  <2> HIDE DEF R
  <2>5. (2 * MANTS) * (2 * (2 * R)) = (8 * MANTS) * R
    BY <2>3, <2>4
  <2> QED BY <2>3, <2>4, <2>5, Format
<1>3. SqrtSf(a, rm) =
    CASE IsNan(a) -> QuietOf({a})
      [] IsZero(a) \/ a = Inf(0) -> Res(a, {})
      [] Sign(a) = 1 /\ ~IsNan(a) /\ ~IsZero(a) -> Invalid
      [] OTHER -> root
  BY Zenon DEF SqrtSf
<1> HIDE DEF A, BIAS
<1>4. e \in Int
  BY <1>1
<1> HIDE DEF e
<1>5. m * 2^F_SIZE \in Nat /\ m * 2^F_SIZE < TOP * TOP /\ (e \div 2) + BIAS \in Int
  <2> DEFINE k == IF e % 2 = 1 THEN 2 * A.m ELSE A.m
  <2>1. k \in Nat /\ k < 4 * MANTS
    BY <1>1, <1>2
  <2> HIDE DEF k, R
  <2>2. k * R < (4 * MANTS) * R /\ 2 * ((4 * MANTS) * R) = (8 * MANTS) * R /\ k * R \in Nat
        /\ (4 * MANTS) * R \in Nat
    BY <1>2, <2>1
  <2>3. m = k * R
    BY DEF k, R
  <2> HIDE DEF m
  <2>4. m \in Nat /\ 2 * m < TOP
    BY <1>2, <2>2, <2>3
  <2>5. m * 2^F_SIZE \in Nat /\ m * 2^F_SIZE < TOP * TOP
    <3>1. m * (2 * TOP) = (2 * m) * TOP /\ (2 * m) * TOP < TOP * TOP /\ m * (2 * TOP) \in Nat
      BY <1>2, <2>4
    <3> QED BY <1>2, <3>1
  <2> QED BY <1>1, <1>4, <2>5
<1> HIDE DEF m
<1>6. r.s \in Int /\ r.s < TOP
  BY <1>5, SqrtremTyped
<1> HIDE DEF r
<1>7. OrBit(r.s, r.inexact) \in Int /\ OrBit(r.s, r.inexact) < TOP
  <2>1. PICK h \in Nat : TOP = 2 * h
    BY Doubles
  <2> QED BY <1>6, <2>1, OrBitTyped, OrBitBelow
<1>8. WordResult(root)
  BY <1>5, <1>7, NormalizeTyped
<1>9. WordResult(Res(a, {})) /\ WordResult(Invalid) /\ WordResult(QuietOf({a}))
  BY ConstantWords DEF WordResult, Res
<1> HIDE DEF root, WordResult
<1> QED BY <1>3, <1>8, <1>9

\* What a comparison returns, and a class.
LEMMA CompareTyped ==
    ASSUME FormatSuits, NEW a \in Words, NEW b \in Words
    PROVE  \A r \in {EqQuietSf(a, b), LeSf(a, b), LtSf(a, b)} :
               r.v \in {0, 1} /\ r.fl \subseteq Flags
<1>1. \A c : Bit(c) \in {0, 1}
  BY DEF Bit
<1>2. EqQuietSf(a, b).v \in {0, 1} /\ EqQuietSf(a, b).fl \subseteq Flags
  <2> HIDE DEF Bit
  <2> QED BY <1>1 DEF EqQuietSf, Res, QuietOf, Flags
<1>3. LeSf(a, b).v \in {0, 1} /\ LeSf(a, b).fl \subseteq Flags
  <2> HIDE DEF Bit
  <2> QED BY <1>1 DEF LeSf, Res, Flags
<1>4. LtSf(a, b).v \in {0, 1} /\ LtSf(a, b).fl \subseteq Flags
  <2> HIDE DEF Bit
  <2> QED BY <1>1 DEF LtSf, Res, Flags
<1> QED BY <1>2, <1>3, <1>4

\* min_sf and max_sf return an operand or a quiet NaN.
LEMMA MinMaxTyped ==
    ASSUME FormatSuits, NEW a \in Words, NEW b \in Words, NEW isMin
    PROVE  WordResult(MinMaxSf(a, b, isMin))
<1> DEFINE picked == IF SmallerFirst(a, b) = isMin THEN a ELSE b
           other == IF IsNan(b) THEN F_QNAN ELSE b
<1>1. picked \in Words /\ other \in Words
  BY ConstantWords
<1>2. MinMaxSf(a, b, isMin) =
          CASE IsSigNan(a) \/ IsSigNan(b) -> Invalid
            [] IsNan(a) /\ ~IsSigNan(a) /\ ~IsSigNan(b) -> Res(other, {})
            [] IsNan(b) /\ ~IsNan(a) /\ ~IsSigNan(b) -> Res(a, {})
            [] OTHER -> Res(picked, {})
  BY Zenon DEF MinMaxSf
<1> HIDE DEF picked, other
<1>3. MinMaxSf(a, b, isMin) \in {Invalid, Res(other, {}), Res(a, {}), Res(picked, {})}
  <2>1. IsSigNan(a) => IsNan(a)
    BY DEF IsSigNan
  <2> QED BY <1>2, <2>1
<1> QED BY <1>1, <1>3, ConstantWords DEF WordResult, Res

\* The number a word that is no NaN stands for, among the others.
Ordinal(a) == IF Sign(a) = 1 THEN -Magnitude(a) ELSE Magnitude(a)

\* Words of one sign are ordered as their magnitudes, or the other way around.
LEMMA WordOrder ==
    ASSUME FormatSuits, NEW a \in Words, NEW b \in Words
    PROVE  /\ a \in Nat /\ b \in Nat /\ Sign(a) \in {0, 1} /\ Sign(b) \in {0, 1}
           /\ Magnitude(a) \in Nat /\ Magnitude(b) \in Nat
           /\ Sign(a) = Sign(b) => /\ a <= b <=> Magnitude(a) <= Magnitude(b)
                                   /\ a = b <=> Magnitude(a) = Magnitude(b)
<1> DEFINE p == Magnitude(a)
           q == Magnitude(b)
           s == Sign(a)
           t == Sign(b)
<1>1. TOP \in Nat /\ 0 \in Int
  BY Format
<1>2. s \in {0, 1} /\ t \in {0, 1} /\ p \in 0..(TOP - 1) /\ q \in 0..(TOP - 1)
      /\ a = s * TOP + p /\ b = t * TOP + q
  BY Fields
<1> HIDE DEF p, q, s, t, TOP
<1>3. p \in Nat /\ q \in Nat
  BY <1>1, <1>2
<1>4. CASE s = 0 /\ t = 0
  BY <1>1, <1>2, <1>3, <1>4 DEF p, q, s, t
<1>5. CASE s = 1 /\ t = 1
  <2>1. a = TOP + p /\ b = TOP + q
    BY <1>1, <1>2, <1>5
  <2>2. a \in Nat /\ b \in Nat /\ (a <= b <=> p <= q) /\ (a = b <=> p = q)
    BY <1>1, <1>3, <2>1
  <2> QED BY <1>3, <1>5, <2>2 DEF p, q, s, t
<1>6. CASE s # t
  <2>1. a \in Nat /\ b \in Nat
    BY <1>1, <1>2, <1>3
  <2> QED BY <1>2, <1>3, <1>6, <2>1 DEF p, q, s, t
<1> QED BY <1>2, <1>4, <1>5, <1>6

\* le_sf, lt_sf and eq_quiet_sf compare the numbers; a NaN is not ordered, and a
\* comparison with one is invalid unless it is quiet.
LEMMA CompareExact ==
    ASSUME FormatSuits, NEW a \in Words, NEW b \in Words
    PROVE  /\ IsNan(a) \/ IsNan(b) =>
                  /\ LeSf(a, b) = Res(0, {"NV"}) /\ LtSf(a, b) = Res(0, {"NV"})
                  /\ EqQuietSf(a, b) = Res(0, IF IsSigNan(a) \/ IsSigNan(b) THEN {"NV"} ELSE {})
           /\ ~(IsNan(a) \/ IsNan(b)) =>
                  /\ LeSf(a, b) = Res(Bit(Ordinal(a) <= Ordinal(b)), {})
                  /\ LtSf(a, b) = Res(Bit(Ordinal(a) < Ordinal(b)), {})
                  /\ EqQuietSf(a, b) = Res(Bit(Ordinal(a) = Ordinal(b)), {})
<1>1. ASSUME IsNan(a) \/ IsNan(b)
      PROVE  /\ LeSf(a, b) = Res(0, {"NV"}) /\ LtSf(a, b) = Res(0, {"NV"})
             /\ EqQuietSf(a, b) = Res(0, IF IsSigNan(a) \/ IsSigNan(b) THEN {"NV"} ELSE {})
  <2>1. QuietOf({a, b}).fl = IF IsSigNan(a) \/ IsSigNan(b) THEN {"NV"} ELSE {}
    BY DEF QuietOf, Res
  <2> QED BY <1>1, <2>1, Zenon DEF LeSf, LtSf, EqQuietSf
<1>2. ASSUME ~(IsNan(a) \/ IsNan(b))
      PROVE  /\ LeSf(a, b) = Res(Bit(Ordinal(a) <= Ordinal(b)), {})
             /\ LtSf(a, b) = Res(Bit(Ordinal(a) < Ordinal(b)), {})
             /\ EqQuietSf(a, b) = Res(Bit(Ordinal(a) = Ordinal(b)), {})
  <2> DEFINE p == Magnitude(a)
             q == Magnitude(b)
  <2> HIDE DEF p, q
  <2>1. /\ a \in Nat /\ b \in Nat /\ Sign(a) \in {0, 1} /\ Sign(b) \in {0, 1}
        /\ p \in Nat /\ q \in Nat
        /\ Sign(a) = Sign(b) => (a <= b <=> p <= q) /\ (a = b <=> p = q)
    BY WordOrder, Zenon DEF p, q
  <2>2. Ordinal(a) = (IF Sign(a) = 1 THEN -p ELSE p) /\ Ordinal(b) = IF Sign(b) = 1 THEN -q ELSE q
    BY DEF Ordinal, p, q
  <2>3. (IsZero(a) <=> p = 0) /\ (IsZero(b) <=> q = 0)
    BY DEF IsZero, p, q
  <2>4. CASE Sign(a) # Sign(b)
    <3>1. LeSf(a, b) = Res(Bit(Sign(a) = 1 \/ (IsZero(a) /\ IsZero(b))), {})
      BY <1>2, <2>4, Zenon DEF LeSf
    <3>2. LtSf(a, b) = Res(Bit(Sign(a) = 1 /\ ~(IsZero(a) /\ IsZero(b))), {})
      BY <1>2, <2>4, Zenon DEF LtSf
    <3>3. EqQuietSf(a, b) = Res(Bit(IsZero(a) /\ IsZero(b)), {})
      <4>1. a # b
        BY <2>4
      <4> QED BY <1>2, <4>1 DEF EqQuietSf, Bit
    <3>4. /\ Sign(a) = 1 \/ (IsZero(a) /\ IsZero(b)) <=> Ordinal(a) <= Ordinal(b)
          /\ Sign(a) = 1 /\ ~(IsZero(a) /\ IsZero(b)) <=> Ordinal(a) < Ordinal(b)
          /\ IsZero(a) /\ IsZero(b) <=> Ordinal(a) = Ordinal(b)
      BY <2>1, <2>2, <2>3, <2>4
    <3> QED BY <3>1, <3>2, <3>3, <3>4 DEF Bit
  <2>5. CASE Sign(a) = 1 /\ Sign(b) = 1
    <3>1. LeSf(a, b) = Res(Bit(a >= b), {})
      BY <1>2, <2>5, Zenon DEF LeSf
    <3>2. LtSf(a, b) = Res(Bit(a > b), {})
      BY <1>2, <2>5, Zenon DEF LtSf
    <3>3. EqQuietSf(a, b) = Res(Bit((IsZero(a) /\ IsZero(b)) \/ a = b), {})
      BY <1>2, Zenon DEF EqQuietSf
    <3>4. /\ a >= b <=> Ordinal(a) <= Ordinal(b)
          /\ a > b <=> Ordinal(a) < Ordinal(b)
          /\ (IsZero(a) /\ IsZero(b)) \/ a = b <=> Ordinal(a) = Ordinal(b)
      BY <2>1, <2>2, <2>3, <2>5
    <3> QED BY <3>1, <3>2, <3>3, <3>4 DEF Bit
  <2>6. CASE Sign(a) = 0 /\ Sign(b) = 0
    <3>0. Sign(a) = Sign(b) /\ Sign(a) # 1
      BY <2>6
    <3>1. LeSf(a, b) = Res(Bit(a <= b), {})
      BY <1>2, <3>0, Zenon DEF LeSf
    <3>2. LtSf(a, b) = Res(Bit(a < b), {})
      BY <1>2, <3>0, Zenon DEF LtSf
    <3>3. EqQuietSf(a, b) = Res(Bit((IsZero(a) /\ IsZero(b)) \/ a = b), {})
      BY <1>2, Zenon DEF EqQuietSf
    <3>4. /\ a <= b <=> Ordinal(a) <= Ordinal(b)
          /\ a < b <=> Ordinal(a) < Ordinal(b)
          /\ (IsZero(a) /\ IsZero(b)) \/ a = b <=> Ordinal(a) = Ordinal(b)
      BY <2>1, <2>2, <2>3, <2>6
    <3> QED BY <3>1, <3>2, <3>3, <3>4 DEF Bit
  <2> QED BY <2>1, <2>4, <2>5, <2>6
<1> QED BY <1>1, <1>2

\* The numbers in order, and the zeros by their signs.
ZerosBySign(a, b) == IsZero(a) /\ IsZero(b) /\ Sign(a) = 1 /\ Sign(b) = 0
Precedes(a, b) == Ordinal(a) < Ordinal(b) \/ ZerosBySign(a, b)

\* What min_sf and max_sf prefer does not come after the other.
LEMMA SmallerFirstExact ==
    ASSUME FormatSuits, NEW a \in Words, NEW b \in Words
    PROVE  /\ SmallerFirst(a, b) \in BOOLEAN
           /\ SmallerFirst(a, b) => ~Precedes(b, a)
           /\ ~SmallerFirst(a, b) => ~Precedes(a, b)
           /\ ~Precedes(a, a)
<1> DEFINE p == Magnitude(a)
           q == Magnitude(b)
<1> HIDE DEF p, q
<1>1. /\ a \in Nat /\ b \in Nat /\ Sign(a) \in {0, 1} /\ Sign(b) \in {0, 1}
      /\ p \in Nat /\ q \in Nat
      /\ Sign(a) = Sign(b) => (a <= b <=> p <= q) /\ (a = b <=> p = q)
  BY WordOrder, Zenon DEF p, q
<1>2. Ordinal(a) = (IF Sign(a) = 1 THEN -p ELSE p) /\ Ordinal(b) = IF Sign(b) = 1 THEN -q ELSE q
  BY DEF Ordinal, p, q
<1>3. (IsZero(a) <=> p = 0) /\ (IsZero(b) <=> q = 0)
  BY DEF IsZero, p, q
<1>4. /\ Sign(a) # Sign(b) => (SmallerFirst(a, b) <=> Sign(a) = 1)
      /\ Sign(a) = 1 /\ Sign(b) = 1 => (SmallerFirst(a, b) <=> ~(a < b))
      /\ Sign(a) = 0 /\ Sign(b) = 0 => (SmallerFirst(a, b) <=> a < b)
  BY DEF SmallerFirst
<1>5. SmallerFirst(a, b) \in BOOLEAN
  BY DEF SmallerFirst
<1>6. ~Precedes(a, a)
  BY <1>1, <1>2 DEF Precedes, ZerosBySign
<1>7. Precedes(a, b) <=> Ordinal(a) < Ordinal(b) \/ (p = 0 /\ q = 0 /\ Sign(a) = 1 /\ Sign(b) = 0)
  BY <1>3 DEF Precedes, ZerosBySign
<1>8. Precedes(b, a) <=> Ordinal(b) < Ordinal(a) \/ (p = 0 /\ q = 0 /\ Sign(b) = 1 /\ Sign(a) = 0)
  BY <1>3 DEF Precedes, ZerosBySign
<1>9. CASE Sign(a) # Sign(b)
  <2>1. SmallerFirst(a, b) <=> Sign(a) = 1
    BY <1>4, <1>9
  <2> QED BY <1>1, <1>2, <1>5, <1>6, <1>7, <1>8, <1>9, <2>1
<1>10. CASE Sign(a) = 1 /\ Sign(b) = 1
  <2>1. SmallerFirst(a, b) <=> ~(a < b)
    BY <1>4, <1>10
  <2> QED BY <1>1, <1>2, <1>5, <1>6, <1>7, <1>8, <1>10, <2>1
<1>11. CASE Sign(a) = 0 /\ Sign(b) = 0
  <2>1. SmallerFirst(a, b) <=> a < b
    BY <1>4, <1>11
  <2> QED BY <1>1, <1>2, <1>5, <1>6, <1>7, <1>8, <1>11, <2>1
<1> QED BY <1>1, <1>9, <1>10, <1>11

\* fclass_sf returns the number of a bit.
LEMMA ClassTyped ==
    ASSUME NEW a
    PROVE  FclassSf(a) \in 0..9
  BY DEF FclassSf

\* Conversions return integers of ICVT_SIZE bits.
LEMMA ToIntegerTyped ==
    ASSUME FormatSuits, NEW a \in Words, NEW rm, NEW unsigned \in BOOLEAN
    PROVE  CvtSfI(a, rm, unsigned).v \in 0..(2^ICVT_SIZE - 1)
           /\ CvtSfI(a, rm, unsigned).fl \subseteq Flags
<1> DEFINE s == IF IsNan(a) THEN 0 ELSE Sign(a)
           A == Significand(a)
           e == A.e - BIAS - MANT_SIZE
           max == IF unsigned THEN (IF s = 1 THEN 0 ELSE 2^ICVT_SIZE - 1)
                           ELSE 2^(ICVT_SIZE - 1) - (1 - s)
           m == RShiftRnd(A.m * 2^RND_SIZE, IF e < 0 THEN -e ELSE 0)
           r == IF e >= 0 THEN A.m * 2^e ELSE Rounded(m, s, rm)
           overflow == (e >= 0 /\ e > ICVT_SIZE - 1 - MANT_SIZE) \/ r > max
<1>1. s \in {0, 1} /\ A.e \in Int /\ A.m \in Nat /\ BIAS \in Int /\ MANT_SIZE \in Int
  BY SignsTyped, SignificandTyped, Format DEF FormatSuits
<1>2. e \in Int
  <2> HIDE DEF BIAS
  <2> QED BY <1>1
<1>3. CvtSfI(a, rm, unsigned) =
         IF overflow THEN Res(max, {"NV"})
         ELSE Res(IF s = 1 THEN (-r) % 2^ICVT_SIZE ELSE r,
                  IF e < 0 /\ m % 2^RND_SIZE # 0 THEN {"NX"} ELSE {})
  BY DEF CvtSfI
<1> DEFINE W == 2^ICVT_SIZE
           half == 2^(ICVT_SIZE - 1)
<1>4. W \in Nat \ {0} /\ half \in Nat \ {0} /\ W = 2 * half /\ 2^RND_SIZE \in Nat \ {0}
  <2>1. ICVT_SIZE - 1 \in Nat /\ ICVT_SIZE = (ICVT_SIZE - 1) + 1 /\ ICVT_SIZE \in Nat
        /\ RND_SIZE \in Nat
    BY Format DEF FormatSuits
  <2>2. 2^((ICVT_SIZE - 1) + 1) = 2 * 2^(ICVT_SIZE - 1)
    BY <2>1, PowerStep, Zenon
  <2>3. W = 2 * half
    BY <2>1, <2>2, Zenon
  <2> QED BY <2>1, <2>3, PowerIsNat
<1> HIDE DEF A, e, s
<1>5. max \in 0..(W - 1)
  <2> HIDE DEF W, half
  <2>1. max = IF unsigned THEN (IF s = 1 THEN 0 ELSE W - 1) ELSE half - (1 - s)
    BY DEF W, half
  <2> HIDE DEF max
  <2> QED BY <1>1, <1>4, <2>1
<1>6. m \in Nat
  <2> DEFINE k == A.m * 2^RND_SIZE
             d == IF e < 0 THEN -e ELSE 0
  <2>1. k \in Nat /\ d \in Nat
    BY <1>1, <1>2, <1>4
  <2> HIDE DEF k, d
  <2>2. 2^d \in Nat \ {0}
    BY <2>1, PowerIsNat
  <2>3. k \div 2^d \in Nat
    BY <2>1, <2>2, DivNat, Zenon
  <2>4. OrBit(k \div 2^d, k % 2^d # 0) \in Nat
    <3> DEFINE x == k \div 2^d
               c == k % 2^d # 0
    <3>1. x \in Nat
      BY <2>3
    <3> HIDE DEF x, c
    <3>2. OrBit(x, c) \in Nat
      BY <3>1 DEF OrBit
    <3> QED BY <3>2 DEF x, c
  <2> HIDE DEF OrBit
  <2>5. RShiftRnd(k, d) \in Nat
    BY <2>4 DEF RShiftRnd, Bit
  <2> QED BY <2>5 DEF k, d
<1> HIDE DEF m
<1>7. r \in Nat
  <2>1. e >= 0 => A.m * 2^e \in Nat
    <3> SUFFICES ASSUME e >= 0 PROVE A.m * 2^e \in Nat
      OBVIOUS
    <3>1. 2^e \in Nat
      BY <1>2, PowerIsNat
    <3> QED BY <1>1, <3>1
  <2>2. Rounded(m, s, rm) \in Nat
    <3> DEFINE q == (m + Addend(s, rm)) \div 2^RND_SIZE
    <3>1. Addend(s, rm) \in Nat
      <4>1. 2^RND_SIZE - 1 \in Nat /\ 2^(RND_SIZE - 1) \in Nat
        BY <1>4, Format, PowerIsNat
      <4> QED BY <4>1 DEF Addend
    <3>2. m + Addend(s, rm) \in Nat
      BY <1>6, <3>1
    <3>3. q \in Nat
      BY <1>4, <3>2, DivNat, Zenon
    <3> HIDE DEF q
    <3>4. q - (q % 2) \in Nat
      BY <3>3
    <3>5. Rounded(m, s, rm) \in {q, q - (q % 2)}
      BY DEF Rounded, q
    <3> QED BY <3>3, <3>4, <3>5
  <2> QED BY <2>1, <2>2
<1> HIDE DEF r
<1>8. ~overflow => (-r) % W \in 0..(W - 1) /\ r \in 0..(W - 1)
  <2>1. -r \in Int
    BY <1>7
  <2>2. (-r) % W \in 0..(W - 1)
    BY <1>4, <2>1, DivMod, Zenon
  <2> HIDE DEF W, max
  <2> QED BY <1>4, <1>5, <1>7, <2>2
<1> HIDE DEF max, overflow
<1>9. CASE overflow
  BY <1>3, <1>5, <1>9 DEF Res, Flags
<1>10. CASE ~overflow
  <2> DEFINE v == IF s = 1 THEN (-r) % W ELSE r
             fl == IF e < 0 /\ m % 2^RND_SIZE # 0 THEN {"NX"} ELSE {}
  <2>1. v \in 0..(W - 1) /\ fl \subseteq Flags
    BY <1>8, <1>10 DEF Flags
  <2>2. CvtSfI(a, rm, unsigned) = Res(v, fl)
    BY <1>3, <1>10
  <2> HIDE DEF v, fl
  <2> QED BY <2>1, <2>2 DEF Res
<1> QED BY <1>9, <1>10

\* An integer of any size is shifted to where normalize_sf can take it.
LEMMA FromIntegerTyped ==
    ASSUME FormatSuits, NEW x \in 0..(2^ICVT_SIZE - 1), NEW rm, NEW unsigned
    PROVE  WordResult(CvtISf(x, rm, unsigned))
<1> DEFINE s == Bit(~unsigned /\ x >= 2^(ICVT_SIZE - 1))
           r == IF s = 1 THEN 2^ICVT_SIZE - x ELSE x
           l == ICVT_SIZE - Clz(r, ICVT_SIZE) - (F_SIZE - 1)
           m == IF l > 0 THEN OrBit(r \div 2^l, r % 2^l # 0) ELSE r
           e == BIAS + F_SIZE - 2 + (IF l > 0 THEN l ELSE 0)
<1>1. CvtISf(x, rm, unsigned) = NormalizeSf(s, e, m, rm)
  BY DEF CvtISf
<1>2. s \in {0, 1}
  BY DEF Bit
<1>3. ICVT_SIZE \in Nat /\ F_SIZE \in Nat /\ F_SIZE >= 8 /\ BIAS \in Nat /\ 2^ICVT_SIZE \in Nat
      /\ 2^(ICVT_SIZE - 1) \in Nat \ {0}
  <2>1. ICVT_SIZE - 1 \in Nat
    BY DEF FormatSuits
  <2> QED BY <2>1, Format, PowerIsNat DEF FormatSuits
<1>4. r \in Nat /\ r < 2^ICVT_SIZE
  <2> DEFINE W == 2^ICVT_SIZE
             half == 2^(ICVT_SIZE - 1)
  <2>1. W \in Nat /\ half \in Nat \ {0} /\ x \in 0..(W - 1) /\ (s = 1 => x >= half)
        /\ r = IF s = 1 THEN W - x ELSE x
    BY <1>3 DEF Bit
  <2> HIDE DEF W, half, r, s
  <2>2. r \in Nat /\ r < W
    BY <2>1
  <2> QED BY <2>2 DEF W
<1> HIDE DEF s, BIAS, r
<1> DEFINE z == Clz(r, ICVT_SIZE)
<1>5. z \in 0..ICVT_SIZE /\ r < 2^(ICVT_SIZE - z) /\ l = ICVT_SIZE - z - (F_SIZE - 1)
  <2>1. z \in 0..ICVT_SIZE /\ r < 2^(ICVT_SIZE - z)
    BY <1>3, <1>4, ClzExact, Zenon
  <2> QED BY <2>1
<1> HIDE DEF z, l
<1>6. m \in Int /\ m < TOP
  <2>1. CASE l > 0
    <3> DEFINE D == 2^l
               q == r \div D
               c == r % D # 0
    <3>1. D \in Nat \ {0} /\ ICVT_SIZE - z = l + (F_SIZE - 1) /\ l \in Nat /\ F_SIZE - 1 \in Nat
      BY <1>3, <1>5, <2>1, PowerIsNat
    <3>2. 2^(l + (F_SIZE - 1)) = D * TOP
      BY <3>1, PowerAdd, Zenon DEF TOP
    <3>3. r < D * TOP
      BY <1>5, <3>1, <3>2
    <3>4. PICK h \in Nat : TOP = 2 * h
      BY Doubles
    <3> HIDE DEF D
    <3>5. q \in Nat /\ q < 2 * h
      <4>1. r \in Int /\ 2 * h \in Int /\ r < D * (2 * h)
        BY <1>4, <3>3, <3>4
      <4>2. q < 2 * h
        BY <3>1, <4>1, DivBelow, Zenon
      <4> QED BY <1>4, <3>1, <4>2, DivNat
    <3>6. m = OrBit(q, c)
      BY <2>1 DEF D
    <3> HIDE DEF q, c, m
    <3>7. OrBit(q, c) \in Int /\ OrBit(q, c) < 2 * h
      BY <3>5, OrBitTyped, OrBitBelow
    <3> QED BY <3>4, <3>6, <3>7
  <2>2. CASE ~(l > 0)
    <3>1. ICVT_SIZE - z \in Nat /\ F_SIZE - 1 \in Nat /\ ICVT_SIZE - z <= F_SIZE - 1
      BY <1>3, <1>5, <2>2
    <3>2. 2^(ICVT_SIZE - z) <= TOP /\ 2^(ICVT_SIZE - z) \in Nat /\ TOP \in Nat
      BY <3>1, PowerGrows, PowerIsNat, Format DEF TOP
    <3> QED BY <1>4, <1>5, <2>2, <3>2
  <2> QED BY <2>1, <2>2
<1>7. e \in Int
  BY <1>3, <1>5
<1> HIDE DEF m, e
<1> QED BY <1>1, <1>2, <1>6, <1>7, NormalizeTyped
=============================================================================
