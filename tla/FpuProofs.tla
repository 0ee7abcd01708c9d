----------------------------- MODULE FpuProofs -----------------------------
(***************************************************************************)
(* Proofs about Fpu, for formats of every size: the registers, the flags   *)
(* and the rounding mode keep their types, so no assertion of the          *)
(* normalisations fails; comparisons keep the order of the values; and a   *)
(* context saved while FS is clean stays what the registers hold.          *)
(***************************************************************************)
EXTENDS Fpu, TLAPS

-----------------------------------------------------------------------------
(* The two formats.                                                        *)

\* The sizes, and that a single has room in the registers.
LEMMA Sizes ==
    /\ S!FormatSuits /\ D!FormatSuits
    /\ S!F_SIZE \in Nat /\ D!F_SIZE \in Nat /\ S!F_SIZE >= 8 /\ D!F_SIZE >= S!F_SIZE
    /\ XSIZE = S!F_SIZE
    /\ SEXP \in Nat /\ SMANT \in Nat /\ DEXP \in Nat /\ DMANT \in Nat
    /\ SEXP >= 5 /\ SMANT >= 2 /\ DEXP >= SEXP + 1 /\ DMANT >= SEXP + SMANT - 1
    /\ S!F_SIZE = SEXP + SMANT + 1 /\ D!F_SIZE = DEXP + DMANT + 1
<1>1. S!FormatSuits /\ D!FormatSuits
  BY FormatAssumption
<1>2. SEXP \in Nat /\ SMANT \in Nat /\ DEXP \in Nat /\ DMANT \in Nat /\ SEXP >= 5 /\ SMANT >= 2
  BY <1>1 DEF S!FormatSuits, D!FormatSuits
<1>3. S!F_SIZE = SEXP + SMANT + 1 /\ D!F_SIZE = DEXP + DMANT + 1
  BY DEF S!F_SIZE, D!F_SIZE
<1> QED BY <1>1, <1>2, <1>3, WidthAssumption

\* The registers hold every single, with all bits above it set.
LEMMA Boxes ==
    /\ 2^S!F_SIZE \in Nat /\ 2^D!F_SIZE \in Nat /\ 2^S!F_SIZE <= 2^D!F_SIZE
    /\ 2^S!F_SIZE >= 256 /\ 2^XSIZE = 2^S!F_SIZE
    /\ S!Words = 0..(2^S!F_SIZE - 1) /\ D!Words = 0..(2^D!F_SIZE - 1)
    /\ \A v \in S!Words : High("S") + v \in D!Words
    /\ \A v \in D!Words : High("D") + v \in D!Words
<1>1. 2^S!F_SIZE \in Nat /\ 2^D!F_SIZE \in Nat /\ 2^S!F_SIZE <= 2^D!F_SIZE
  BY Sizes, S!PowerIsNat, S!PowerGrows
<1>2. 2^S!F_SIZE >= 256
  <2>1. 2^8 <= 2^S!F_SIZE
    BY Sizes, S!PowerGrows
  <2>2. 2^8 = 256
    OBVIOUS
  <2> QED BY <1>1, <2>1, <2>2
<1>3. 2^XSIZE = 2^S!F_SIZE
  BY Sizes
<1>4. S!Words = 0..(2^S!F_SIZE - 1) /\ D!Words = 0..(2^D!F_SIZE - 1)
  BY DEF S!Words, D!Words
<1> QED BY <1>1, <1>2, <1>3, <1>4 DEF High

Words(fmt) == IF fmt = "S" THEN S!Words ELSE D!Words

\* A word of either format, and the five flags.
Returned(fmt, r) == r.v \in Words(fmt) /\ r.fl \subseteq S!Flags

\* The flags of both formats.
LEMMA FlagsAgree ==
    /\ S!Flags = {"NV", "DZ", "OF", "UF", "NX"} /\ D!Flags = S!Flags
    /\ \A r : S!WordResult(r) <=> Returned("S", r)
    /\ \A r : D!WordResult(r) <=> Returned("D", r)
<1>1. S!Flags = {"NV", "DZ", "OF", "UF", "NX"} /\ D!Flags = S!Flags
  BY DEF S!Flags, D!Flags
<1>2. \A r : S!WordResult(r) <=> Returned("S", r)
  BY DEF S!WordResult, Returned, Words
<1>3. \A r : D!WordResult(r) <=> Returned("D", r)
  BY <1>1 DEF D!WordResult, Returned, Words
<1> QED BY <1>1, <1>2, <1>3

\* A register as an operand.
LEMMA ArgTyped ==
    ASSUME TypeOK, NEW fmt \in Formats, NEW r \in FRegs
    PROVE  Arg(fmt, r) \in Words(fmt)
<1> DEFINE a == fp_reg[r]
           n == 2^Size(fmt)
<1>1. a \in Int
  <2>1. a \in 0..(2^D!F_SIZE - 1)
    BY DEF TypeOK
  <2> QED BY <2>1, Boxes
<1>2. n \in Nat \ {0} /\ Words(fmt) = 0..(n - 1)
  BY Boxes DEF Size, Words, Formats
<1> HIDE DEF a, n
<1>3. a % n \in 0..(n - 1)
  BY <1>1, <1>2, S!DivMod, Zenon
<1>4. Arg(fmt, r) = a % n
  BY DEF Arg, a, n
<1> QED BY <1>2, <1>3, <1>4

-----------------------------------------------------------------------------
(* What the instructions compute.                                          *)

\* The two formats' exponents: every single's fits a double's.
LEMMA ExponentsFit ==
    /\ S!BIAS \in Nat /\ D!BIAS \in Nat /\ D!BIAS >= 2 * S!BIAS + 1
    /\ S!EXP_MASK = 2 * S!BIAS + 1 /\ D!EXP_MASK = 2 * D!BIAS + 1
    /\ S!BIAS >= SMANT
<1>1. /\ S!EXPS \in Nat /\ S!EXP_MASK = S!EXPS - 1 /\ S!BIAS \in Nat /\ S!EXPS = 2 * S!BIAS + 2
  BY Sizes, S!Format
<1>2. /\ D!EXPS \in Nat /\ D!EXP_MASK = D!EXPS - 1 /\ D!BIAS \in Nat /\ D!EXPS = 2 * D!BIAS + 2
  BY Sizes, D!Format
<1>3. 2 * S!EXPS <= D!EXPS
  <2>1. S!EXPS = 2^SEXP /\ D!EXPS = 2^DEXP
    BY DEF S!EXPS, D!EXPS
  <2> QED BY <2>1, Sizes, S!PowerGrows
<1>4. S!EXP_MASK - S!BIAS - SMANT > XSIZE - 1 - SMANT
  BY Sizes DEF S!FormatSuits
<1> HIDE DEF S!EXP_MASK
<1> QED BY <1>1, <1>2, <1>3, <1>4, Sizes

\* cvt_sf32_sf64 returns a double.
LEMMA CvtSDTyped ==
    ASSUME NEW a \in S!Words
    PROVE  Returned("D", CvtSD(a))
<1> DEFINE A == S!NormalizeSubnormalSf(a)
           s == S!Sign(a)
           e == A.e - S!BIAS + D!BIAS
           m == A.m * 2^(DMANT - SMANT)
<1>1. A.e \in Int /\ A.e <= S!EXP_MASK /\ A.m \in Nat /\ (~S!IsZero(a) => A.e >= 1 - SMANT)
  BY Sizes, S!SubnormalTyped
<1>2. s \in {0, 1}
  BY Sizes, S!SignsTyped
<1>3. ~S!IsZero(a) => e \in 0..D!EXP_MASK
  BY <1>1, ExponentsFit, Sizes
<1>4. m \in Int
  <2>1. DMANT - SMANT \in Nat
    BY Sizes
  <2>2. 2^(DMANT - SMANT) \in Nat
    BY <2>1, S!PowerIsNat
  <2> QED BY <1>1, <2>2
<1>5. CvtSD(a) =
        CASE S!IsNan(a) -> D!Res(D!F_QNAN, S!QuietOf({a}).fl)
          [] S!IsInf(a) -> D!Res(D!Inf(s), {})
          [] S!IsZero(a) -> D!Res(D!PackSf(s, 0, 0), {})
          [] OTHER -> D!Res(D!PackSf(s, e, m), {})
  BY Zenon DEF CvtSD
<1> HIDE DEF A, s, e, m
<1>6. D!F_QNAN \in D!Words /\ D!Inf(s) \in D!Words /\ D!PackSf(s, 0, 0) \in D!Words
  <2>1. 0 \in 0..D!EXP_MASK /\ 0 \in Int
    BY ExponentsFit
  <2> QED BY <1>2, <2>1, Sizes, D!ConstantWords
<1>7. ~S!IsZero(a) => D!PackSf(s, e, m) \in D!Words
  BY <1>2, <1>3, <1>4, Sizes, D!PackTyped
<1>8. S!QuietOf({a}).fl \subseteq S!Flags
  BY Sizes, S!ConstantWords DEF S!WordResult
<1>9. ~(S!IsNan(a) /\ S!IsInf(a))
  BY DEF S!IsNan, S!IsInf
<1>10. /\ Returned("D", D!Res(D!F_QNAN, S!QuietOf({a}).fl)) /\ Returned("D", D!Res(D!Inf(s), {}))
       /\ Returned("D", D!Res(D!PackSf(s, 0, 0), {}))
       /\ ~S!IsZero(a) => Returned("D", D!Res(D!PackSf(s, e, m), {}))
  BY <1>6, <1>7, <1>8 DEF Returned, Words, D!Res
<1> HIDE DEF Returned
<1> QED BY <1>5, <1>9, <1>10

\* cvt_sf64_sf32 returns a single: what is left of the mantissa leaves the top bit free.
LEMMA CvtDSTyped ==
    ASSUME NEW a \in D!Words, NEW rm
    PROVE  Returned("S", CvtDS(a, rm))
<1> DEFINE s == D!Sign(a)
           e == D!NormalizeSubnormalSf(a).e - D!BIAS + S!BIAS
           m == D!RShiftRnd(D!Significand(a).m, DMANT - (S!F_SIZE - 2))
<1>1. s \in {0, 1}
  BY Sizes, D!SignsTyped
<1>2. e \in Int
  BY Sizes, D!SubnormalTyped, ExponentsFit
<1>3. m \in Int /\ m < S!TOP
  <2> DEFINE k == S!F_SIZE - 1
             d == DMANT - (S!F_SIZE - 2)
             w == D!Significand(a).m
  <2>1. k \in Nat \ {0} /\ d \in Nat /\ k + d = DMANT + 1
    BY Sizes
  <2>2. w \in Nat /\ w < 2 * D!MANTS
    BY Sizes, D!SignificandTyped
  <2>3. 2 * D!MANTS = 2^(DMANT + 1)
    BY Sizes, S!PowerStep DEF D!MANTS
  <2> HIDE DEF k, d, w
  <2>4. w < 2^(k + d)
    BY <2>1, <2>2, <2>3
  <2>5. D!RShiftRnd(w, d) \in Nat /\ D!RShiftRnd(w, d) < 2^k
    BY <2>1, <2>2, <2>4, Sizes, D!RShiftBelow
  <2> QED BY <2>5 DEF k, d, w, S!TOP
<1>4. CvtDS(a, rm) =
        CASE D!IsNan(a) -> S!Res(S!F_QNAN, D!QuietOf({a}).fl)
          [] D!IsInf(a) -> S!Res(S!Inf(s), {})
          [] D!IsZero(a) -> S!Res(S!PackSf(s, 0, 0), {})
          [] OTHER -> S!NormalizeSf(s, e, m, rm)
  BY Zenon DEF CvtDS
<1> HIDE DEF s, e, m
<1>5. S!F_QNAN \in S!Words /\ S!Inf(s) \in S!Words /\ S!PackSf(s, 0, 0) \in S!Words
  <2>1. 0 \in 0..S!EXP_MASK /\ 0 \in Int
    BY ExponentsFit
  <2> QED BY <1>1, <2>1, Sizes, S!ConstantWords
<1>6. D!QuietOf({a}).fl \subseteq S!Flags
  BY Sizes, FlagsAgree, D!ConstantWords DEF D!WordResult
<1>7. Returned("S", S!NormalizeSf(s, e, m, rm))
  BY <1>1, <1>2, <1>3, Sizes, FlagsAgree, S!NormalizeTyped
<1>8. /\ Returned("S", S!Res(S!F_QNAN, D!QuietOf({a}).fl)) /\ Returned("S", S!Res(S!Inf(s), {}))
      /\ Returned("S", S!Res(S!PackSf(s, 0, 0), {}))
  BY <1>5, <1>6 DEF Returned, Words, S!Res
<1> HIDE DEF Returned
<1>9. ~(D!IsNan(a) /\ D!IsInf(a))
  BY DEF D!IsNan, D!IsInf
<1> QED BY <1>4, <1>7, <1>8, <1>9

\* The exclusive or has no more bits than its operands may have.
LEMMA XorTyped ==
    ASSUME NEW a, NEW b, NEW n \in Nat
    PROVE  Xor(a, b, n) \in 0..(2^n - 1)
<1> DEFINE bit(k) == IF (a \div 2^k) % 2 # (b \div 2^k) % 2 THEN 2^k ELSE 0
           low[k \in 0..n] == IF k = 0 THEN 0 ELSE low[k - 1] + bit(k - 1)
<1>1. Xor(a, b, n) = low[n]
  BY DEF Xor
<1>2. ASSUME NEW k \in Nat PROVE bit(k) \in 0..(2^k) /\ bit(k) \in Int
  <2>1. 2^k \in Nat
    BY S!PowerIsNat
  <2> QED BY <2>1
<1> HIDE DEF bit
<1>3. low = [k \in 0..n |-> IF k = 0 THEN 0 ELSE low[k - 1] + bit(k - 1)]
  <2> DEFINE step == [k \in 1..n |-> [v \in Int |-> v + bit(k - 1)]]
  <2>1. S!Steps(step, n, Int)
    BY <1>2 DEF S!Steps
  <2>2. \A k \in 1..n, v \in Int : step[k][v] = v + bit(k - 1)
    OBVIOUS
  <2> HIDE DEF step
  <2>3. PICK f : S!Iterates(f, step, n, Int, 0)
    <3>1. 0 \in Int
      OBVIOUS
    <3> HIDE DEF low
    <3> QED BY <2>1, <3>1, S!IteratedExists, Zenon
  <2>4. \A k \in 1..n : k \in 0..n /\ k - 1 \in 0..n /\ k # 0
    OBVIOUS
  <2>5. \A k \in 0..n : k # 0 => k \in 1..n
    OBVIOUS
  <2>6. f = [k \in 0..n |-> IF k = 0 THEN 0 ELSE f[k - 1] + bit(k - 1)]
    <3>1. f \in [0..n -> Int] /\ f[0] = 0 /\ \A k \in 1..n : f[k] = step[k][f[k - 1]]
      BY <2>3, Zenon DEF S!Iterates
    <3>2. \A k \in 1..n : f[k - 1] \in Int
      BY <2>4, <3>1
    <3>3. \A k \in 0..n : f[k] = IF k = 0 THEN 0 ELSE f[k - 1] + bit(k - 1)
      BY <2>2, <2>5, <3>1, <3>2, Zenon
    <3> QED BY <3>1, <3>3, Zenon
  <2> QED BY <2>6, Zenon
<1> HIDE DEF low
<1>4. ASSUME NEW k \in 0..n PROVE low[k] = IF k = 0 THEN 0 ELSE low[k - 1] + bit(k - 1)
  BY <1>3, Zenon
<1>5. \A k \in Nat : k \in {m \in Nat : m <= n => low[m] \in 0..(2^m - 1)}
  <2> DEFINE P == {m \in Nat : m <= n => low[m] \in 0..(2^m - 1)}
  <2>1. 0 \in P
    <3>1. 0 \in 0..n /\ 2^0 = 1
      OBVIOUS
    <3> QED BY <3>1, <1>4
  <2>2. ASSUME NEW k \in Nat, k \in P PROVE k + 1 \in P
    <3> SUFFICES ASSUME k + 1 <= n PROVE low[k + 1] \in 0..(2^(k + 1) - 1)
      OBVIOUS
    <3>1. k + 1 \in 0..n /\ k + 1 # 0 /\ (k + 1) - 1 = k /\ k <= n
      OBVIOUS
    <3>2. low[k] \in 0..(2^k - 1)
      BY <2>2, <3>1
    <3>3. low[k + 1] = low[k] + bit(k)
      BY <1>4, <3>1
    <3>4. 2^k \in Nat /\ 2^(k + 1) = 2 * 2^k
      BY S!PowerIsNat, S!PowerStep
    <3> QED BY <1>2, <3>2, <3>3, <3>4
  <2> HIDE DEF P
  <2>3. \A k \in Nat : k \in P
    BY <2>1, <2>2, S!FromZero
  <2> QED BY <2>3 DEF P
<1> QED BY <1>1, <1>5

\* Arithmetic returns a word of its format.
LEMMA ComputedTyped ==
    ASSUME NEW i, i.op \in {"add", "sub", "mul", "div", "sqrt"}, i.fmt \in Formats,
           NEW a \in Words(i.fmt), NEW b \in Words(i.fmt), NEW rm
    PROVE  Returned(i.fmt, Computed(i, a, b, rm))
<1>1. CASE i.fmt = "S"
  <2>1. a \in S!Words /\ b \in S!Words
    BY <1>1 DEF Words
  <2>2. /\ Returned("S", S!AddSf(a, b, rm)) /\ Returned("S", S!SubSf(a, b, rm))
        /\ Returned("S", S!MulSf(a, b, rm)) /\ Returned("S", S!DivSf(a, b, rm))
        /\ Returned("S", S!SqrtSf(a, rm))
    BY <2>1, Sizes, FlagsAgree, S!AddTyped, S!SubTyped, S!MulTyped, S!DivTyped, S!SqrtTyped
  <2> QED BY <1>1, <2>2 DEF Computed
<1>2. CASE i.fmt = "D"
  <2>1. a \in D!Words /\ b \in D!Words
    BY <1>2 DEF Words
  <2>2. /\ Returned("D", D!AddSf(a, b, rm)) /\ Returned("D", D!SubSf(a, b, rm))
        /\ Returned("D", D!MulSf(a, b, rm)) /\ Returned("D", D!DivSf(a, b, rm))
        /\ Returned("D", D!SqrtSf(a, rm))
    BY <2>1, Sizes, FlagsAgree, D!AddTyped, D!SubTyped, D!MulTyped, D!DivTyped, D!SqrtTyped
  <2> QED BY <1>2, <2>2 DEF Computed
<1> QED BY <1>1, <1>2 DEF Formats

\* So do the others.
LEMMA OthersTyped ==
    ASSUME NEW fmt \in Formats, NEW a \in Words(fmt), NEW b \in Words(fmt),
           NEW c \in Words(fmt), NEW rm
    PROVE  /\ Neg(fmt, a) \in Words(fmt)
           /\ Returned(fmt, IF fmt = "S" THEN S!FmaSf(a, b, c, rm) ELSE D!FmaSf(a, b, c, rm))
           /\ Returned(fmt, IF fmt = "S" THEN S!MinMaxSf(a, b, rm) ELSE D!MinMaxSf(a, b, rm))
<1>1. CASE fmt = "S"
  <2>1. a \in S!Words /\ b \in S!Words /\ c \in S!Words
    BY <1>1 DEF Words
  <2>2. /\ S!Negated(a) \in S!Words
        /\ Returned("S", S!FmaSf(a, b, c, rm)) /\ Returned("S", S!MinMaxSf(a, b, rm))
    BY <2>1, Sizes, FlagsAgree, S!NegatedTyped, S!FmaTyped, S!MinMaxTyped
  <2> QED BY <1>1, <2>2 DEF Neg, Words
<1>2. CASE fmt = "D"
  <2>1. a \in D!Words /\ b \in D!Words /\ c \in D!Words
    BY <1>2 DEF Words
  <2>2. /\ D!Negated(a) \in D!Words
        /\ Returned("D", D!FmaSf(a, b, c, rm)) /\ Returned("D", D!MinMaxSf(a, b, rm))
    BY <2>1, Sizes, FlagsAgree, D!NegatedTyped, D!FmaTyped, D!MinMaxTyped
  <2> QED BY <1>2, <2>2 DEF Neg, Words
<1> QED BY <1>1, <1>2 DEF Formats

\* What ends up in an integer register: an integer of XLEN bits, and the five flags.
Integer(r) == r.v \in 0..(2^XSIZE - 1) /\ r.fl \subseteq S!Flags

\* Comparisons, classes and conversions to integers.
LEMMA IntegersTyped ==
    ASSUME NEW fmt \in Formats, NEW a \in Words(fmt), NEW b \in Words(fmt), NEW rm,
           NEW unsigned \in BOOLEAN
    PROVE  /\ Integer(IF fmt = "S" THEN S!LeSf(a, b) ELSE D!LeSf(a, b))
           /\ Integer(IF fmt = "S" THEN S!LtSf(a, b) ELSE D!LtSf(a, b))
           /\ Integer(IF fmt = "S" THEN S!EqQuietSf(a, b) ELSE D!EqQuietSf(a, b))
           /\ Integer(IF fmt = "S" THEN S!CvtSfI(a, rm, unsigned) ELSE D!CvtSfI(a, rm, unsigned))
           /\ S!FclassSf(a) \in 0..(2^XSIZE - 1) /\ D!FclassSf(a) \in 0..(2^XSIZE - 1)
<1>1. S!FclassSf(a) \in 0..(2^XSIZE - 1) /\ D!FclassSf(a) \in 0..(2^XSIZE - 1)
  <2>1. S!FclassSf(a) \in 0..9 /\ D!FclassSf(a) \in 0..9
    BY S!ClassTyped, D!ClassTyped
  <2>2. 2^XSIZE \in Nat /\ 2^XSIZE >= 256
    BY Boxes
  <2>3. \A c \in 0..9 : c \in 0..(2^XSIZE - 1)
    BY <2>2
  <2> QED BY <2>1, <2>3
<1>2. \A r : r.v \in {0, 1} /\ r.fl \subseteq S!Flags => Integer(r)
  BY Boxes DEF Integer
<1>3. CASE fmt = "S"
  <2>1. a \in S!Words /\ b \in S!Words
    BY <1>3 DEF Words
  <2>2. Integer(S!LeSf(a, b)) /\ Integer(S!LtSf(a, b)) /\ Integer(S!EqQuietSf(a, b))
    BY <1>2, <2>1, Sizes, S!CompareTyped
  <2>3. Integer(S!CvtSfI(a, rm, unsigned))
    BY <2>1, Sizes, S!ToIntegerTyped DEF Integer
  <2> QED BY <1>1, <1>3, <2>2, <2>3
<1>4. CASE fmt = "D"
  <2>1. a \in D!Words /\ b \in D!Words
    BY <1>4 DEF Words
  <2>2. Integer(D!LeSf(a, b)) /\ Integer(D!LtSf(a, b)) /\ Integer(D!EqQuietSf(a, b))
    BY <1>2, <2>1, Sizes, FlagsAgree, D!CompareTyped
  <2>3. Integer(D!CvtSfI(a, rm, unsigned))
    BY <2>1, Sizes, FlagsAgree, D!ToIntegerTyped DEF Integer
  <2> QED BY <1>1, <1>4, <2>2, <2>3
<1> QED BY <1>3, <1>4 DEF Formats

\* Conversions from integers.
LEMMA FromIntegersTyped ==
    ASSUME NEW fmt \in Formats, NEW x \in 0..(2^XSIZE - 1), NEW rm, NEW unsigned
    PROVE  Returned(fmt, IF fmt = "S" THEN S!CvtISf(x, rm, unsigned)
                                      ELSE D!CvtISf(x, rm, unsigned))
<1>1. Returned("S", S!CvtISf(x, rm, unsigned)) /\ Returned("D", D!CvtISf(x, rm, unsigned))
  BY Sizes, FlagsAgree, S!FromIntegerTyped, D!FromIntegerTyped
<1> QED BY <1>1 DEF Formats

-----------------------------------------------------------------------------
(* The reference of OrderKept says the same of singles as softfp does.     *)

\* The sign, the magnitude and the kind of a single.
LEMMA RefAgrees ==
    ASSUME NEW a \in S!Words
    PROVE  /\ Ref!Negative(a) <=> S!Sign(a) = 1
           /\ Ref!Abs(a) = S!Magnitude(a)
           /\ Ref!Nan(a) <=> S!IsNan(a)
           /\ Ref!Signalling(a) <=> S!IsSigNan(a)
           /\ Ref!Zero(a) <=> S!IsZero(a)
           /\ Ref!QuietNan = S!F_QNAN
<1> DEFINE P == S!MANTS
           M == S!EXP_MASK
<1>1. /\ Ref!Top = S!TOP /\ Ref!INF = M * P
  <2>1. S!F_SIZE - 1 = SEXP + SMANT
    BY Sizes
  <2> QED BY <2>1 DEF Ref!Top, S!TOP, Ref!INF, Ref!Emax, S!EXP_MASK, S!MANTS
<1>2. /\ S!Exp(a) \in 0..M /\ S!Mant(a) \in 0..(P - 1)
      /\ S!Magnitude(a) = S!Exp(a) * P + S!Mant(a)
      /\ (S!Sign(a) = 1) = (a >= S!TOP)
      /\ M \in Nat /\ P \in Nat /\ 2^(SMANT - 1) \in Nat /\ 2 * 2^(SMANT - 1) = P /\ P >= 4
  <2>1. /\ S!Exp(a) \in 0..M /\ S!Mant(a) \in 0..S!MANT_MASK
        /\ S!Magnitude(a) = S!Exp(a) * P + S!Mant(a) /\ (S!Sign(a) = 1) = (a >= S!TOP)
    BY Sizes, S!Fields
  <2>2. /\ S!EXPS \in Nat /\ S!EXPS >= 32 /\ M = S!EXPS - 1
        /\ P \in Nat /\ P >= 4 /\ S!MANT_MASK = P - 1
        /\ 2^(SMANT - 1) \in Nat /\ 2 * 2^(SMANT - 1) = P
    BY Sizes, S!Format
  <2> HIDE DEF M, P
  <2> QED BY <2>1, <2>2
<1>3. Ref!Negative(a) <=> S!Sign(a) = 1
  BY <1>1, <1>2 DEF Ref!Negative
<1>4. Ref!Abs(a) = S!Magnitude(a)
  BY <1>1 DEF Ref!Abs, S!Magnitude, S!TOP
<1> HIDE DEF P, M
<1>5. S!Magnitude(a) > M * P <=> S!Exp(a) = M /\ S!Mant(a) # 0
  <2> DEFINE e == S!Exp(a)
             m == S!Mant(a)
             y == e * P
             z == M * P
  <2>1. y \in Int /\ z \in Int /\ (e # M => y + P <= z) /\ (e = M => y = z)
    <3>1. e # M => e + 1 <= M
      BY <1>2
    <3>2. e # M => (e + 1) * P <= M * P
      BY <1>2, <3>1
    <3>3. (e + 1) * P = e * P + P
      BY <1>2
    <3> QED BY <1>2, <3>2, <3>3
  <2>2. m \in Nat /\ m < P /\ P \in Nat
    BY <1>2
  <2>3. S!Magnitude(a) = y + m
    BY <1>2
  <2> HIDE DEF e, m, y, z
  <2>4. y + m > z <=> e = M /\ m # 0
    BY <2>1, <2>2
  <2> QED BY <2>3, <2>4 DEF e, m, z
<1>6. Ref!Nan(a) <=> S!IsNan(a)
  BY <1>1, <1>4, <1>5 DEF Ref!Nan, S!IsNan, M
<1>7. Ref!Signalling(a) <=> S!IsSigNan(a)
  BY <1>6 DEF Ref!Signalling, S!IsSigNan, S!Mant
<1>8. Ref!Zero(a) <=> S!IsZero(a)
  BY <1>4 DEF Ref!Zero, S!IsZero
<1>9. Ref!QuietNan = S!F_QNAN
  <2> DEFINE h == 2^(SMANT - 1)
  <2>1. h \in Nat /\ h < P /\ P \in Nat \ {0}
    BY <1>2
  <2>2. S!Mant(h) = h
    <3>1. h % P = h
      <4> HIDE DEF h
      <4>1. 0 \in Int /\ h \in 0..(P - 1) /\ h = P * 0 + h /\ h \in Int
        BY <2>1
      <4> QED BY <2>1, <4>1, S!DivModUnique
    <3> QED BY <3>1 DEF S!Mant, P, S!MANTS
  <2>3. S!F_QNAN = 0 * 2^(S!F_SIZE - 1) + M * P + S!Mant(h)
    BY DEF S!F_QNAN, S!PackSf, M, P, S!MANTS
  <2>4. Ref!QuietNan = M * P + h
    BY <1>1 DEF Ref!QuietNan
  <2>5. S!TOP \in Int /\ 0 * S!TOP = 0 /\ S!TOP = 2^(S!F_SIZE - 1)
    BY Sizes, S!Format DEF S!TOP
  <2>6. M * P \in Int
    BY <1>2
  <2> DEFINE z == M * P
             t == 0 * S!TOP
  <2> HIDE DEF h, z, t
  <2>7. S!F_QNAN = t + z + h /\ Ref!QuietNan = z + h /\ t = 0 /\ z \in Int
    BY <2>2, <2>3, <2>4, <2>5, <2>6 DEF t, z
  <2> QED BY <2>1, <2>7
<1> QED BY <1>3, <1>4, <1>6, <1>7, <1>8, <1>9

-----------------------------------------------------------------------------
(* The types.  An instruction is one of a start's program, so it is well   *)
(* formed; what it stores is typed by what softfp returns.                 *)

\* What remains of a program.
Pending == \E st \in Starts : program \in Seq(Instructions(st))
\* The types, and that what is still to execute is well-formed.
IInv == TypeOK /\ Pending

\* An instruction other than an illegal one.
Executed(i) ==
    \/ Arith(i) \/ Fused(i) \/ SignInject(i) \/ MinMax(i) \/ Compare(i)
    \/ ToInteger(i) \/ FromInteger(i) \/ Convert(i)
    \/ MoveOut(i) \/ MoveIn(i) \/ FpLoad(i) \/ FpStore(i) \/ CsrWrite(i) \/ SetFs(i)

\* A step executes the first instruction and leaves the others.
LEMMA StepCases ==
    ASSUME Pending, Step
    PROVE  /\ Pending'
           /\ \E i : WellFormed(i) /\ (Illegal(i) \/ (Legal(i) /\ Executed(i)))
<1>1. PICK st \in Starts : program \in Seq(Instructions(st))
  BY DEF Pending
<1>2. program # <<>> /\ program' = Tail(program)
  BY DEF Step
<1>3. Head(program) \in Instructions(st) /\ Tail(program) \in Seq(Instructions(st))
  <2> DEFINE T == Instructions(st)
  <2>1. program \in Seq(T) /\ program # <<>>
    BY <1>1, <1>2
  <2> HIDE DEF T
  <2>2. Head(program) \in T /\ Tail(program) \in Seq(T)
    BY <2>1
  <2> QED BY <2>2 DEF T
<1>4. Pending'
  BY <1>2, <1>3 DEF Pending
<1>5. WellFormed(Head(program))
  BY <1>3, StartsAssumption
<1>6. Illegal(Head(program)) \/ (Legal(Head(program)) /\ Executed(Head(program)))
  BY Zenon DEF Step, Executed
<1>7. PICK i : i = Head(program)
  OBVIOUS
<1>8. WellFormed(i) /\ (Illegal(i) \/ (Legal(i) /\ Executed(i)))
  BY <1>5, <1>6, <1>7, Zenon
<1> QED BY <1>4, <1>8

\* Storing a result keeps the types.
LEMMA FStored ==
    ASSUME TypeOK, NEW i, WellFormed(i), NEW r, Returned(i.fmt, r), SetF(i, r)
    PROVE  TypeOK'
<1>1. High(i.fmt) + r.v \in 0..(2^D!F_SIZE - 1)
  BY Boxes DEF Returned, Words, WellFormed, Formats
<1>2. fp_reg' \in [FRegs -> 0..(2^D!F_SIZE - 1)]
  BY <1>1 DEF TypeOK, SetF
<1>3. fflags' \subseteq {"NV", "DZ", "OF", "UF", "NX"}
  BY FlagsAgree DEF TypeOK, SetF, Returned
<1> QED BY <1>2, <1>3 DEF TypeOK, SetF

LEMMA XStored ==
    ASSUME TypeOK, NEW i, WellFormed(i), NEW r, Integer(r), SetX(i, r)
    PROVE  TypeOK'
<1>1. fflags' \subseteq {"NV", "DZ", "OF", "UF", "NX"}
  BY FlagsAgree DEF TypeOK, SetX, Integer
<1>2. reg' \in [XRegs -> 0..(2^XSIZE - 1)]
  BY DEF TypeOK, SetX, Integer
<1>3. reg'[0] = 0
  <2>1. 0 \in XRegs
    BY StartsAssumption
  <2> QED BY <2>1 DEF TypeOK, SetX
<1> QED BY <1>1, <1>2, <1>3 DEF TypeOK, SetX

\* A register and the operands of an instruction.
LEMMA Operands ==
    ASSUME TypeOK, NEW i, WellFormed(i)
    PROVE  /\ i.fmt \in Formats
           /\ Arg(i.fmt, i.rs1) \in Words(i.fmt) /\ Arg(i.fmt, i.rs2) \in Words(i.fmt)
           /\ Arg("S", i.rs1) \in S!Words
           /\ fp_reg[i.rs1] \in D!Words /\ fp_reg[i.rs2] \in D!Words
           /\ reg[i.rs1] \in 0..(2^XSIZE - 1)
<1>1. i.fmt \in Formats /\ i.rs1 \in FRegs /\ i.rs1 \in XRegs /\ i.rs2 \in FRegs
  BY DEF WellFormed
<1>2. Arg("S", i.rs1) \in S!Words
  <2>1. Arg("S", i.rs1) \in Words("S")
    BY <1>1, ArgTyped DEF Formats
  <2> QED BY <2>1 DEF Words
<1>3. fp_reg[i.rs1] \in D!Words /\ fp_reg[i.rs2] \in D!Words /\ reg[i.rs1] \in 0..(2^XSIZE - 1)
  BY <1>1, Boxes DEF TypeOK
<1> QED BY <1>1, <1>2, <1>3, ArgTyped

\* The instructions one by one.
LEMMA ArithTyped ==
    ASSUME TypeOK, NEW i, WellFormed(i), Arith(i)
    PROVE  TypeOK'
<1>1. PICK r : /\ r = Computed(i, Arg(i.fmt, i.rs1), Arg(i.fmt, i.rs2), InsnRm(i))
               /\ SetF(i, r) /\ i.op \in {"add", "sub", "mul", "div", "sqrt"}
  BY Zenon DEF Arith
<1>2. Returned(i.fmt, r)
  BY <1>1, Operands, ComputedTyped
<1> QED BY <1>1, <1>2, FStored

LEMMA FusedTyped ==
    ASSUME TypeOK, NEW i, WellFormed(i), Fused(i)
    PROVE  TypeOK'
<1> DEFINE p == Arg(i.fmt, i.rs1)
           t == Arg(i.fmt, i.rs3)
           a == IF i.negProduct THEN Neg(i.fmt, p) ELSE p
           b == Arg(i.fmt, i.rs2)
           c == IF i.negTerm THEN Neg(i.fmt, t) ELSE t
<1>1. PICK r : /\ r = IF i.fmt = "S" THEN S!FmaSf(a, b, c, InsnRm(i))
                                     ELSE D!FmaSf(a, b, c, InsnRm(i))
               /\ SetF(i, r) /\ i.op = "fma"
  BY Zenon DEF Fused
<1>2. i.fmt \in Formats /\ p \in Words(i.fmt) /\ b \in Words(i.fmt)
  BY Operands
<1>3. t \in Words(i.fmt)
  BY <1>1, <1>2, ArgTyped DEF WellFormed
<1> HIDE DEF p, t, b
<1>4. a \in Words(i.fmt) /\ c \in Words(i.fmt)
  BY <1>2, <1>3, OthersTyped
<1> HIDE DEF a, c
<1>5. Returned(i.fmt, r)
  BY <1>1, <1>2, <1>4, OthersTyped
<1> QED BY <1>1, <1>5, FStored

LEMMA MinMaxStepTyped ==
    ASSUME TypeOK, NEW i, WellFormed(i), MinMax(i)
    PROVE  TypeOK'
<1> DEFINE a == Arg(i.fmt, i.rs1)
           b == Arg(i.fmt, i.rs2)
<1>1. PICK r : /\ r = IF i.fmt = "S" THEN S!MinMaxSf(a, b, i.rm = 0)
                                     ELSE D!MinMaxSf(a, b, i.rm = 0)
               /\ SetF(i, r)
  BY Zenon DEF MinMax
<1>2. i.fmt \in Formats /\ a \in Words(i.fmt) /\ b \in Words(i.fmt)
  BY Operands
<1> HIDE DEF a, b
<1>3. Returned(i.fmt, r)
  BY <1>1, <1>2, OthersTyped
<1> QED BY <1>1, <1>3, FStored

LEMMA CompareStepTyped ==
    ASSUME TypeOK, NEW i, WellFormed(i), Legal(i), Compare(i)
    PROVE  TypeOK'
<1> DEFINE a == Arg(i.fmt, i.rs1)
           b == Arg(i.fmt, i.rs2)
           le == IF i.fmt = "S" THEN S!LeSf(a, b) ELSE D!LeSf(a, b)
           lt == IF i.fmt = "S" THEN S!LtSf(a, b) ELSE D!LtSf(a, b)
           eq == IF i.fmt = "S" THEN S!EqQuietSf(a, b) ELSE D!EqQuietSf(a, b)
<1>1. PICK r : /\ r = CASE i.rm = 0 -> le [] i.rm = 1 -> lt [] i.rm = 2 -> eq
               /\ SetX(i, r) /\ i.op = "cmp"
  BY Zenon DEF Compare
<1>2. i.fmt \in Formats /\ a \in Words(i.fmt) /\ b \in Words(i.fmt)
  BY Operands
<1> HIDE DEF a, b
<1>3. Integer(le) /\ Integer(lt) /\ Integer(eq)
  BY <1>2, IntegersTyped
<1> HIDE DEF le, lt, eq
<1>4. i.rm \in 0..2
  BY <1>1 DEF Legal
<1>5. Integer(r)
  BY <1>1, <1>3, <1>4
<1> QED BY <1>1, <1>5, XStored

LEMMA ToIntegerStepTyped ==
    ASSUME TypeOK, NEW i, WellFormed(i), ToInteger(i)
    PROVE  TypeOK'
<1> DEFINE a == Arg(i.fmt, i.rs1)
<1>1. PICK r : /\ r = IF i.fmt = "S" THEN S!CvtSfI(a, InsnRm(i), i.rs2 = 1)
                                     ELSE D!CvtSfI(a, InsnRm(i), i.rs2 = 1)
               /\ SetX(i, r)
  BY Zenon DEF ToInteger
<1>2. i.fmt \in Formats /\ a \in Words(i.fmt)
  BY Operands
<1> HIDE DEF a
<1>3. Integer(r)
  BY <1>1, <1>2, IntegersTyped
<1> QED BY <1>1, <1>3, XStored

LEMMA FromIntegerStepTyped ==
    ASSUME TypeOK, NEW i, WellFormed(i), FromInteger(i)
    PROVE  TypeOK'
<1> DEFINE x == reg[i.rs1]
<1>1. PICK r : /\ r = IF i.fmt = "S" THEN S!CvtISf(x, InsnRm(i), i.rs2 = 1)
                                     ELSE D!CvtISf(x, InsnRm(i), i.rs2 = 1)
               /\ SetF(i, r)
  BY Zenon DEF FromInteger
<1>2. i.fmt \in Formats /\ x \in 0..(2^XSIZE - 1)
  BY Operands
<1> HIDE DEF x
<1>3. Returned(i.fmt, r)
  BY <1>1, <1>2, FromIntegersTyped
<1> QED BY <1>1, <1>3, FStored

LEMMA ConvertTyped ==
    ASSUME TypeOK, NEW i, WellFormed(i), Convert(i)
    PROVE  TypeOK'
<1> DEFINE a == IF i.fmt = "S" THEN fp_reg[i.rs1] ELSE Arg("S", i.rs1)
<1>1. PICK r : /\ r = IF i.fmt = "S" THEN CvtDS(a, InsnRm(i)) ELSE CvtSD(a)
               /\ SetF(i, r)
  BY Zenon DEF Convert
<1>2. /\ i.fmt \in Formats /\ (i.fmt = "S" => a \in D!Words) /\ (i.fmt = "D" => a \in S!Words)
  BY Operands
<1> HIDE DEF a
<1>3. Returned(i.fmt, r)
  BY <1>1, <1>2, CvtDSTyped, CvtSDTyped DEF Formats
<1> QED BY <1>1, <1>3, FStored

LEMMA MoveOutTyped ==
    ASSUME TypeOK, NEW i, WellFormed(i), Legal(i), MoveOut(i)
    PROVE  TypeOK'
<1> DEFINE a == Arg(i.fmt, i.rs1)
           class == IF i.fmt = "S" THEN S!FclassSf(a) ELSE D!FclassSf(a)
<1>1. PICK r : /\ r = CASE i.rm = 0 -> a [] i.rm = 1 -> class
               /\ SetX(i, S!Res(r, {})) /\ i.op = "mvout"
  BY Zenon DEF MoveOut
<1>2. (i.rm = 0 /\ i.fmt = "S") \/ i.rm = 1
  BY <1>1 DEF Legal
<1>3. i.fmt \in Formats /\ a \in Words(i.fmt)
  BY Operands
<1> HIDE DEF a
<1>4. class \in 0..(2^XSIZE - 1)
  BY <1>3, IntegersTyped
<1>5. i.fmt = "S" => a \in 0..(2^XSIZE - 1)
  BY <1>3, Boxes DEF Words
<1> HIDE DEF class
<1>6. r \in 0..(2^XSIZE - 1)
  BY <1>1, <1>2, <1>4, <1>5
<1>7. Integer(S!Res(r, {}))
  BY <1>6 DEF Integer, S!Res
<1> QED BY <1>1, <1>7, XStored

LEMMA MoveInTyped ==
    ASSUME TypeOK, NEW i, WellFormed(i), MoveIn(i)
    PROVE  TypeOK'
<1> DEFINE x == reg[i.rs1]
           v == IF x >= 2^(XSIZE - 1) THEN x + High("S") ELSE x
<1>1. x \in S!Words
  BY Operands, Boxes
<1> HIDE DEF x
<1>2. v \in 0..(2^D!F_SIZE - 1)
  BY <1>1, Boxes DEF High
<1>3. fp_reg' = [fp_reg EXCEPT ![i.rd] = v] /\ fs' = 3 /\ UNCHANGED <<reg, fflags, frm>>
  BY Zenon DEF MoveIn, x
<1> HIDE DEF v
<1>4. fp_reg' \in [FRegs -> 0..(2^D!F_SIZE - 1)]
  BY <1>2, <1>3 DEF TypeOK
<1> QED BY <1>3, <1>4 DEF TypeOK

LEMMA FpLoadTyped ==
    ASSUME TypeOK, NEW i, WellFormed(i), FpLoad(i)
    PROVE  TypeOK'
<1>1. CASE UNCHANGED <<fp_reg, reg, fflags, frm, fs, saved>>
  BY <1>1 DEF TypeOK
<1>2. ASSUME NEW v \in LoadValues, SetF(i, S!Res(Unboxed(i.fmt, v), {})) PROVE TypeOK'
  <2> DEFINE n == 2^Size(i.fmt)
  <2>1. i.fmt \in Formats /\ v \in Int
    BY StartsAssumption DEF WellFormed
  <2>2. n \in Nat \ {0} /\ Words(i.fmt) = 0..(n - 1)
    BY <2>1, Boxes DEF Size, Words, Formats
  <2> HIDE DEF n
  <2>3. v % n \in 0..(n - 1)
    BY <2>1, <2>2, S!DivMod, Zenon
  <2>4. Unboxed(i.fmt, v) = v % n
    BY DEF Unboxed, n
  <2>5. Returned(i.fmt, S!Res(Unboxed(i.fmt, v), {}))
    BY <2>2, <2>3, <2>4 DEF Returned, S!Res
  <2> QED BY <1>2, <2>5, FStored
<1> QED BY <1>1, <1>2 DEF FpLoad

LEMMA CsrWriteTyped ==
    ASSUME TypeOK, NEW i, WellFormed(i), CsrWrite(i)
    PROVE  TypeOK'
<1>1. i.rm \in 0..7 /\ i.flags \subseteq {"NV", "DZ", "OF", "UF", "NX"}
  BY DEF WellFormed, CsrWrite
<1>2. frm' \in 0..4
  BY <1>1 DEF CsrWrite, TypeOK
<1>3. fflags' \subseteq {"NV", "DZ", "OF", "UF", "NX"}
  BY <1>1 DEF CsrWrite, TypeOK
<1> QED BY <1>2, <1>3 DEF TypeOK, CsrWrite

LEMMA SetFsTyped ==
    ASSUME TypeOK, NEW i, WellFormed(i), SetFs(i)
    PROVE  TypeOK'
<1>1. i.rm \in 0..3
  BY DEF WellFormed, SetFs
<1> QED BY <1>1 DEF TypeOK, SetFs

LEMMA SignInjectTyped ==
    ASSUME TypeOK, NEW i, WellFormed(i), Legal(i), SignInject(i)
    PROVE  TypeOK'
<1> DEFINE n == Size(i.fmt)
           bits == D!F_SIZE - n + 1
           half == 2^(n - 1)
           above == 2^bits
           a == fp_reg[i.rs1]
           b == fp_reg[i.rs2]
           h1 == a \div half
           h2 == b \div half
           x == Xor(h1, h2, bits)
<1>1. PICK h : /\ h = CASE i.rm = 0 -> h2 [] i.rm = 1 -> above - 1 - h2 [] i.rm = 2 -> x
               /\ fp_reg' = [fp_reg EXCEPT ![i.rd] = h * half + (a % half)]
               /\ fs' = 3 /\ UNCHANGED <<reg, fflags, frm>> /\ i.op = "sgnj"
  BY Zenon DEF SignInject
<1>2. n \in Nat /\ n >= 8 /\ bits \in Nat /\ bits >= 1 /\ n - 1 \in Nat
      /\ bits + (n - 1) = D!F_SIZE /\ i.fmt \in Formats
  BY Sizes DEF Size, WellFormed, Formats
<1> HIDE DEF n, bits
<1>3. half \in Nat \ {0} /\ above \in Nat \ {0} /\ above * half = 2^D!F_SIZE
  <2>1. 2^(bits + (n - 1)) = above * half
    BY <1>2, S!PowerAdd
  <2>2. half \in Nat /\ half >= 1 /\ above \in Nat /\ above >= 1
    BY <1>2, S!PowerIsNat
  <2> QED BY <1>2, <2>1, <2>2
<1>4. a \in Nat /\ b \in Nat /\ a < half * above /\ b < half * above
  <2>1. a \in D!Words /\ b \in D!Words
    BY Operands
  <2>2. half * above = above * half
    BY <1>3
  <2> DEFINE w == 2^D!F_SIZE
             u == half * above
             t == above * half
  <2>3. w = u /\ w \in Nat /\ a \in 0..(w - 1) /\ b \in 0..(w - 1)
    BY <1>3, <2>1, <2>2, Boxes
  <2> HIDE DEF w, u, a, b
  <2> QED BY <2>3 DEF u
<1> HIDE DEF a, b, half, above
<1>5. h1 \in Nat /\ h2 \in Nat /\ h1 < above /\ h2 < above
  BY <1>3, <1>4, S!DivNat, S!DivBelow
<1>6. x \in 0..(above - 1)
  <2>1. Xor(h1, h2, bits) \in 0..(2^bits - 1)
    <3> HIDE DEF h1, h2
    <3> QED BY <1>2, XorTyped
  <2> QED BY <2>1 DEF above
<1> HIDE DEF h1, h2, x
<1>7. h \in 0..(above - 1)
  <2>1. i.rm \in 0..2
    BY <1>1 DEF Legal
  <2> QED BY <1>1, <1>3, <1>5, <1>6, <2>1
<1>8. h * half + (a % half) \in 0..(2^D!F_SIZE - 1)
  <2> DEFINE c == a % half
             y == h * half
             z == above * half
  <2>1. c \in 0..(half - 1)
    <3>1. a \in Int
      BY <1>4
    <3> QED BY <1>3, <3>1, S!DivMod, Zenon
  <2>2. y \in Nat /\ z \in Nat /\ y + half <= z
    <3>1. h + 1 <= above /\ h + 1 \in Nat /\ h \in Nat
      BY <1>3, <1>7
    <3>2. (h + 1) * half <= above * half
      BY <1>3, <3>1
    <3>3. (h + 1) * half = h * half + half /\ h * half \in Nat /\ above * half \in Nat
      BY <1>3, <3>1
    <3> QED BY <3>2, <3>3
  <2>3. z = 2^D!F_SIZE
    BY <1>3
  <2> HIDE DEF c, y, z
  <2>4. y + c \in 0..(z - 1)
    BY <1>3, <2>1, <2>2
  <2> QED BY <2>3, <2>4 DEF c, y
<1> DEFINE v == h * half + (a % half)
<1> HIDE DEF v
<1>9. fp_reg' \in [FRegs -> 0..(2^D!F_SIZE - 1)]
  <2>1. v \in 0..(2^D!F_SIZE - 1) /\ fp_reg' = [fp_reg EXCEPT ![i.rd] = v]
    BY <1>1, <1>8 DEF v
  <2> QED BY <2>1 DEF TypeOK
<1>10. fs' \in 0..3 /\ reg' = reg /\ fflags' = fflags /\ frm' = frm
  BY <1>1
<1> QED BY <1>9, <1>10 DEF TypeOK

\* The starts are typed.
LEMMA InitIInv == Init => IInv
<1> SUFFICES ASSUME Init PROVE IInv
  OBVIOUS
<1>1. PICK st \in Starts :
        /\ \E a \in st.f0, b \in st.f1, c \in st.f2 :
               fp_reg = [r \in FRegs |-> CASE r = 0 -> a [] r = 1 -> b [] OTHER -> c]
        /\ \E v \in st.x : reg = [r \in XRegs |-> IF r = 0 THEN 0 ELSE v]
        /\ frm \in st.frm /\ fs \in st.fs /\ program \in st.program
        /\ fflags = {}
  BY Zenon DEF Init
<1>2. /\ st.f0 \cup st.f1 \cup st.f2 \subseteq 0..(2^D!F_SIZE - 1)
      /\ st.x \subseteq 0..(2^XSIZE - 1) /\ st.frm \subseteq 0..4 /\ st.fs \subseteq 0..3
      /\ st.program \subseteq Seq(Instructions(st)) /\ 0 \in XRegs
  BY StartsAssumption
<1>3. fp_reg \in [FRegs -> 0..(2^D!F_SIZE - 1)]
  <2>1. PICK a \in st.f0, b \in st.f1, c \in st.f2 :
               fp_reg = [r \in FRegs |-> CASE r = 0 -> a [] r = 1 -> b [] OTHER -> c]
    BY <1>1
  <2>2. a \in 0..(2^D!F_SIZE - 1) /\ b \in 0..(2^D!F_SIZE - 1) /\ c \in 0..(2^D!F_SIZE - 1)
    BY <1>2
  <2> QED BY <2>1, <2>2
<1>4. reg \in [XRegs -> 0..(2^XSIZE - 1)] /\ reg[0] = 0
  <2>1. PICK v \in st.x : reg = [r \in XRegs |-> IF r = 0 THEN 0 ELSE v]
    BY <1>1
  <2>2. v \in 0..(2^XSIZE - 1) /\ 0 \in 0..(2^XSIZE - 1)
    BY <1>2, Boxes
  <2> QED BY <1>2, <2>1, <2>2
<1>5. frm \in 0..4 /\ fs \in 0..3 /\ fflags \subseteq {"NV", "DZ", "OF", "UF", "NX"}
  BY <1>1, <1>2
<1>6. Pending
  BY <1>1, <1>2 DEF Pending
<1> QED BY <1>3, <1>4, <1>5, <1>6 DEF IInv, TypeOK

\* Every step keeps the types.
LEMMA NextIInv == IInv /\ [Next]_vars => IInv'
<1> SUFFICES ASSUME IInv, [Next]_vars PROVE IInv'
  OBVIOUS
<1>1. TypeOK /\ Pending
  BY DEF IInv
<1>2. CASE UNCHANGED vars
  BY <1>1, <1>2 DEF vars, IInv, TypeOK, Pending
<1>3. CASE Next
  <2>1. Pending' /\ \E i : WellFormed(i) /\ (Illegal(i) \/ (Legal(i) /\ Executed(i)))
    BY <1>1, <1>3, StepCases DEF Next
  <2>2. PICK i : WellFormed(i) /\ (Illegal(i) \/ (Legal(i) /\ Executed(i)))
    BY <2>1
  <2>3. Illegal(i) \/ FpStore(i) => TypeOK'
    <3>1. Illegal(i) \/ FpStore(i) => UNCHANGED <<fp_reg, reg, fflags, frm, fs>>
      BY DEF Illegal, FpStore
    <3> QED BY <1>1, <3>1 DEF TypeOK
  <2>4. Arith(i) \/ Fused(i) \/ MinMax(i) \/ FromInteger(i) \/ Convert(i) => TypeOK'
    BY <1>1, <2>2, ArithTyped, FusedTyped, MinMaxStepTyped, FromIntegerStepTyped, ConvertTyped
  <2>5. Legal(i) /\ (Compare(i) \/ ToInteger(i) \/ MoveOut(i)) => TypeOK'
    BY <1>1, <2>2, CompareStepTyped, ToIntegerStepTyped, MoveOutTyped
  <2>6. Legal(i) /\ SignInject(i) => TypeOK'
    BY <1>1, <2>2, SignInjectTyped
  <2>7. MoveIn(i) \/ FpLoad(i) \/ CsrWrite(i) \/ SetFs(i) => TypeOK'
    BY <1>1, <2>2, MoveInTyped, FpLoadTyped, CsrWriteTyped, SetFsTyped
  <2>8. TypeOK'
    BY <2>2, <2>3, <2>4, <2>5, <2>6, <2>7, Zenon DEF Executed
  <2> QED BY <2>1, <2>8 DEF IInv
<1> QED BY <1>2, <1>3

\* The registers, fflags, frm and FS stay what they are, for formats of every size: no
\* assertion of normalize_sf fails and no result is wider than its register.
THEOREM TypesKept == Spec => []TypeOK
<1>1. Spec => []IInv
  BY InitIInv, NextIInv, PTL DEF Spec
<1>2. IInv => TypeOK
  BY DEF IInv
<1> QED BY <1>1, <1>2, PTL

-----------------------------------------------------------------------------
(* The saved context.                                                      *)

\* With FS initial or clean, the registers and the rounding mode are those that were
\* there when it was set: every instruction that writes one makes FS dirty.
THEOREM SavedContextKept == Spec => []ContextSaved
<1>1. Init => ContextSaved
  BY DEF Init, ContextSaved
<1>2. IInv /\ ContextSaved /\ [Next]_vars => ContextSaved'
  <2> SUFFICES ASSUME IInv, ContextSaved, [Next]_vars PROVE ContextSaved'
    OBVIOUS
  <2>1. CASE UNCHANGED vars
    BY <2>1 DEF vars, ContextSaved, Context
  <2>2. ASSUME Next PROVE ContextSaved'
    <3>1. PICK i : WellFormed(i) /\ (Illegal(i) \/ (Legal(i) /\ Executed(i)))
      BY <2>2, StepCases DEF Next, IInv
    <3> DEFINE Same == UNCHANGED <<fp_reg, frm, fs, saved>>
               Dirty == fs' = 3
    <3>2. Illegal(i) \/ Compare(i) \/ ToInteger(i) \/ MoveOut(i) \/ FpStore(i) => Same
      BY DEF Illegal, Compare, ToInteger, MoveOut, FpStore, SetX
    <3>3. Arith(i) \/ Fused(i) \/ SignInject(i) \/ MinMax(i) \/ FromInteger(i) \/ Convert(i) => Dirty
      BY Zenon DEF Arith, Fused, SignInject, MinMax, FromInteger, Convert, SetF
    <3>4. MoveIn(i) \/ CsrWrite(i) => Dirty
      BY Zenon DEF MoveIn, CsrWrite
    <3>5. FpLoad(i) => Dirty \/ Same
      BY DEF FpLoad, SetF
    <3>6. Same => ContextSaved'
      BY DEF ContextSaved, Context
    <3>7. Dirty => ContextSaved'
      BY DEF ContextSaved
    <3>8. SetFs(i) => ContextSaved'
      BY DEF SetFs, ContextSaved, Context
    <3> HIDE DEF Same, Dirty
    <3> QED BY <3>1, <3>2, <3>3, <3>4, <3>5, <3>6, <3>7, <3>8, Zenon DEF Executed
  <2> QED BY <2>1, <2>2
<1> QED BY InitIInv, NextIInv, <1>1, <1>2, PTL DEF Spec

-----------------------------------------------------------------------------
(* Comparisons.                                                            *)

\* A single's number is what softfp compares; the zeros in order are its zeros by sign.
LEMMA OrdersAgree ==
    ASSUME NEW a \in S!Words, NEW b \in S!Words
    PROVE  /\ Order(a) = S!Ordinal(a) /\ Order(b) = S!Ordinal(b)
           /\ Below(a, b) <=> S!Precedes(a, b)
<1>1. Order(a) = S!Ordinal(a) /\ Order(b) = S!Ordinal(b)
  BY RefAgrees DEF Order, S!Ordinal
<1>2. Ref!Negative(b) <=> ~(S!Sign(b) = 0)
  BY RefAgrees, Sizes, S!SignsTyped
<1>3. Below(a, b) <=> \/ S!Ordinal(a) < S!Ordinal(b)
                      \/ Ref!Zero(a) /\ Ref!Zero(b) /\ Ref!Negative(a) /\ ~Ref!Negative(b)
  BY <1>1 DEF Below
<1>4. Ref!Zero(a) /\ Ref!Zero(b) /\ Ref!Negative(a) /\ ~Ref!Negative(b) <=> S!ZerosBySign(a, b)
  BY <1>2, RefAgrees DEF S!ZerosBySign
<1> QED BY <1>1, <1>3, <1>4 DEF S!Precedes

\* What is noted of a comparison of singles is in order.
LEMMA CompareOrders ==
    ASSUME NEW l, l.a \in S!Words, l.b \in S!Words, l.field \in 0..2,
           l.field = 0 => l.r = S!LeSf(l.a, l.b),
           l.field = 1 => l.r = S!LtSf(l.a, l.b),
           l.field = 2 => l.r = S!EqQuietSf(l.a, l.b)
    PROVE  ComparesInOrder(l)
<1> DEFINE a == l.a
           b == l.b
           x == S!Ordinal(a)
           y == S!Ordinal(b)
           nan == S!IsNan(a) \/ S!IsNan(b)
           signal == S!IsSigNan(a) \/ S!IsSigNan(b)
<1>1. AnyNan(l) <=> nan
  BY RefAgrees DEF AnyNan
<1>2. AnySignal(l) <=> signal
  BY RefAgrees DEF AnySignal
<1>3. Order(l.a) = x /\ Order(l.b) = y
  BY OrdersAgree
<1>4. signal => nan
  BY DEF S!IsSigNan
<1>5. /\ nan => /\ S!LeSf(a, b) = S!Res(0, {"NV"}) /\ S!LtSf(a, b) = S!Res(0, {"NV"})
                /\ S!EqQuietSf(a, b) = S!Res(0, IF signal THEN {"NV"} ELSE {})
      /\ ~nan => /\ S!LeSf(a, b) = S!Res(S!Bit(x <= y), {})
                 /\ S!LtSf(a, b) = S!Res(S!Bit(x < y), {})
                 /\ S!EqQuietSf(a, b) = S!Res(S!Bit(x = y), {})
  BY Sizes, S!CompareExact, Zenon
<1> HIDE DEF x, y, nan, signal
<1>6. CASE nan
  <2>1. l.r.v = 0
    BY <1>5, <1>6 DEF S!Res
  <2>2. l.r.fl = IF signal \/ l.field # 2 THEN {"NV"} ELSE {}
    BY <1>5, <1>6 DEF S!Res
  <2> QED BY <1>1, <1>2, <1>6, <2>1, <2>2 DEF ComparesInOrder
<1>7. CASE ~nan
  <2>1. l.r.fl = {}
    BY <1>5, <1>7 DEF S!Res
  <2>2. \A c \in BOOLEAN : S!Bit(c) = 1 <=> c
    BY DEF S!Bit
  <2>3. l.r.v = 1 <=> \/ l.field = 0 /\ x <= y
                      \/ l.field = 1 /\ x < y
                      \/ l.field = 2 /\ x = y
    <3>1. l.field = 0 => l.r.v = S!Bit(x <= y)
      BY <1>5, <1>7 DEF S!Res
    <3>2. l.field = 1 => l.r.v = S!Bit(x < y)
      BY <1>5, <1>7 DEF S!Res
    <3>3. l.field = 2 => l.r.v = S!Bit(x = y)
      BY <1>5, <1>7 DEF S!Res
    <3>4. l.field = 0 \/ l.field = 1 \/ l.field = 2
      OBVIOUS
    <3> QED BY <3>1, <3>2, <3>3, <3>4 DEF S!Bit
  <2> QED BY <1>1, <1>2, <1>3, <1>4, <1>7, <2>1, <2>3 DEF ComparesInOrder
<1> QED BY <1>6, <1>7

\* What is noted of a minimum or maximum of singles is in order.
LEMMA MinMaxOrders ==
    ASSUME NEW l, l.a \in S!Words, l.b \in S!Words,
           l.r = S!MinMaxSf(l.a, l.b, l.field = 0)
    PROVE  PicksInOrder(l)
<1> DEFINE a == l.a
           b == l.b
           first == S!SmallerFirst(a, b)
           isMin == l.field = 0
           other == IF S!IsNan(b) THEN S!F_QNAN ELSE b
           picked == IF first = isMin THEN a ELSE b
<1>1. /\ Ref!Nan(a) <=> S!IsNan(a)
      /\ Ref!Nan(b) <=> S!IsNan(b)
      /\ Ref!Signalling(a) <=> S!IsSigNan(a)
      /\ Ref!Signalling(b) <=> S!IsSigNan(b)
      /\ Ref!QuietNan = S!F_QNAN
  BY RefAgrees
<1>2. l.r = CASE S!IsSigNan(a) \/ S!IsSigNan(b) -> S!Invalid
              [] S!IsNan(a) /\ ~S!IsSigNan(a) /\ ~S!IsSigNan(b) -> S!Res(other, {})
              [] S!IsNan(b) /\ ~S!IsNan(a) /\ ~S!IsSigNan(b) -> S!Res(a, {})
              [] OTHER -> S!Res(picked, {})
  BY Zenon DEF S!MinMaxSf
<1>3. first \in BOOLEAN /\ isMin \in BOOLEAN
  BY Sizes, S!SmallerFirstExact
<1>4. /\ first => ~Below(b, a)
      /\ ~first => ~Below(a, b)
      /\ ~Below(a, a) /\ ~Below(b, b)
  BY Sizes, S!SmallerFirstExact, OrdersAgree
<1>5. picked \in {a, b} /\ \A x \in {a, b} : IF isMin THEN ~Below(x, picked) ELSE ~Below(picked, x)
  <2> HIDE DEF first, isMin, a, b
  <2>1. CASE first = isMin
    <3>1. picked = a
      BY <2>1
    <3> HIDE DEF picked
    <3> QED BY <1>3, <1>4, <2>1, <3>1
  <2>2. CASE first # isMin
    <3>1. picked = b
      BY <2>2
    <3> HIDE DEF picked
    <3> QED BY <1>3, <1>4, <2>2, <3>1
  <2> QED BY <2>1, <2>2
<1>6. /\ S!IsSigNan(a) => S!IsNan(a)
      /\ S!IsSigNan(b) => S!IsNan(b)
  BY DEF S!IsSigNan
<1> HIDE DEF picked, other, isMin
<1>7. CASE S!IsSigNan(a) \/ S!IsSigNan(b)
  <2>1. l.r = S!Invalid
    BY <1>2, <1>6, <1>7
  <2>2. l.r.v = S!F_QNAN /\ l.r.fl = {"NV"}
    BY <2>1 DEF S!Invalid, S!Res
  <2> QED BY <1>1, <1>6, <1>7, <2>2 DEF PicksInOrder, AnySignal, AnyNan
<1>8. CASE ~(S!IsSigNan(a) \/ S!IsSigNan(b)) /\ S!IsNan(a)
  <2>1. l.r = S!Res(other, {})
    BY <1>2, <1>8
  <2>2. l.r.v = other /\ l.r.fl = {}
    BY <2>1 DEF S!Res
  <2> QED BY <1>1, <1>8, <2>2 DEF PicksInOrder, AnySignal, AnyNan, other
<1>9. CASE ~(S!IsSigNan(a) \/ S!IsSigNan(b)) /\ ~S!IsNan(a) /\ S!IsNan(b)
  <2>1. l.r = S!Res(a, {})
    BY <1>2, <1>9
  <2>2. l.r.v = a /\ l.r.fl = {}
    BY <2>1 DEF S!Res
  <2> QED BY <1>1, <1>9, <2>2 DEF PicksInOrder, AnySignal, AnyNan
<1>10. CASE ~(S!IsNan(a) \/ S!IsNan(b))
  <2>1. l.r = S!Res(picked, {})
    BY <1>2, <1>6, <1>10
  <2>2. l.r.v = picked /\ l.r.fl = {}
    BY <2>1 DEF S!Res
  <2>3. ~AnySignal(l) /\ ~AnyNan(l) /\ ~Ref!Nan(a) /\ ~Ref!Nan(b)
    BY <1>1, <1>6, <1>10 DEF AnySignal, AnyNan
  <2> QED BY <1>5, <2>2, <2>3 DEF PicksInOrder, isMin
<1> QED BY <1>7, <1>8, <1>9, <1>10

\* What an executed instruction notes keeps the order.
LEMMA ExecutedOrders ==
    ASSUME TypeOK, NEW i, WellFormed(i), Legal(i), Executed(i)
    PROVE  OrderKept'
<1> DEFINE a == Arg(i.fmt, i.rs1)
           b == Arg(i.fmt, i.rs2)
           Noted(x, y, z, r) ==
               [op |-> i.op, fmt |-> i.fmt, rm |-> InsnRm(i), sel |-> i.rs2,
                field |-> i.rm, a |-> x, b |-> y, c |-> z, r |-> r]
           Other == last'.op \notin {"cmp", "minmax"}
<1>1. Other => OrderKept'
  BY DEF OrderKept
<1>2. Arith(i) \/ Fused(i) \/ ToInteger(i) \/ FromInteger(i) \/ Convert(i) => Other
  BY DEF Arith, Fused, ToInteger, FromInteger, Convert, Note
<1>3. SignInject(i) \/ MoveOut(i) \/ MoveIn(i) \/ FpLoad(i) \/ CsrWrite(i) \/ SetFs(i) => Other
  BY DEF SignInject, MoveOut, MoveIn, FpLoad, CsrWrite, SetFs, None
<1>4. FpStore(i) => Other
  BY DEF FpStore
<1>5. i.fmt = "S" => a \in S!Words /\ b \in S!Words
  BY Operands DEF Words
<1> HIDE DEF Other, a, b
<1>6. ASSUME Compare(i) PROVE OrderKept'
  <2>1. PICK r : /\ r = CASE i.rm = 0 -> IF i.fmt = "S" THEN S!LeSf(a, b) ELSE D!LeSf(a, b)
                           [] i.rm = 1 -> IF i.fmt = "S" THEN S!LtSf(a, b) ELSE D!LtSf(a, b)
                           [] i.rm = 2 -> IF i.fmt = "S" THEN S!EqQuietSf(a, b) ELSE D!EqQuietSf(a, b)
                 /\ last' = Noted(a, b, 0, r) /\ i.op = "cmp"
    BY <1>6, Zenon DEF Compare, Note, a, b
  <2>2. i.rm \in 0..2
    BY <2>1 DEF Legal
  <2>3. i.fmt = "S" => /\ i.rm = 0 => r = S!LeSf(a, b)
                       /\ i.rm = 1 => r = S!LtSf(a, b)
                       /\ i.rm = 2 => r = S!EqQuietSf(a, b)
    BY <2>1
  <2>4. PICK l : l = last'
    OBVIOUS
  <2>5. l.a = a /\ l.b = b /\ l.field = i.rm /\ l.r = r /\ l.op = "cmp" /\ l.fmt = i.fmt
    BY <2>1, <2>4
  <2>6. i.fmt = "S" => ComparesInOrder(l)
    BY <1>5, <2>2, <2>3, <2>5, CompareOrders
  <2>7. (l.op = "cmp" /\ l.fmt = "S" => ComparesInOrder(l)) /\ l.op # "minmax"
    BY <2>5, <2>6
  <2> QED BY <2>4, <2>7, Zenon DEF OrderKept, ComparesInOrder, AnyNan, AnySignal
<1>7. ASSUME MinMax(i) PROVE OrderKept'
  <2>1. PICK r : /\ r = IF i.fmt = "S" THEN S!MinMaxSf(a, b, i.rm = 0) ELSE D!MinMaxSf(a, b, i.rm = 0)
                 /\ last' = Noted(a, b, 0, r) /\ i.op = "minmax"
    BY <1>7, Zenon DEF MinMax, Note, a, b
  <2>2. i.fmt = "S" => r = S!MinMaxSf(a, b, i.rm = 0)
    BY <2>1
  <2>4. PICK l : l = last'
    OBVIOUS
  <2>5. l.a = a /\ l.b = b /\ l.field = i.rm /\ l.r = r /\ l.op = "minmax" /\ l.fmt = i.fmt
    BY <2>1, <2>4
  <2>6. i.fmt = "S" => PicksInOrder(l)
    BY <1>5, <2>2, <2>5, MinMaxOrders
  <2>7. (l.op = "minmax" /\ l.fmt = "S" => PicksInOrder(l)) /\ l.op # "cmp"
    BY <2>5, <2>6
  <2> QED BY <2>4, <2>7, Zenon DEF OrderKept, PicksInOrder, AnyNan, AnySignal
<1> QED BY <1>1, <1>2, <1>3, <1>4, <1>6, <1>7, Zenon DEF Executed

\* Comparisons, minimum and maximum of singles order the values, with the flags and the
\* NaNs of the code's version of the standard, for formats of every size.
THEOREM OrderIsKept == Spec => []OrderKept
<1>1. Init => OrderKept
  BY DEF Init, OrderKept, None
<1>2. IInv /\ OrderKept /\ [Next]_vars => OrderKept'
  <2> SUFFICES ASSUME IInv, OrderKept, [Next]_vars PROVE OrderKept'
    OBVIOUS
  <2>1. ASSUME UNCHANGED vars PROVE OrderKept'
    <3>1. last' = last
      BY <2>1 DEF vars
    <3> QED BY <3>1, Zenon DEF OrderKept, ComparesInOrder, PicksInOrder, AnyNan, AnySignal
  <2>2. ASSUME Next PROVE OrderKept'
    <3>1. PICK i : WellFormed(i) /\ (Illegal(i) \/ (Legal(i) /\ Executed(i)))
      BY <2>2, StepCases DEF Next, IInv
    <3>2. Illegal(i) => OrderKept'
      BY DEF Illegal, OrderKept
    <3> QED BY <3>1, <3>2, ExecutedOrders DEF IInv
  <2> QED BY <2>1, <2>2
<1> QED BY InitIInv, NextIInv, <1>1, <1>2, PTL DEF Spec
=============================================================================
