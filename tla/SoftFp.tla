------------------------------- MODULE SoftFp -------------------------------
(***************************************************************************)
(* emu/softfp_template.h and softfp_template_icvt.h: IEEE arithmetic on    *)
(* unsigned words, for one format of EXP_SIZE exponent and MANT_SIZE       *)
(* mantissa bits.  An operation returns the word and the flags it raises;  *)
(* the flags are or-ed into fflags by the caller.  RM_RNE .. RM_RMM are    *)
(* 0 .. 4, as in softfp.h.                                                 *)
(***************************************************************************)
EXTENDS Integers, FiniteSets

CONSTANTS EXP_SIZE, MANT_SIZE,
          ICVT_SIZE,    \* bits of the integers converted from and to
          HasULong      \* the host has words of twice the format's size

F_SIZE == EXP_SIZE + MANT_SIZE + 1
EXP_MASK == 2^EXP_SIZE - 1
MANT_MASK == 2^MANT_SIZE - 1
IMANT_SIZE == F_SIZE - 2
RND_SIZE == IMANT_SIZE - MANT_SIZE
BIAS == EXP_MASK \div 2

\* Room for three more bits and a carry, words that have halves where products are
\* made of those, and an infinity that no integer reaches:
\* what the algorithms need of a format (Fpu assumes it of both).
FormatSuits ==
    /\ EXP_SIZE \in Nat /\ EXP_SIZE >= 5 /\ MANT_SIZE \in Nat /\ MANT_SIZE >= 2
    /\ ICVT_SIZE \in Nat \ {0} /\ HasULong \in BOOLEAN
    /\ HasULong \/ F_SIZE % 2 = 0
    /\ EXP_MASK - BIAS - MANT_SIZE > ICVT_SIZE - 1 - MANT_SIZE

RNE == 0
RTZ == 1
RDN == 2
RUP == 3
RMM == 4

Res(v, fl) == [v |-> v, fl |-> fl]
Bit(c) == IF c THEN 1 ELSE 0
Word(a) == a % 2^F_SIZE
\* a | c, for a condition c.
OrBit(a, c) == IF c /\ a % 2 = 0 THEN a + 1 ELSE a

\* Leading zeros of an n-bit word.
Clz(a, n) == Cardinality({i \in 0..(n - 1) : a < 2^i})

Sign(a) == a \div 2^(F_SIZE - 1)
Exp(a) == (a \div 2^MANT_SIZE) % 2^EXP_SIZE
Mant(a) == a % 2^MANT_SIZE
Magnitude(a) == a % 2^(F_SIZE - 1)
Negated(a) == IF Sign(a) = 1 THEN a - 2^(F_SIZE - 1) ELSE a + 2^(F_SIZE - 1)

PackSf(s, e, m) == s * 2^(F_SIZE - 1) + e * 2^MANT_SIZE + Mant(m)
Inf(s) == PackSf(s, EXP_MASK, 0)
F_QNAN == PackSf(0, EXP_MASK, 2^(MANT_SIZE - 1))

IsNan(a) == Exp(a) = EXP_MASK /\ Mant(a) # 0
IsSigNan(a) == IsNan(a) /\ Mant(a) < 2^(MANT_SIZE - 1)
IsInf(a) == Exp(a) = EXP_MASK /\ Mant(a) = 0
IsZero(a) == Magnitude(a) = 0

Invalid == Res(F_QNAN, {"NV"})
QuietOf(args) == Res(F_QNAN, IF \E a \in args : IsSigNan(a) THEN {"NV"} ELSE {})

\* Shift right by d; a lost bit is kept in the last one.
RShiftRnd(a, d) ==
    IF d >= F_SIZE THEN Bit(a # 0)
    ELSE OrBit(a \div 2^d, a % 2^d # 0)

Addend(s, rm) ==
    CASE rm \in {RNE, RMM} -> 2^(RND_SIZE - 1)
      [] rm = RTZ -> 0
      [] OTHER -> IF (s = 1) # (rm = RUP) THEN 2^RND_SIZE - 1 ELSE 0

\* A mantissa without its RND_SIZE low bits, rounded.
Rounded(m, s, rm) ==
    LET r == (m + Addend(s, rm)) \div 2^RND_SIZE IN
    IF rm = RNE /\ m % 2^RND_SIZE = 2^(RND_SIZE - 1) THEN r - (r % 2) ELSE r

\* A plausible bug: what is shifted out of a subnormal is lost.
RoundPackSfWithoutSticky(s, e, m, rm) ==
    LET r == Rounded(IF e <= 0 THEN m \div 2^(1 - e) ELSE m, s, rm)
        re == (IF e <= 0 THEN 1 ELSE e) + (r \div 2^(MANT_SIZE + 1))
    IN  Res(IF r <= MANT_MASK THEN PackSf(s, 0, r)
            ELSE IF re < EXP_MASK THEN PackSf(s, re, r) ELSE Inf(s), {})

\* The top bit of m is bit F_SIZE - 2 (or m is 0).
RoundPackSf(s, e, m, rm) ==
    LET addend == Addend(s, rm)
        isSubnormal == e < 0 \/ (e = 0 /\ m + addend < 2^(F_SIZE - 1))
        shifted == IF e <= 0 THEN RShiftRnd(m, 1 - e) ELSE m
        inexact == shifted % 2^RND_SIZE # 0
        r == Rounded(shifted, s, rm)
        re == (IF e <= 0 THEN 1 ELSE e) + (r \div 2^(MANT_SIZE + 1))
        fl == (IF inexact THEN {"NX"} ELSE {})
                \cup (IF isSubnormal /\ inexact THEN {"UF"} ELSE {})
    IN  CASE r <= MANT_MASK -> Res(PackSf(s, 0, r), fl)
          [] r > MANT_MASK /\ re < EXP_MASK -> Res(PackSf(s, re, r), fl)
          [] OTHER -> Res(IF addend = 0 THEN PackSf(s, EXP_MASK - 1, MANT_MASK)
                                        ELSE Inf(s), {"OF", "NX"} \cup fl)

\* The assertion of normalize_sf and normalize2_sf fails: the program stops.
Abort == Res(0, {"abort"})

NormalizeSf(s, e, m, rm) ==
    LET shift == Clz(m, F_SIZE) - 1 IN
    IF shift < 0 THEN Abort ELSE RoundPackSf(s, e - shift, m * 2^shift, rm)

\* The high half of a double word, with a bit for what the low half holds.
Sticky(m) == OrBit(m \div 2^F_SIZE, m % 2^F_SIZE # 0)

\* The mantissa is a double word.
Normalize2Sf(s, e, m, rm) ==
    LET shift == Clz(m, 2 * F_SIZE) - 1
    IN  IF shift < 0 THEN Abort
        ELSE RoundPackSf(s, e - shift, Sticky(m * 2^shift), rm)

\* Exponent and mantissa with the implicit bit; a subnormal's as they are.
Significand(a) ==
    IF Exp(a) = 0 THEN [e |-> 1, m |-> Mant(a)]
                  ELSE [e |-> Exp(a), m |-> 2^MANT_SIZE + Mant(a)]
\* The same with a subnormal's mantissa shifted up to the implicit bit.
NormalizeSubnormalSf(a) ==
    LET shift == MANT_SIZE - (F_SIZE - 1 - Clz(Mant(a), F_SIZE)) IN
    IF Exp(a) = 0 THEN [e |-> 1 - shift, m |-> Mant(a) * 2^shift]
                  ELSE Significand(a)

AddSf(x, y, rm) ==
    LET swap == Magnitude(x) < Magnitude(y)
        a == IF swap THEN y ELSE x
        b == IF swap THEN x ELSE y
        A == Significand(a)
        B == Significand(b)
        bm == RShiftRnd(B.m * 8, A.e - B.e)
        m == IF Sign(a) = Sign(b) THEN A.m * 8 + bm ELSE A.m * 8 - bm
        s == IF Sign(a) # Sign(b) /\ m = 0 THEN Bit(rm = RDN) ELSE Sign(a)
    IN  CASE IsNan(a) -> QuietOf({a, b})
          [] IsInf(a) -> IF Exp(b) = EXP_MASK /\ Sign(a) # Sign(b)
                         THEN Invalid ELSE Res(a, {})
          [] OTHER -> NormalizeSf(s, A.e + RND_SIZE - 3, m, rm)

SubSf(a, b, rm) == AddSf(a, Negated(b), rm)

(***************************************************************************)
(* Products, quotients and roots of double words: with a type of twice the *)
(* size, or by halves and bit by bit without one.                          *)
(***************************************************************************)
MulU(a, b) ==
    LET H == 2^(F_SIZE \div 2)
        r00 == (a % H) * (b % H)
        r01 == (a % H) * (b \div H)
        r10 == (a \div H) * (b % H)
        r11 == (a \div H) * (b \div H)
        c1 == (r00 \div H) + (r01 % H) + (r10 % H)
        c2 == (c1 \div H) + (r01 \div H) + (r10 \div H) + (r11 % H)
        r3 == ((c2 \div H) + (r11 \div H)) % H
    IN  IF HasULong THEN a * b
        ELSE (r3 * H + (c2 % H)) * 2^F_SIZE + (c1 % H) * H + (r00 % H)

\* [q, r] of the double word a divided by b.
DivremU(a, b) ==
    LET long[i \in 0..F_SIZE] ==
            IF i = 0 THEN [hi |-> a \div 2^F_SIZE, lo |-> Word(a)]
            ELSE LET p == long[i - 1]
                     wide == 2 * p.hi + (p.lo \div 2^(F_SIZE - 1))
                     qb == Bit(wide >= b)
                 IN  [hi |-> Word(wide - qb * b), lo |-> Word(2 * p.lo) + qb]
    IN  IF HasULong THEN [q |-> Word(a \div b), r |-> a % b]
        ELSE [q |-> long[F_SIZE].lo, r |-> long[F_SIZE].hi]

\* The root of the double word a > 0, and whether a is no square.  (The estimates
\* fall until they do not; none of them is 0.)
SqrtremU(a) ==
    LET l == 2 * F_SIZE - Clz(a - 1, 2 * F_SIZE)
        newton[u \in 1..2^F_SIZE] ==
            LET v == (DivremU(a, u).q + u) \div 2 IN IF v \in 1..(u - 1) THEN newton[v] ELSE u
        s == newton[2^((l + 1) \div 2)]
    IN  [s |-> s, inexact |-> MulU(s, s) # a]

MulSf(a, b, rm) ==
    LET s == Bit(Sign(a) # Sign(b))
        A == NormalizeSubnormalSf(a)
        B == NormalizeSubnormalSf(b)
        m == MulU(A.m * 2^RND_SIZE, B.m * 2^(RND_SIZE + 1))
    IN  CASE IsNan(a) \/ IsNan(b) -> QuietOf({a, b})
          [] (IsInf(a) /\ IsZero(b)) \/ (IsInf(b) /\ IsZero(a)) -> Invalid
          [] (IsInf(a) /\ ~IsNan(b) /\ ~IsZero(b)) \/ (IsInf(b) /\ ~IsNan(a) /\ ~IsZero(a))
               -> Res(Inf(s), {})
          [] (IsZero(a) \/ IsZero(b)) /\ EXP_MASK \notin {Exp(a), Exp(b)}
               -> Res(PackSf(s, 0, 0), {})
          [] OTHER -> NormalizeSf(s, A.e + B.e - 2^(EXP_SIZE - 1) + 2, Sticky(m), rm)

\* A double word shifted right by d, as fma_sf shifts its smaller operand.
RShift2(m, d) ==
    CASE d >= 2 * F_SIZE -> Bit(m # 0)
      [] d > F_SIZE /\ d < 2 * F_SIZE -> RShiftRnd(m \div 2^F_SIZE, d - F_SIZE)
      [] OTHER -> OrBit(m \div 2^d, m % 2^d # 0)

\* a * b + c, neither product nor sum special: p and q are the two terms.
FusedSum(p, q, rm) ==
    LET swap == ~(p.e > q.e \/ (p.e = q.e /\ p.m \div 2^F_SIZE >= q.m \div 2^F_SIZE))
        big == IF swap THEN q ELSE p
        small == IF swap THEN p ELSE q
        low == RShift2(small.m, big.e - small.e)
        m == IF p.s = q.s THEN big.m + low ELSE (big.m - low) % 2^(2 * F_SIZE)
        s == IF p.s # q.s /\ m = 0 THEN Bit(rm = RDN) ELSE big.s
    IN  Normalize2Sf(s, big.e, m, rm)

FmaSf(a, b, c, rm) ==
    LET s == Bit(Sign(a) # Sign(b))
        A == NormalizeSubnormalSf(a)
        B == NormalizeSubnormalSf(b)
        C == NormalizeSubnormalSf(c)
        e == A.e + B.e - 2^(EXP_SIZE - 1) + 3
        m == MulU(A.m * 2^RND_SIZE, B.m * 2^RND_SIZE)
        product == IF m < 2^(2 * F_SIZE - 3) THEN [s |-> s, e |-> e - 1, m |-> 2 * m]
                                             ELSE [s |-> s, e |-> e, m |-> m]
        term == [s |-> Sign(c), e |-> C.e + 1, m |-> C.m * 2^(RND_SIZE - 1 + F_SIZE)]
        special == EXP_MASK \in {Exp(a), Exp(b), Exp(c)}
        infProduct == IsInf(a) \/ IsInf(b)
    IN  CASE IsNan(a) \/ IsNan(b) \/ IsNan(c) -> QuietOf({a, b, c})
          [] special /\ ~(IsNan(a) \/ IsNan(b) \/ IsNan(c)) ->
               IF \/ IsInf(a) /\ IsZero(b)
                  \/ IsInf(b) /\ IsZero(a)
                  \/ infProduct /\ IsInf(c) /\ s # Sign(c)
               THEN Invalid
               ELSE Res(Inf(IF IsInf(c) THEN Sign(c) ELSE s), {})
          [] ~special /\ (IsZero(a) \/ IsZero(b)) ->
               IF IsZero(c) THEN Res(PackSf(IF Sign(c) # s THEN Bit(rm = RDN) ELSE s, 0, 0), {})
                            ELSE Res(c, {})
          [] OTHER ->
               IF IsZero(c) THEN NormalizeSf(s, product.e, Sticky(product.m), rm)
                            ELSE FusedSum(product, term, rm)

DivSf(a, b, rm) ==
    LET s == Bit(Sign(a) # Sign(b))
        A == NormalizeSubnormalSf(a)
        B == NormalizeSubnormalSf(b)
        d == DivremU(A.m * 2^F_SIZE, B.m * 4)
    IN  CASE IsNan(a) \/ IsNan(b) -> QuietOf({a, b})
          [] (IsInf(a) /\ IsInf(b)) \/ (IsZero(a) /\ IsZero(b)) -> Invalid
          [] IsInf(a) /\ Exp(b) # EXP_MASK -> Res(Inf(s), {})
          [] (IsInf(b) /\ Exp(a) # EXP_MASK) \/ (IsZero(a) /\ Exp(b) # EXP_MASK /\ ~IsZero(b))
               -> Res(PackSf(s, 0, 0), {})
          [] IsZero(b) /\ Exp(a) # EXP_MASK /\ ~IsZero(a) -> Res(Inf(s), {"DZ"})
          [] OTHER -> NormalizeSf(s, A.e - B.e + 2^(EXP_SIZE - 1) - 1,
                                  OrBit(d.q, d.r # 0), rm)

SqrtSf(a, rm) ==
    LET A == NormalizeSubnormalSf(a)
        e == A.e - BIAS
        m == (IF e % 2 = 1 THEN 2 * A.m ELSE A.m) * 2^(F_SIZE - 4 - MANT_SIZE)
        r == SqrtremU(m * 2^F_SIZE)
    IN  CASE IsNan(a) -> QuietOf({a})
          [] IsZero(a) \/ a = Inf(0) -> Res(a, {})
          [] Sign(a) = 1 /\ ~IsNan(a) /\ ~IsZero(a) -> Invalid
          [] OTHER -> NormalizeSf(0, (e \div 2) + BIAS,
                                  OrBit(r.s, r.inexact), rm)

(***************************************************************************)
(* Comparisons; MinSf and MaxSf differ in the operand they pick.           *)
(***************************************************************************)
SmallerFirst(a, b) ==
    IF Sign(a) # Sign(b) THEN Sign(a) = 1 ELSE (a < b) # (Sign(a) = 1)
MinMaxSf(a, b, isMin) ==
    CASE IsSigNan(a) \/ IsSigNan(b) -> Invalid
      [] IsNan(a) /\ ~IsSigNan(a) /\ ~IsSigNan(b) -> Res(IF IsNan(b) THEN F_QNAN ELSE b, {})
      [] IsNan(b) /\ ~IsNan(a) /\ ~IsSigNan(b) -> Res(a, {})
      [] OTHER -> Res(IF SmallerFirst(a, b) = isMin THEN a ELSE b, {})

EqQuietSf(a, b) ==
    IF IsNan(a) \/ IsNan(b) THEN Res(0, QuietOf({a, b}).fl)
    ELSE Res(Bit((IsZero(a) /\ IsZero(b)) \/ a = b), {})
\* A plausible bug: zeros are ordered by their signs.
LeSfSignedZero(a, b) ==
    IF IsNan(a) \/ IsNan(b) THEN Res(0, {"NV"})
    ELSE Res(Bit(IF Sign(a) # Sign(b) THEN Sign(a) = 1
                 ELSE IF Sign(a) = 1 THEN a >= b ELSE a <= b), {})

LeSf(a, b) ==
    IF IsNan(a) \/ IsNan(b) THEN Res(0, {"NV"})
    ELSE Res(Bit(CASE Sign(a) # Sign(b) -> Sign(a) = 1 \/ (IsZero(a) /\ IsZero(b))
                   [] Sign(a) = Sign(b) -> IF Sign(a) = 1 THEN a >= b ELSE a <= b), {})
LtSf(a, b) ==
    IF IsNan(a) \/ IsNan(b) THEN Res(0, {"NV"})
    ELSE Res(Bit(CASE Sign(a) # Sign(b) -> Sign(a) = 1 /\ ~(IsZero(a) /\ IsZero(b))
                   [] Sign(a) = Sign(b) -> IF Sign(a) = 1 THEN a > b ELSE a < b), {})

\* The bit of fclass's result.
FclassSf(a) ==
    CASE IsNan(a) -> IF IsSigNan(a) THEN 8 ELSE 9
      [] ~IsNan(a) /\ Sign(a) = 1 ->
           CASE IsInf(a) -> 0 [] IsZero(a) -> 3 [] Exp(a) = 0 /\ Mant(a) # 0 -> 2 [] OTHER -> 1
      [] OTHER ->
           CASE IsInf(a) -> 7 [] IsZero(a) -> 4 [] Exp(a) = 0 /\ Mant(a) # 0 -> 5 [] OTHER -> 6

(***************************************************************************)
(* Conversions to and from integers of ICVT_SIZE bits, which are words.    *)
(***************************************************************************)
CvtSfI(a, rm, unsigned) ==
    LET s == IF IsNan(a) THEN 0 ELSE Sign(a)
        A == Significand(a)
        e == A.e - BIAS - MANT_SIZE
        max == IF unsigned THEN (IF s = 1 THEN 0 ELSE 2^ICVT_SIZE - 1)
                           ELSE 2^(ICVT_SIZE - 1) - (1 - s)
        m == RShiftRnd(A.m * 2^RND_SIZE, IF e < 0 THEN -e ELSE 0)
        r == IF e >= 0 THEN A.m * 2^e ELSE Rounded(m, s, rm)
        overflow == (e >= 0 /\ e > ICVT_SIZE - 1 - MANT_SIZE) \/ r > max
    IN  IF overflow THEN Res(max, {"NV"})
        ELSE Res(IF s = 1 THEN (-r) % 2^ICVT_SIZE ELSE r,
                 IF e < 0 /\ m % 2^RND_SIZE # 0 THEN {"NX"} ELSE {})

CvtISf(x, rm, unsigned) ==
    LET s == Bit(~unsigned /\ x >= 2^(ICVT_SIZE - 1))
        r == IF s = 1 THEN 2^ICVT_SIZE - x ELSE x
        l == ICVT_SIZE - Clz(r, ICVT_SIZE) - (F_SIZE - 1)
        m == IF l > 0 THEN OrBit(r \div 2^l, r % 2^l # 0) ELSE r
    IN  NormalizeSf(s, BIAS + F_SIZE - 2 + (IF l > 0 THEN l ELSE 0), m, rm)
=============================================================================
