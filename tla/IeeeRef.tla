------------------------------ MODULE IeeeRef ------------------------------
(***************************************************************************)
(* What an IEEE operation promises, stated on exact values: the result is  *)
(* the exact value rounded as if the exponent had no bounds, overflowing   *)
(* or rounded again at the smallest step the format has.  A value is       *)
(* m * 2^x; where something smaller than its last bit is left out, that    *)
(* bit is set, and lies far below what the rounding looks at.              *)
(***************************************************************************)
EXTENDS Integers, FiniteSets

CONSTANTS EXP_SIZE, MANT_SIZE

Emax == 2^EXP_SIZE - 1
Bias == Emax \div 2
Top == 2^(EXP_SIZE + MANT_SIZE)
INF == Emax * 2^MANT_SIZE

Negative(a) == a >= Top
Abs(a) == a % Top
Nan(a) == Abs(a) > INF
Signalling(a) == Nan(a) /\ (a % 2^MANT_SIZE) < 2^(MANT_SIZE - 1)
Infinite(a) == Abs(a) = INF
Zero(a) == Abs(a) = 0
Finite(a) == Abs(a) < INF
QuietNan == INF + 2^(MANT_SIZE - 1)

\* A finite number's magnitude.
Value(a) ==
    LET e == Abs(a) \div 2^MANT_SIZE
        m == Abs(a) % 2^MANT_SIZE
    IN  [m |-> IF e = 0 THEN m ELSE 2^MANT_SIZE + m,
         x |-> (IF e = 0 THEN 1 ELSE e) - Bias - MANT_SIZE]
MinX == 1 - Bias - MANT_SIZE

Bits(m) == CHOOSE n \in 0..30 : (n = 0 \/ 2^(n - 1) <= m) /\ m < 2^n
\* The product m * 2^n, for comparisons: of m < 2^28 nothing is left out.
Pow(n) == 2^(IF n > 29 THEN 29 ELSE IF n < 0 THEN 0 ELSE n)
\* m * 2^x = n * 2^y, and m * 2^x < 2^y.
SameValue(m, x, n, y) ==
    IF m = 0 \/ n = 0 THEN m = n
    ELSE /\ Bits(m) + x = Bits(n) + y
         /\ IF x >= y THEN m * Pow(x - y) = n ELSE m = n * Pow(y - x)
Less(m, x, y) == m = 0 \/ Bits(m) + x <= y

\* m rounded to a multiple of ulp.
RoundTo(m, ulp, neg, rm) ==
    LET low == m % ulp
        up == CASE rm = 0 -> low > ulp - low \/ (low = ulp - low /\ (m \div ulp) % 2 = 1)
                [] rm = 1 -> FALSE
                [] rm = 2 -> neg
                [] rm = 3 -> ~neg
                [] rm = 4 -> low >= ulp - low
    IN  IF low # 0 /\ up THEN m - low + ulp ELSE m - low

\* The word and the flags of m * 2^x rounded; the sign of a zero is neg.
IsRounded(r, neg, m, x, rm) ==
    LET free == Pow(Bits(m) - MANT_SIZE - 1)
        step == Pow(MinX - x)
        wide == RoundTo(m, free, neg, rm)
        near == RoundTo(m, IF free > step THEN free ELSE step, neg, rm)
        overflow == ~Less(near, x, Emax - Bias)
        toInf == rm \in {0, 4} \/ (rm = 2 /\ neg) \/ (rm = 3 /\ ~neg)
    IN  /\ Negative(r.v) = neg
        /\ IF overflow
           THEN /\ Abs(r.v) = IF toInf THEN INF ELSE INF - 1
                /\ r.fl = {"OF", "NX"}
           ELSE /\ Finite(r.v)
                /\ SameValue(Value(r.v).m, Value(r.v).x, near, x)
                /\ r.fl = CASE near = m -> {}
                            [] near # m /\ Less(wide, x, 1 - Bias) -> {"NX", "UF"}
                            [] OTHER -> {"NX"}

NanResult(r, args) ==
    r.v = QuietNan /\ r.fl = IF \E a \in args : Signalling(a) THEN {"NV"} ELSE {}
InvalidResult(r) == r.v = QuietNan /\ r.fl = {"NV"}
ExactResult(r, neg, abs) == Negative(r.v) = neg /\ Abs(r.v) = abs /\ r.fl = {}

\* The sum of two values of one or of opposite signs, as a signed m and an x.
Sum(p, q, same) ==
    LET near == p.x - q.x \in -16..16
        low == IF p.x < q.x THEN p.x ELSE q.x
        sign == IF same THEN 1 ELSE -1
    IN  CASE near -> [m |-> p.m * Pow(p.x - low) + sign * q.m * Pow(q.x - low), x |-> low]
          [] ~near /\ p.x > q.x -> [m |-> p.m * 2^16 + sign, x |-> p.x - 16]
          [] OTHER -> [m |-> sign * q.m * 2^16 + 1, x |-> q.x - 16]

\* a * b + c; a sum has b = 1, a product has a zero of its sign as c.
IsFused(r, a, b, c, rm) ==
    LET neg == Negative(a) # Negative(b)
        p == [m |-> Value(a).m * Value(b).m, x |-> Value(a).x + Value(b).x]
        q == Value(c)
        s == CASE q.m = 0 -> p
               [] p.m = 0 /\ q.m # 0 -> [q EXCEPT !.m = IF Negative(c) = neg THEN q.m ELSE -q.m]
               [] OTHER -> Sum(p, q, Negative(c) = neg)
        infinite == Infinite(a) \/ Infinite(b)
    IN  CASE Nan(a) \/ Nan(b) \/ Nan(c) -> NanResult(r, {a, b, c})
          [] ~(Nan(a) \/ Nan(b) \/ Nan(c)) /\ infinite ->
               IF Zero(a) \/ Zero(b) \/ (Infinite(c) /\ Negative(c) # neg)
               THEN InvalidResult(r) ELSE ExactResult(r, neg, INF)
          [] Infinite(c) /\ Finite(a) /\ Finite(b) -> ExactResult(r, Negative(c), INF)
          [] OTHER ->
               IF s.m = 0 THEN ExactResult(r, IF Negative(c) = neg THEN neg ELSE rm = 2, 0)
               ELSE IsRounded(r, neg # (s.m < 0), IF s.m < 0 THEN -s.m ELSE s.m, s.x, rm)

IsQuotient(r, a, b, rm) ==
    LET neg == Negative(a) # Negative(b)
        n == Value(a).m * 2^8
        d == Value(b).m
    IN  CASE Nan(a) \/ Nan(b) -> NanResult(r, {a, b})
          [] (Infinite(a) /\ Infinite(b)) \/ (Zero(a) /\ Zero(b)) -> InvalidResult(r)
          [] Infinite(a) /\ Finite(b) -> ExactResult(r, neg, INF)
          [] Zero(b) /\ ~Zero(a) /\ Finite(a) ->
               Negative(r.v) = neg /\ Infinite(r.v) /\ r.fl = {"DZ"}
          [] OTHER ->
               IF Zero(a) \/ Infinite(b) THEN ExactResult(r, neg, 0)
               ELSE IsRounded(r, neg, 2 * (n \div d) + (IF n % d = 0 THEN 0 ELSE 1),
                              Value(a).x - Value(b).x - 9, rm)

IsRoot(r, a, rm) ==
    LET x == Value(a).x
        n == Value(a).m * 2^(16 + (x % 2))
        s == CHOOSE i \in 0..2^((Bits(n) + 1) \div 2) : i * i <= n /\ (i + 1) * (i + 1) > n
    IN  CASE Nan(a) -> NanResult(r, {a})
          [] Zero(a) -> r = [v |-> a, fl |-> {}]
          [] Negative(a) /\ ~Nan(a) /\ ~Zero(a) -> InvalidResult(r)
          [] OTHER -> IF Infinite(a) THEN ExactResult(r, FALSE, INF)
                      ELSE IsRounded(r, FALSE, 2 * s + (IF s * s = n THEN 0 ELSE 1),
                                     ((x - (x % 2) - 16) \div 2) - 1, rm)

\* An integer of n bits: the value rounded to the units, saturated.
IsInteger(r, a, rm, n, unsigned) ==
    LET neg == Negative(a) /\ ~Nan(a)
        x == Value(a).x
        v == IF x >= 0 THEN Value(a).m * Pow(IF x > 16 THEN 16 ELSE x)
             ELSE RoundTo(Value(a).m, Pow(-x), neg, rm) \div Pow(-x)
        exact == x >= 0 \/ Value(a).m % Pow(-x) = 0
        max == IF unsigned THEN (IF neg THEN 0 ELSE 2^n - 1)
                           ELSE (IF neg THEN 2^(n - 1) ELSE 2^(n - 1) - 1)
    IN  IF ~Finite(a) \/ v > max
        THEN r = [v |-> max, fl |-> {"NV"}]
        ELSE r = [v |-> IF neg THEN (-v) % 2^n ELSE v, fl |-> IF exact THEN {} ELSE {"NX"}]

IsFromInteger(r, v, rm, n, unsigned) ==
    LET neg == ~unsigned /\ v >= 2^(n - 1)
        m == IF neg THEN 2^n - v ELSE v
    IN  IF m = 0 THEN ExactResult(r, FALSE, 0) ELSE IsRounded(r, neg, m, 0, rm)
=============================================================================
