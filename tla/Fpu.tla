-------------------------------- MODULE Fpu --------------------------------
(***************************************************************************)
(* The floating point instructions of the hart (riscv_cpu_fp_template.h,   *)
(* included for single and double by riscv_cpu_template.h), with fflags,   *)
(* frm and mstatus.FS, on an FLEN of the double's size and an XLEN of the  *)
(* single's.  An instruction is a record of its fields; rm is the funct3   *)
(* field and rs2 also selects a conversion, as in the encoding.            *)
(***************************************************************************)
EXTENDS Integers, Sequences, FiniteSets

CONSTANTS SEXP, SMANT, DEXP, DMANT, XSIZE,
          FRegs, XRegs,
          Starts,      \* [f0, f1, f2, x, frm, fs, program]: the sets to start from
          LoadValues   \* what a load may find in memory

\* The operations of both formats, with the lemmas about them.
S == INSTANCE SoftFpProofs WITH EXP_SIZE <- SEXP, MANT_SIZE <- SMANT, ICVT_SIZE <- XSIZE,
                                HasULong <- FALSE
D == INSTANCE SoftFpProofs WITH EXP_SIZE <- DEXP, MANT_SIZE <- DMANT, ICVT_SIZE <- XSIZE,
                                HasULong <- TRUE
Ref == INSTANCE IeeeRef WITH EXP_SIZE <- SEXP, MANT_SIZE <- SMANT

\* cvt_sf64_sf32 shifts right; the double holds every single as a normal.
ASSUME FormatAssumption == S!FormatSuits /\ D!FormatSuits
ASSUME WidthAssumption == DMANT >= S!F_SIZE - 2 /\ DEXP > SEXP /\ XSIZE = S!F_SIZE

Formats == {"S", "D"}
\* The fields of an instruction name registers, a format and what its operation asks for.
WellFormed(i) ==
    /\ i.fmt \in Formats /\ i.rm \in 0..7
    /\ i.rd \in FRegs \cap XRegs /\ i.rs1 \in FRegs \cap XRegs /\ i.rs2 \in FRegs
    /\ i.op = "fma" => i.rs3 \in FRegs /\ i.negProduct \in BOOLEAN /\ i.negTerm \in BOOLEAN
    /\ i.op = "csr" => i.flags \subseteq {"NV", "DZ", "OF", "UF", "NX"}
    /\ i.op = "setfs" => i.rm \in 0..3
Instructions(st) == UNION {{p[k] : k \in DOMAIN p} : p \in st.program}
ASSUME StartsAssumption ==
    /\ 0 \in XRegs /\ LoadValues \subseteq Nat
    /\ \A st \in Starts :
           /\ st.f0 \cup st.f1 \cup st.f2 \subseteq 0..(2^D!F_SIZE - 1)
           /\ st.x \subseteq 0..(2^XSIZE - 1) /\ st.frm \subseteq 0..4 /\ st.fs \subseteq 0..3
           /\ st.program \subseteq Seq(Instructions(st))
           /\ \A i \in Instructions(st) : WellFormed(i)

VARIABLES fp_reg, reg, fflags, frm, fs,
          program,    \* the instructions still to execute
          last,       \* the last instruction, its operands and its result
          saved       \* the context when fs was last written as initial or clean
vars == <<fp_reg, reg, fflags, frm, fs, program, last, saved>>

Size(fmt) == IF fmt = "S" THEN S!F_SIZE ELSE D!F_SIZE
\* F32_HIGH and F64_HIGH: the bits above a value.
High(fmt) == IF fmt = "S" THEN 2^D!F_SIZE - 2^S!F_SIZE ELSE 0
\* A register as a parameter of the format's type.
Arg(fmt, r) == fp_reg[r] % 2^Size(fmt)

Context == [fp |-> fp_reg, frm |-> frm]
None == [op |-> "none"]

TypeOK ==
    /\ fp_reg \in [FRegs -> 0..(2^D!F_SIZE - 1)]
    /\ reg \in [XRegs -> 0..(2^XSIZE - 1)] /\ reg[0] = 0
    /\ fflags \subseteq {"NV", "DZ", "OF", "UF", "NX"}
    /\ frm \in 0..4 /\ fs \in 0..3

\* The first three registers hold what a start chooses; x is register 1.
Init ==
    \E st \in Starts :
        /\ \E a \in st.f0, b \in st.f1, c \in st.f2 :
               fp_reg = [r \in FRegs |-> CASE r = 0 -> a [] r = 1 -> b [] OTHER -> c]
        /\ \E v \in st.x : reg = [r \in XRegs |-> IF r = 0 THEN 0 ELSE v]
        /\ frm \in st.frm /\ fs \in st.fs /\ program \in st.program
        /\ fflags = {} /\ last = None
        /\ saved = Context

\* get_insn_rm: 7 is the rounding mode of frm, 5 and 6 are no rounding modes.
InsnRm(i) == CASE i.rm = 7 -> frm [] i.rm \in {5, 6} -> -1 [] OTHER -> i.rm

\* Everything else is an illegal instruction, and so is all of it with fs off.
Legal(i) ==
    \/ i.op = "setfs"
    \/ /\ fs # 0
       /\ CASE i.op \in {"add", "sub", "mul", "div", "fma"} -> InsnRm(i) >= 0
            [] i.op = "sqrt" -> InsnRm(i) >= 0 /\ i.rs2 = 0
            [] i.op \in {"sgnj", "cmp"} -> i.rm \in 0..2
            [] i.op = "minmax" -> i.rm \in {0, 1}
            [] i.op \in {"toint", "fromint"} -> InsnRm(i) >= 0 /\ i.rs2 \in {0, 1}
            [] i.op = "cvt" -> InsnRm(i) >= 0 /\ i.rs2 = IF i.fmt = "S" THEN 1 ELSE 0
            [] i.op = "mvout" -> i.rs2 = 0 /\ ((i.rm = 0 /\ i.fmt = "S") \/ i.rm = 1)
            [] i.op = "mvin" -> i.rs2 = 0 /\ i.rm = 0 /\ i.fmt = "S"
            [] i.op \in {"load", "store", "csr"} -> TRUE

Unboxed(fmt, v) == v % 2^Size(fmt)
\* A plausible bug: a result that leaves fs as it is.
SetFClean(i, r) ==
    /\ fp_reg' = [fp_reg EXCEPT ![i.rd] = High(i.fmt) + r.v]
    /\ fflags' = fflags \cup r.fl
    /\ UNCHANGED <<reg, frm, fs, saved>>

SetF(i, r) ==
    /\ fp_reg' = [fp_reg EXCEPT ![i.rd] = High(i.fmt) + r.v]
    /\ fflags' = fflags \cup r.fl
    /\ fs' = 3
    /\ UNCHANGED <<reg, frm, saved>>
SetX(i, r) ==
    /\ reg' = IF i.rd = 0 THEN reg ELSE [reg EXCEPT ![i.rd] = r.v]
    /\ fflags' = fflags \cup r.fl
    /\ UNCHANGED <<fp_reg, frm, fs, saved>>
\* What the properties say something about: the operation and its operands.
Note(i, a, b, c, r) ==
    last' = [op |-> i.op, fmt |-> i.fmt, rm |-> InsnRm(i), sel |-> i.rs2,
             field |-> i.rm, a |-> a, b |-> b, c |-> c, r |-> r]

Computed(i, a, b, rm) ==
    CASE i.op = "add" -> IF i.fmt = "S" THEN S!AddSf(a, b, rm) ELSE D!AddSf(a, b, rm)
      [] i.op = "sub" -> IF i.fmt = "S" THEN S!SubSf(a, b, rm) ELSE D!SubSf(a, b, rm)
      [] i.op = "mul" -> IF i.fmt = "S" THEN S!MulSf(a, b, rm) ELSE D!MulSf(a, b, rm)
      [] i.op = "div" -> IF i.fmt = "S" THEN S!DivSf(a, b, rm) ELSE D!DivSf(a, b, rm)
      [] i.op = "sqrt" -> IF i.fmt = "S" THEN S!SqrtSf(a, rm) ELSE D!SqrtSf(a, rm)
Arith(i) ==
    /\ i.op \in {"add", "sub", "mul", "div", "sqrt"}
    /\ LET a == Arg(i.fmt, i.rs1)
           b == Arg(i.fmt, i.rs2)
           r == Computed(i, a, b, InsnRm(i))
       IN  SetF(i, r) /\ Note(i, a, b, 0, r)

\* fmadd, fmsub, fnmsub, fnmadd: neg says which of product and term change sign.
Neg(fmt, a) == IF fmt = "S" THEN S!Negated(a) ELSE D!Negated(a)
Fused(i) ==
    /\ i.op = "fma"
    /\ LET a == IF i.negProduct THEN Neg(i.fmt, Arg(i.fmt, i.rs1)) ELSE Arg(i.fmt, i.rs1)
           b == Arg(i.fmt, i.rs2)
           c == IF i.negTerm THEN Neg(i.fmt, Arg(i.fmt, i.rs3)) ELSE Arg(i.fmt, i.rs3)
           r == IF i.fmt = "S" THEN S!FmaSf(a, b, c, InsnRm(i)) ELSE D!FmaSf(a, b, c, InsnRm(i))
       IN  SetF(i, r) /\ Note(i, a, b, c, r)

\* The exclusive or of two numbers of n bits; low has their k lowest.
Xor(a, b, n) ==
    LET bit(k) == IF (a \div 2^k) % 2 # (b \div 2^k) % 2 THEN 2^k ELSE 0
        low[k \in 0..n] == IF k = 0 THEN 0 ELSE low[k - 1] + bit(k - 1)
    IN  low[n]

\* FSIGN_MASK32 is a negative int: as a double word it has every bit from the
\* single's sign up.
SignInject(i) ==
    /\ i.op = "sgnj"
    /\ LET half == 2^(Size(i.fmt) - 1)
           bits == D!F_SIZE - Size(i.fmt) + 1
           h1 == fp_reg[i.rs1] \div half
           h2 == fp_reg[i.rs2] \div half
           h == CASE i.rm = 0 -> h2
                  [] i.rm = 1 -> 2^bits - 1 - h2
                  [] i.rm = 2 -> Xor(h1, h2, bits)
       IN  fp_reg' = [fp_reg EXCEPT ![i.rd] = h * half + (fp_reg[i.rs1] % half)]
    /\ fs' = 3 /\ last' = None
    /\ UNCHANGED <<reg, fflags, frm, saved>>

MinMax(i) ==
    /\ i.op = "minmax"
    /\ LET a == Arg(i.fmt, i.rs1)
           b == Arg(i.fmt, i.rs2)
           r == IF i.fmt = "S" THEN S!MinMaxSf(a, b, i.rm = 0) ELSE D!MinMaxSf(a, b, i.rm = 0)
       IN  SetF(i, r) /\ Note(i, a, b, 0, r)

Compare(i) ==
    /\ i.op = "cmp"
    /\ LET a == Arg(i.fmt, i.rs1)
           b == Arg(i.fmt, i.rs2)
           r == CASE i.rm = 0 -> IF i.fmt = "S" THEN S!LeSf(a, b) ELSE D!LeSf(a, b)
                  [] i.rm = 1 -> IF i.fmt = "S" THEN S!LtSf(a, b) ELSE D!LtSf(a, b)
                  [] i.rm = 2 -> IF i.fmt = "S" THEN S!EqQuietSf(a, b) ELSE D!EqQuietSf(a, b)
       IN  SetX(i, r) /\ Note(i, a, b, 0, r)

\* fcvt.w and fcvt.wu, fcvt.s.w and fcvt.s.wu: rs2 says which.
ToInteger(i) ==
    /\ i.op = "toint"
    /\ LET a == Arg(i.fmt, i.rs1)
           r == IF i.fmt = "S" THEN S!CvtSfI(a, InsnRm(i), i.rs2 = 1)
                               ELSE D!CvtSfI(a, InsnRm(i), i.rs2 = 1)
       IN  SetX(i, r) /\ Note(i, a, 0, 0, r)
FromInteger(i) ==
    /\ i.op = "fromint"
    /\ LET x == reg[i.rs1]
           r == IF i.fmt = "S" THEN S!CvtISf(x, InsnRm(i), i.rs2 = 1)
                               ELSE D!CvtISf(x, InsnRm(i), i.rs2 = 1)
       IN  SetF(i, r) /\ Note(i, x, 0, 0, r)

\* cvt_sf32_sf64: exact, the double has room for every exponent.
CvtSD(a) ==
    LET A == S!NormalizeSubnormalSf(a) IN
    CASE S!IsNan(a) -> D!Res(D!F_QNAN, S!QuietOf({a}).fl)
      [] S!IsInf(a) -> D!Res(D!Inf(S!Sign(a)), {})
      [] S!IsZero(a) -> D!Res(D!PackSf(S!Sign(a), 0, 0), {})
      [] OTHER -> D!Res(D!PackSf(S!Sign(a), A.e - S!BIAS + D!BIAS,
                                 A.m * 2^(DMANT - SMANT)), {})
\* cvt_sf64_sf32: a subnormal's exponent is adjusted and its mantissa is not.
CvtDS(a, rm) ==
    CASE D!IsNan(a) -> S!Res(S!F_QNAN, D!QuietOf({a}).fl)
      [] D!IsInf(a) -> S!Res(S!Inf(D!Sign(a)), {})
      [] D!IsZero(a) -> S!Res(S!PackSf(D!Sign(a), 0, 0), {})
      [] OTHER -> S!NormalizeSf(D!Sign(a), D!NormalizeSubnormalSf(a).e - D!BIAS + S!BIAS,
                                D!RShiftRnd(D!Significand(a).m, DMANT - (S!F_SIZE - 2)), rm)
Convert(i) ==
    /\ i.op = "cvt"
    /\ LET a == IF i.fmt = "S" THEN fp_reg[i.rs1] ELSE Arg("S", i.rs1)
           r == IF i.fmt = "S" THEN CvtDS(a, InsnRm(i)) ELSE CvtSD(a)
       IN  SetF(i, r) /\ Note(i, a, 0, 0, r)

\* fmv.x.s (singles only: a double is wider than XLEN) and fclass.
MoveOut(i) ==
    /\ i.op = "mvout"
    /\ LET a == Arg(i.fmt, i.rs1)
           r == CASE i.rm = 0 -> a
                  [] i.rm = 1 -> IF i.fmt = "S" THEN S!FclassSf(a) ELSE D!FclassSf(a)
       IN  SetX(i, S!Res(r, {})) /\ last' = None
\* fmv.s.x: the integer, sign extended to the register.
MoveIn(i) ==
    /\ i.op = "mvin"
    /\ LET x == reg[i.rs1]
       IN  fp_reg' = [fp_reg EXCEPT ![i.rd] =
                          IF x >= 2^(XSIZE - 1) THEN x + High("S") ELSE x]
    /\ fs' = 3 /\ last' = None
    /\ UNCHANGED <<reg, fflags, frm, saved>>

\* flw and fld, c.flw and c.fld; nothing changes when the access faults.
FpLoad(i) ==
    /\ i.op = "load"
    /\ \/ \E v \in LoadValues : SetF(i, S!Res(Unboxed(i.fmt, v), {}))
       \/ UNCHANGED <<fp_reg, reg, fflags, frm, fs, saved>>
    /\ last' = None
FpStore(i) ==
    /\ i.op = "store"
    /\ last' = [op |-> "store", v |-> Arg(i.fmt, i.rs2)]
    /\ UNCHANGED <<fp_reg, reg, fflags, frm, fs, saved>>

\* csr_write of frm and fflags; csr_read fails first when fs is off.
CsrWrite(i) ==
    /\ i.op = "csr"
    /\ frm' = CASE i.csr = "fflags" -> frm [] i.csr # "fflags" /\ i.rm >= 5 -> 0 [] OTHER -> i.rm
    /\ fflags' = IF i.csr = "frm" THEN fflags ELSE i.flags
    /\ fs' = 3 /\ last' = None
    /\ UNCHANGED <<fp_reg, reg, saved>>
\* set_mstatus.
SetFs(i) ==
    /\ i.op = "setfs"
    /\ fs' = i.rm
    /\ saved' = IF i.rm \in {1, 2} THEN Context ELSE saved
    /\ last' = None
    /\ UNCHANGED <<fp_reg, reg, fflags, frm>>

Illegal(i) ==
    /\ last' = [op |-> "illegal"]
    /\ UNCHANGED <<fp_reg, reg, fflags, frm, fs, saved>>

Step ==
    /\ program # <<>>
    /\ program' = Tail(program)
    /\ LET i == Head(program) IN
       IF ~Legal(i) THEN Illegal(i)
       ELSE \/ Arith(i) \/ Fused(i) \/ SignInject(i) \/ MinMax(i) \/ Compare(i)
            \/ ToInteger(i) \/ FromInteger(i) \/ Convert(i)
            \/ MoveOut(i) \/ MoveIn(i) \/ FpLoad(i) \/ FpStore(i)
            \/ CsrWrite(i) \/ SetFs(i)
Next == Step
Spec == Init /\ [][Next]_vars

(***************************************************************************)
(* Properties                                                              *)
(***************************************************************************)
\* A finite double's magnitude.
WideValue(a) ==
    [m |-> D!Significand(a).m, x |-> D!Significand(a).e - D!BIAS - DMANT]

\* The result of every arithmetic instruction and conversion is the exact result
\* rounded in the mode the instruction asks for, with the flags that go with it;
\* no assertion of the normalisation fails (round_pack_sf and all its callers).
ResultRounded ==
    LET a == last.a  b == last.b  c == last.c  r == last.r  rm == last.rm IN
    CASE last.op \in {"add", "sub", "mul", "div", "sqrt", "fma", "toint", "fromint"}
           /\ last.fmt = "S" ->
          (CASE last.op = "add" -> Ref!IsFused(r, a, S!PackSf(0, S!BIAS, 0), b, rm)
             [] last.op = "sub" -> Ref!IsFused(r, a, S!PackSf(0, S!BIAS, 0), S!Negated(b), rm)
             [] last.op = "mul" -> Ref!IsFused(r, a, b, S!PackSf(S!Bit(S!Sign(a) # S!Sign(b)), 0, 0), rm)
             [] last.op = "div" -> Ref!IsQuotient(r, a, b, rm)
             [] last.op = "sqrt" -> Ref!IsRoot(r, a, rm)
             [] last.op = "fma" -> Ref!IsFused(r, a, b, c, rm)
             [] last.op = "toint" -> Ref!IsInteger(r, a, rm, XSIZE, last.sel = 1)
             [] last.op = "fromint" -> Ref!IsFromInteger(r, a, rm, XSIZE, last.sel = 1))
      [] last.op = "cvt" /\ last.fmt = "S" ->
          (CASE D!IsNan(a) -> r = [v |-> Ref!QuietNan, fl |-> IF D!IsSigNan(a) THEN {"NV"} ELSE {}]
             [] D!IsInf(a) -> Ref!Infinite(r.v) /\ Ref!Negative(r.v) = (D!Sign(a) = 1) /\ r.fl = {}
             [] D!IsZero(a) -> Ref!ExactResult(r, D!Sign(a) = 1, 0)
             [] OTHER -> Ref!IsRounded(r, D!Sign(a) = 1, WideValue(a).m, WideValue(a).x, rm))
      [] last.op = "cvt" /\ last.fmt = "D" ->
          (CASE Ref!Nan(a) -> r = [v |-> D!F_QNAN, fl |-> IF Ref!Signalling(a) THEN {"NV"} ELSE {}]
             [] Ref!Infinite(a) -> r = [v |-> D!Inf(S!Sign(a)), fl |-> {}]
             [] OTHER -> /\ D!Sign(r.v) = S!Sign(a) /\ r.fl = {} /\ ~D!IsNan(r.v) /\ ~D!IsInf(r.v)
                         /\ Ref!SameValue(Ref!Value(a).m, Ref!Value(a).x,
                                          WideValue(r.v).m, WideValue(r.v).x))
      [] OTHER -> TRUE

\* A single as a number; minimum and maximum also put -0 below +0.
Order(x) == IF Ref!Negative(x) THEN -Ref!Abs(x) ELSE Ref!Abs(x)
Below(x, y) == Order(x) < Order(y) \/ (Ref!Zero(x) /\ Ref!Zero(y) /\ Ref!Negative(x) /\ ~Ref!Negative(y))
AnyNan(l) == Ref!Nan(l.a) \/ Ref!Nan(l.b)
AnySignal(l) == Ref!Signalling(l.a) \/ Ref!Signalling(l.b)
\* fle, flt and feq tell how the values are ordered; only feq is quiet.
ComparesInOrder(l) ==
    /\ l.r.v = 1 <=> /\ ~AnyNan(l)
                     /\ \/ l.field = 0 /\ Order(l.a) <= Order(l.b)
                        \/ l.field = 1 /\ Order(l.a) < Order(l.b)
                        \/ l.field = 2 /\ Order(l.a) = Order(l.b)
    /\ l.r.fl = IF AnySignal(l) \/ (AnyNan(l) /\ l.field # 2) THEN {"NV"} ELSE {}
\* fmin and fmax return the operand that is a number, or the smaller or larger of two.
PicksInOrder(l) ==
    /\ l.r.fl = IF AnySignal(l) THEN {"NV"} ELSE {}
    /\ AnySignal(l) \/ (Ref!Nan(l.a) /\ Ref!Nan(l.b)) => l.r.v = Ref!QuietNan
    /\ ~AnySignal(l) /\ Ref!Nan(l.a) /\ ~Ref!Nan(l.b) => l.r.v = l.b
    /\ ~AnySignal(l) /\ ~Ref!Nan(l.a) /\ Ref!Nan(l.b) => l.r.v = l.a
    /\ ~AnyNan(l) =>
           /\ l.r.v \in {l.a, l.b}
           /\ \A x \in {l.a, l.b} : IF l.field = 0 THEN ~Below(x, l.r.v) ELSE ~Below(l.r.v, x)

\* Comparisons, minimum and maximum order the values, and treat a NaN as the code's
\* version of the standard does (softfp_template.h, "comparisons").
OrderKept ==
    /\ last.op = "cmp" /\ last.fmt = "S" => ComparesInOrder(last)
    /\ last.op = "minmax" /\ last.fmt = "S" => PicksInOrder(last)

\* While fs says initial or clean, the registers and the rounding mode are those
\* that were saved when it was set: a kernel that saves the context only when fs is
\* dirty loses none of them (fs = 3 in every instruction that writes a register).
ContextSaved == fs \in {1, 2} => Context = saved
=============================================================================
