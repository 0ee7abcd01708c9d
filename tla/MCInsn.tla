------------------------------- MODULE MCInsn -------------------------------
(***************************************************************************)
(* The instructions of the hart: a run takes a floating point program or   *)
(* one integer instruction from the sets below.                            *)
(***************************************************************************)
EXTENDS Fpu, TLC

CONSTANT XLEN

VARIABLES unit, ireg, pc, fetched, trap, done
intVars == <<ireg, pc, fetched, trap, done>>

-----------------------------------------------------------------------------
(* Floating point: one instruction on every operand, and programs of three *)
(* on chosen ones.                                                         *)

Insn(op, fmt, rm, rs2) ==
    [op |-> op, fmt |-> fmt, rm |-> rm, rd |-> 1, rs1 |-> 0, rs2 |-> rs2]
Fma(rm, np, nt) ==
    [op |-> "fma", fmt |-> "S", rm |-> rm, rd |-> 0, rs1 |-> 0, rs2 |-> 1, rs3 |-> 2,
     negProduct |-> np, negTerm |-> nt]
MCFRegs == 0..2
MCXRegs == {0, 1}
Start(a, b, c, x, p) ==
    [f0 |-> a, f1 |-> b, f2 |-> c, x |-> x, frm |-> {2}, fs |-> {1}, program |-> p]
H == High("S")
\* Zero, subnormals, the powers of two and their neighbours, infinity, NaNs; both signs.
Some == {0, 1, 3, 7, 8, 9, 15, 41, 55, 56, 57, 63, 71, 100, 119, 120, 121, 124}
Both == Some \cup {a + 128 : a \in Some}
Few == {0, 1, 9, 56, 63, 119, 120, 121} \cup {129, 136, 184, 247}

Boxed(A) == {H + a : a \in A}
One(ops, fmts, rms, sels) ==
    {<<Insn(op, fmt, rm, rs2)>> : op \in ops, fmt \in fmts, rm \in rms, rs2 \in sels}

Binary == Start(Boxed(0..255), Boxed(Both), {0}, {0},
                One({"add", "sub", "mul", "div"}, {"S"}, 0..4, {1}))
Orders == Start(Boxed(0..255), Boxed(Both), {0}, {0}, One({"minmax", "cmp"}, {"S"}, 0..2, {1}))
Ternary == Start(Boxed(Both), Boxed(Few), Boxed(Both), {0},
                 {<<Fma(rm, FALSE, TRUE)>> : rm \in 0..4})
Unary == Start(Boxed(0..255), {0}, {0}, {0},
               One({"sqrt", "toint", "mvout", "cvt"}, {"S", "D"}, 0..5, {0, 1}))
FromInts == Start({0}, {0}, {0}, 0..255,
                  {<<[Insn("fromint", fmt, rm, rs2) EXCEPT !.rs1 = 1]>> :
                      fmt \in {"S", "D"}, rm \in 0..4, rs2 \in 0..1})
Narrow == Start(0..(2^D!F_SIZE - 1), {0}, {0}, {0}, One({"cvt"}, {"S"}, 0..4, {1}))

Mixed ==
    {Insn("add", "S", 7, 1), Insn("sub", "D", 0, 1), Insn("add", "S", 5, 1),
     Insn("sgnj", "S", 1, 0), Insn("sgnj", "D", 2, 0), Insn("mvin", "S", 0, 0),
     Insn("minmax", "D", 0, 1), Insn("cmp", "D", 1, 1), Insn("load", "S", 0, 0),
     Insn("load", "D", 0, 0), Insn("store", "S", 0, 1), Insn("cvt", "D", 0, 0),
     Insn("sqrt", "S", 0, 1), Insn("mvout", "S", 0, 0),
     Insn("csr", "S", 3, 0) @@ ("csr" :> "fcsr") @@ ("flags" :> {"NX"}),
     Insn("csr", "S", 6, 0) @@ ("csr" :> "frm") @@ ("flags" :> {})}
    \cup {Insn("setfs", "S", f, 0) : f \in 0..3}
Programs ==
    [Start({H + 9}, {H + 57}, {0}, {200}, {<<i, j, k>> : i \in Mixed, j \in Mixed, k \in Mixed})
        EXCEPT !.fs = 0..2]
MCStarts == {Binary, Orders, Ternary, Unary, FromInts, Narrow, Programs}
MCLoadValues == {0, 2^(D!F_SIZE) - 9, 300}

-----------------------------------------------------------------------------
(* Integers: every word that is no 32-bit instruction; every operation on  *)
(* every first operand.                                                    *)

Whole(op, f3, f7, rd, rs1, rs2, imm) ==
    [c |-> "none", op |-> op, f3 |-> f3, f7 |-> f7, rd |-> rd, rs1 |-> rs1, rs2 |-> rs2,
     imm |-> imm, len |-> 4]
From(a, b, insns) == [ra |-> 5, rb |-> 6, a |-> a, b |-> b, pc |-> 100, insns |-> insns]

Words == {[len |-> 2, word |-> w] : w \in {v \in 0..(2^16 - 1) : v % 4 # 3}}
Edge == {0, 1, 2, 3, 7, 8, 15, 16, 100, 127, 128, 129, 200, 254, 255}
Every == 0..(2^XLEN - 1)
Ops == {Whole("op", f3, f7, rd, 5, 6, 0) : f3 \in 0..7, f7 \in {0, 1, 32}, rd \in {0, 5, 7}}
Imms == {Whole("opimm", f3, f7, 7, 5, 0, imm) :
           f3 \in 0..7, f7 \in {0, 32}, imm \in {-2048, -1, 0, 1, 5, 7, 8, 2047}}
Others ==
    {Whole(op, f3, 0, rd, rs1, 6, imm) :
        op \in {"lui", "auipc", "jal", "branch"}, f3 \in 0..7,
        rd \in {0, 1, 5}, rs1 \in {1, 5}, imm \in {-4096, -2, 0, 16, 4096}}
    \cup {Whole(op, f3, 0, rd, rs1, 6, imm) :
             op \in {"jalr", "load", "store"}, f3 \in 0..7,
             rd \in {0, 1, 5}, rs1 \in {1, 5}, imm \in {-2048, -1, 0, 3, 2047}}
Ints == INSTANCE IntOps WITH
    reg <- ireg, last <- done, LoadValues <- {0, 200, 40000},
    Starts <- {From({3}, {200}, Words), From(Every, Edge, Ops), From(Edge, {0, 5}, Imms),
               From({9, 130}, {9, 127}, Others)}

-----------------------------------------------------------------------------
\* The unit that is not asked waits in a state with nothing to execute.
MCInit ==
    \/ /\ unit = "fpu" /\ Init
       /\ ireg = [r \in Ints!Regs |-> 0] /\ pc = 0 /\ trap = "none"
       /\ fetched = [len |-> 2, word |-> 1] /\ done = [op |-> "idle"]
    \/ /\ unit = "int" /\ Ints!Init
       /\ fp_reg = [r \in FRegs |-> 0] /\ reg = [r \in XRegs |-> 0] /\ fflags = {} /\ frm = 0
       /\ fs = 0 /\ program = <<>> /\ last = None /\ saved = Context

MCNext ==
    \/ unit = "fpu" /\ Next /\ UNCHANGED <<unit, intVars>>
    \/ unit = "int" /\ Ints!Next /\ UNCHANGED <<unit, vars>>

MCSpec == MCInit /\ [][MCNext]_<<unit, vars, intVars>>

\* IntOps: a compressed word is decoded into the instruction an assembler writes as it.
WordDecoded == Ints!WordDecoded

\* IntOps: quotients, remainders, products, shifts and comparisons agree with arithmetic,
\* and a jump goes where its operand said before the link register was written.
AluExact == Ints!AluExact /\ Ints!JumpLinks
=============================================================================
