----------------------------- MODULE Compressed -----------------------------
(***************************************************************************)
(* The 16-bit instructions (riscv_cpu_template.h, C_QUADRANT 0 to 2): what *)
(* a word asks for, as the record of the 32-bit instruction with the same  *)
(* effect, and the name of its case.  x0 as a destination is kept: the     *)
(* execution writes nothing there.                                         *)
(***************************************************************************)
EXTENDS Integers

\* get_field1 and sext.
Field(w, src, dst, max) == ((w \div 2^src) % 2^(max - dst + 1)) * 2^dst
Sext(v, n) == IF v >= 2^(n - 1) THEN v - 2^n ELSE v

IllegalWord == [c |-> "illegal", op |-> "illegal"]
R(c, op, f3, f7, rd, rs1, rs2, imm) ==
    [c |-> c, op |-> op, f3 |-> f3, f7 |-> f7, rd |-> rd, rs1 |-> rs1, rs2 |-> rs2,
     imm |-> imm, len |-> 2]

LOCAL Funct3(w) == w \div 2^13
LOCAL Rd(w) == (w \div 2^7) % 32
LOCAL Rs2(w) == (w \div 4) % 32
\* The registers of the short fields are x8 to x15.
LOCAL RdShort(w) == 8 + ((w \div 4) % 8)
LOCAL Rs1Short(w) == 8 + ((w \div 2^7) % 8)

ImmDouble(w) == Field(w, 10, 3, 5) + Field(w, 5, 6, 7)
ImmWord(w) == Field(w, 10, 3, 5) + Field(w, 6, 2, 2) + Field(w, 5, 6, 6)
Imm6(w) == Field(w, 12, 5, 5) + Field(w, 2, 0, 4)

\* A plausible bug: bits 6 and 7 change places.
ImmJumpSwapped(w) ==
    Sext(Field(w, 12, 11, 11) + Field(w, 11, 4, 4) + Field(w, 9, 8, 9) + Field(w, 8, 10, 10)
         + Field(w, 7, 7, 7) + Field(w, 6, 6, 6) + Field(w, 3, 1, 3) + Field(w, 2, 5, 5), 12)

ImmJump(w) ==
    Sext(Field(w, 12, 11, 11) + Field(w, 11, 4, 4) + Field(w, 9, 8, 9) + Field(w, 8, 10, 10)
         + Field(w, 7, 6, 6) + Field(w, 6, 7, 7) + Field(w, 3, 1, 3) + Field(w, 2, 5, 5), 12)
ImmBranch(w) ==
    Sext(Field(w, 12, 8, 8) + Field(w, 10, 3, 4) + Field(w, 5, 6, 7) + Field(w, 3, 1, 2)
         + Field(w, 2, 5, 5), 9)
ImmSpDouble(w) == Field(w, 12, 5, 5) + 8 * (Rs2(w) \div 8) + Field(w, 2, 6, 8)
ImmSpWord(w) == Field(w, 12, 5, 5) + 4 * (Rs2(w) \div 4) + Field(w, 2, 6, 7)

\* Loads and stores have a 0 in f7 for the integer registers and a 1 for the others.
Quadrant0(w) ==
    LET rd == RdShort(w)
        rs1 == Rs1Short(w)
        imm == Field(w, 11, 4, 5) + Field(w, 7, 6, 9) + Field(w, 6, 2, 2) + Field(w, 5, 3, 3)
    IN  CASE Funct3(w) = 0 -> IF imm = 0 THEN IllegalWord
                              ELSE R("addi4spn", "opimm", 0, 0, rd, 2, 0, imm)
          [] Funct3(w) = 1 -> R("fld", "load", 3, 1, rd, rs1, 0, ImmDouble(w))
          [] Funct3(w) = 2 -> R("lw", "load", 2, 0, rd, rs1, 0, ImmWord(w))
          [] Funct3(w) = 3 -> R("flw", "load", 2, 1, rd, rs1, 0, ImmWord(w))
          [] Funct3(w) = 5 -> R("fsd", "store", 3, 1, 0, rs1, rd, ImmDouble(w))
          [] Funct3(w) = 6 -> R("sw", "store", 2, 0, 0, rs1, rd, ImmWord(w))
          [] Funct3(w) = 7 -> R("fsw", "store", 2, 1, 0, rs1, rd, ImmWord(w))
          [] OTHER -> IllegalWord

\* c.srli to c.and, on the short registers.
Arithmetic(w) ==
    LET rd == Rs1Short(w)
        rs2 == RdShort(w)
        kind == (w \div 2^10) % 4
        sub == ((w \div 2^5) % 4) + 4 * ((w \div 2^12) % 2)
    IN  CASE kind = 0 -> IF Imm6(w) >= 32 THEN IllegalWord
                         ELSE R("srli", "opimm", 5, 0, rd, rd, 0, Imm6(w))
          [] kind = 1 -> IF Imm6(w) >= 32 THEN IllegalWord
                         ELSE R("srai", "opimm", 5, 32, rd, rd, 0, Imm6(w))
          [] kind = 2 -> R("andi", "opimm", 7, 0, rd, rd, 0, Sext(Imm6(w), 6))
          [] OTHER ->
               CASE sub = 0 -> R("sub", "op", 0, 32, rd, rd, rs2, 0)
                 [] sub = 1 -> R("xor", "op", 4, 0, rd, rd, rs2, 0)
                 [] sub = 2 -> R("or", "op", 6, 0, rd, rd, rs2, 0)
                 [] sub = 3 -> R("and", "op", 7, 0, rd, rd, rs2, 0)
                 [] OTHER -> IllegalWord

Quadrant1(w) ==
    LET rd == Rd(w)
        sp == Sext(Field(w, 12, 9, 9) + Field(w, 6, 4, 4) + Field(w, 5, 6, 6)
                   + Field(w, 3, 7, 8) + Field(w, 2, 5, 5), 10)
    IN  CASE Funct3(w) = 0 -> R("addi", "opimm", 0, 0, rd, rd, 0, Sext(Imm6(w), 6))
          [] Funct3(w) = 1 -> R("jal", "jal", 0, 0, 1, 0, 0, ImmJump(w))
          [] Funct3(w) = 2 -> R("li", "opimm", 0, 0, rd, 0, 0, Sext(Imm6(w), 6))
          [] Funct3(w) = 3 /\ rd = 2 -> IF sp = 0 THEN IllegalWord
                                        ELSE R("addi16sp", "opimm", 0, 0, 2, 2, 0, sp)
          [] Funct3(w) = 3 /\ rd # 2 ->
               R("lui", "lui", 0, 0, rd, 0, 0,
                 Sext(Field(w, 12, 17, 17) + Field(w, 2, 12, 16), 18))
          [] Funct3(w) = 4 -> Arithmetic(w)
          [] Funct3(w) = 5 -> R("j", "jal", 0, 0, 0, 0, 0, ImmJump(w))
          [] Funct3(w) = 6 -> R("beqz", "branch", 0, 0, 0, Rs1Short(w), 0, ImmBranch(w))
          [] Funct3(w) = 7 -> R("bnez", "branch", 1, 0, 0, Rs1Short(w), 0, ImmBranch(w))

Quadrant2(w) ==
    LET rd == Rd(w)
        rs2 == Rs2(w)
        high == (w \div 2^12) % 2 = 1
        toSpDouble == Field(w, 10, 3, 5) + Field(w, 7, 6, 8)
        toSpWord == Field(w, 9, 2, 5) + Field(w, 7, 6, 7)
    IN  CASE Funct3(w) = 0 -> IF Imm6(w) >= 32 THEN IllegalWord
                              ELSE R("slli", "opimm", 1, 0, rd, rd, 0, Imm6(w))
          [] Funct3(w) = 1 -> R("fldsp", "load", 3, 1, rd, 2, 0, ImmSpDouble(w))
          [] Funct3(w) = 2 -> R("lwsp", "load", 2, 0, rd, 2, 0, ImmSpWord(w))
          [] Funct3(w) = 3 -> R("flwsp", "load", 2, 1, rd, 2, 0, ImmSpWord(w))
          [] Funct3(w) = 4 /\ ~high /\ rs2 = 0 ->
               IF rd = 0 THEN IllegalWord ELSE R("jr", "jalr", 0, 0, 0, rd, 0, 0)
          [] Funct3(w) = 4 /\ ~high /\ rs2 # 0 -> R("mv", "op", 0, 0, rd, 0, rs2, 0)
          [] Funct3(w) = 4 /\ high /\ rs2 = 0 ->
               IF rd = 0 THEN R("ebreak", "ebreak", 0, 0, 0, 0, 0, 0)
                         ELSE R("jalr", "jalr", 0, 0, 1, rd, 0, 0)
          [] Funct3(w) = 4 /\ high /\ rs2 # 0 -> R("add", "op", 0, 0, rd, rd, rs2, 0)
          [] Funct3(w) = 5 -> R("fsdsp", "store", 3, 1, 0, 2, rs2, toSpDouble)
          [] Funct3(w) = 6 -> R("swsp", "store", 2, 0, 0, 2, rs2, toSpWord)
          [] Funct3(w) = 7 -> R("fswsp", "store", 2, 1, 0, 2, rs2, toSpWord)

Decoded(w) ==
    CASE w % 4 = 0 -> Quadrant0(w)
      [] w % 4 = 1 -> Quadrant1(w)
      [] w % 4 = 2 -> Quadrant2(w)

(***************************************************************************)
(* The assembler's view, against which Decoded is checked: where each bit  *)
(* of an immediate is put.                                                 *)
(***************************************************************************)
\* Bits hi..lo of v, at bit "at" of the word.
Put(v, hi, lo, at) == ((v \div 2^lo) % 2^(hi - lo + 1)) * 2^at
LOCAL Short(r) == r - 8
LOCAL Form(f3, quadrant) == f3 * 2^13 + quadrant

EncodeDouble(i) == Put(i.imm, 5, 3, 10) + Put(i.imm, 7, 6, 5)
EncodeWord(i) == Put(i.imm, 5, 3, 10) + Put(i.imm, 2, 2, 6) + Put(i.imm, 6, 6, 5)
Encode6(i) == Put(i.imm, 5, 5, 12) + Put(i.imm, 4, 0, 2)
EncodeJump(i) ==
    Put(i.imm, 11, 11, 12) + Put(i.imm, 4, 4, 11) + Put(i.imm, 9, 8, 9) + Put(i.imm, 10, 10, 8)
    + Put(i.imm, 6, 6, 7) + Put(i.imm, 7, 7, 6) + Put(i.imm, 3, 1, 3) + Put(i.imm, 5, 5, 2)
EncodeBranch(i) ==
    Put(i.imm, 8, 8, 12) + Put(i.imm, 4, 3, 10) + Put(i.imm, 7, 6, 5) + Put(i.imm, 2, 1, 3)
    + Put(i.imm, 5, 5, 2)
Encoded(i) ==
    CASE i.c = "addi4spn" ->
           Form(0, 0) + 4 * Short(i.rd) + Put(i.imm, 5, 4, 11) + Put(i.imm, 9, 6, 7)
           + Put(i.imm, 2, 2, 6) + Put(i.imm, 3, 3, 5)
      [] i.c \in {"fld", "lw", "flw"} ->
           Form(CASE i.c = "fld" -> 1 [] i.c = "lw" -> 2 [] OTHER -> 3, 0) + 4 * Short(i.rd)
           + Short(i.rs1) * 2^7 + (IF i.c = "fld" THEN EncodeDouble(i) ELSE EncodeWord(i))
      [] i.c \in {"fsd", "sw", "fsw"} ->
           Form(CASE i.c = "fsd" -> 5 [] i.c = "sw" -> 6 [] OTHER -> 7, 0) + 4 * Short(i.rs2)
           + Short(i.rs1) * 2^7 + (IF i.c = "fsd" THEN EncodeDouble(i) ELSE EncodeWord(i))
      [] i.c = "addi" -> Form(0, 1) + i.rd * 2^7 + Encode6(i)
      [] i.c = "jal" -> Form(1, 1) + EncodeJump(i)
      [] i.c = "li" -> Form(2, 1) + i.rd * 2^7 + Encode6(i)
      [] i.c = "addi16sp" ->
           Form(3, 1) + 2 * 2^7 + Put(i.imm, 9, 9, 12) + Put(i.imm, 4, 4, 6) + Put(i.imm, 6, 6, 5)
           + Put(i.imm, 8, 7, 3) + Put(i.imm, 5, 5, 2)
      [] i.c = "lui" -> Form(3, 1) + i.rd * 2^7 + Put(i.imm, 17, 17, 12) + Put(i.imm, 16, 12, 2)
      [] i.c \in {"srli", "srai", "andi"} ->
           Form(4, 1) + Short(i.rd) * 2^7 + Encode6(i)
           + (CASE i.c = "srli" -> 0 [] i.c = "srai" -> 1 [] OTHER -> 2) * 2^10
      [] i.c \in {"sub", "xor", "or", "and"} ->
           Form(4, 1) + 3 * 2^10 + Short(i.rd) * 2^7 + 4 * Short(i.rs2)
           + (CASE i.c = "sub" -> 0 [] i.c = "xor" -> 1 [] i.c = "or" -> 2 [] OTHER -> 3) * 2^5
      [] i.c = "j" -> Form(5, 1) + EncodeJump(i)
      [] i.c \in {"beqz", "bnez"} ->
           Form(IF i.c = "beqz" THEN 6 ELSE 7, 1) + Short(i.rs1) * 2^7 + EncodeBranch(i)
      [] i.c = "slli" -> Form(0, 2) + i.rd * 2^7 + Encode6(i)
      [] i.c = "fldsp" -> Form(1, 2) + i.rd * 2^7 + Put(i.imm, 5, 5, 12) + Put(i.imm, 4, 3, 5) + Put(i.imm, 8, 6, 2)
      [] i.c \in {"lwsp", "flwsp"} ->
           Form(IF i.c = "lwsp" THEN 2 ELSE 3, 2) + i.rd * 2^7
           + Put(i.imm, 5, 5, 12) + Put(i.imm, 4, 2, 4) + Put(i.imm, 7, 6, 2)
      [] i.c \in {"jr", "jalr"} -> Form(4, 2) + i.rs1 * 2^7 + (IF i.c = "jr" THEN 0 ELSE 2^12)
      [] i.c \in {"mv", "add"} -> Form(4, 2) + i.rd * 2^7 + 4 * i.rs2 + (IF i.c = "mv" THEN 0 ELSE 2^12)
      [] i.c = "ebreak" -> Form(4, 2) + 2^12
      [] i.c = "fsdsp" -> Form(5, 2) + 4 * i.rs2 + Put(i.imm, 5, 3, 10) + Put(i.imm, 8, 6, 7)
      [] i.c \in {"swsp", "fswsp"} ->
           Form(IF i.c = "swsp" THEN 6 ELSE 7, 2) + 4 * i.rs2 + Put(i.imm, 5, 2, 9) + Put(i.imm, 7, 6, 7)

\* Words that ask for nothing: a zero immediate or a case the 32-bit hart has not.
Reserved(w) ==
    \/ w % 4 = 0 /\ (Funct3(w) = 4 \/ (Funct3(w) = 0 /\ (w \div 2^5) % 2^8 = 0))
    \/ /\ w % 4 = 1
       /\ \/ Funct3(w) = 3 /\ Rd(w) = 2 /\ (w \div 2^12) % 2 = 0 /\ Rs2(w) = 0
          \/ Funct3(w) = 4 /\ (w \div 2^12) % 2 = 1 /\ (w \div 2^10) % 4 # 2
    \/ /\ w % 4 = 2
       /\ \/ Funct3(w) = 0 /\ (w \div 2^12) % 2 = 1
          \/ w = Form(4, 2)
=============================================================================
