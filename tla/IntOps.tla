------------------------------- MODULE IntOps -------------------------------
(***************************************************************************)
(* The integer instructions of the hart (riscv_cpu_template.h), on words   *)
(* of XLEN bits: a word is 0..2^XLEN-1, its signed value Signed.  A 32-bit *)
(* instruction is the record of its fields, a 16-bit one is its word; what *)
(* a load returns is any value of LoadValues (see MemAccess).              *)
(***************************************************************************)
EXTENDS Integers, Bitwise, Compressed

CONSTANTS XLEN, Starts, LoadValues

Regs == 0..31
Low == 2^XLEN
Word(v) == v % Low
Signed(a) == IF a >= Low \div 2 THEN a - Low ELSE a
Truth(c) == IF c THEN 1 ELSE 0
LOCAL Mag(v) == IF v < 0 THEN -v ELSE v

VARIABLES reg, pc, fetched, trap, last
vars == <<reg, pc, fetched, trap, last>>

TypeOK ==
    /\ reg \in [Regs -> 0..(Low - 1)] /\ reg[0] = 0
    /\ pc \in 0..(Low - 1)
    /\ trap \in {"none", "illegal", "breakpoint", "mmu"}

(***************************************************************************)
(* Multiplication and division.                                            *)
(***************************************************************************)
\* C's quotient and remainder round towards zero.
LOCAL Quotient(a, b) == (IF (a < 0) = (b < 0) THEN 1 ELSE -1) * (Mag(a) \div Mag(b))
LOCAL Remainder(a, b) == (IF a < 0 THEN -1 ELSE 1) * (Mag(a) % Mag(b))
LOCAL Overflows(a, b) == a = Low \div 2 /\ b = Low - 1

\* A plausible bug: a quotient that rounds down.
DivRoundingDown(a, b) == IF b = 0 THEN Low - 1 ELSE Word(Signed(a) \div Signed(b))

Div(a, b) ==
    CASE b = 0 -> Low - 1
      [] Overflows(a, b) -> a
      [] OTHER -> Word(Quotient(Signed(a), Signed(b)))
Divu(a, b) == IF b = 0 THEN Low - 1 ELSE a \div b
Rem(a, b) ==
    CASE b = 0 -> a
      [] Overflows(a, b) -> 0
      [] OTHER -> Word(Remainder(Signed(a), Signed(b)))
Remu(a, b) == IF b = 0 THEN a ELSE a % b

\* The high word of a product, with a type of two words.
Mulh(a, b) == Word((Signed(a) * Signed(b)) \div Low)
Mulhsu(a, b) == Word((Signed(a) * b) \div Low)
Mulhu(a, b) == Word((a * b) \div Low)
\* The same by halves, for a host without that type.
MulhuHalves(a, b) ==
    LET H == 2^(XLEN \div 2)
        r00 == (a % H) * (b % H)
        r01 == (a % H) * (b \div H)
        r10 == (a \div H) * (b % H)
        r11 == (a \div H) * (b \div H)
        c1 == (r00 \div H) + (r01 % H) + (r10 % H)
        c2 == (c1 \div H) + (r01 \div H) + (r10 \div H) + (r11 % H)
        r3 == ((c2 \div H) + (r11 \div H)) % H
    IN  r3 * H + (c2 % H)
MulhsuHalves(a, b) == Word(MulhuHalves(a, b) - (IF Signed(a) < 0 THEN b ELSE 0))
MulhHalves(a, b) ==
    Word(MulhuHalves(a, b) - (IF Signed(a) < 0 THEN b ELSE 0) - (IF Signed(b) < 0 THEN a ELSE 0))

MulDiv(f3, a, b) ==
    CASE f3 = 0 -> Word(Signed(a) * Signed(b))
      [] f3 = 1 -> Mulh(a, b)
      [] f3 = 2 -> Mulhsu(a, b)
      [] f3 = 3 -> Mulhu(a, b)
      [] f3 = 4 -> Div(a, b)
      [] f3 = 5 -> Divu(a, b)
      [] f3 = 6 -> Rem(a, b)
      [] f3 = 7 -> Remu(a, b)

(***************************************************************************)
(* OP and OP-IMM.                                                          *)
(***************************************************************************)
Sra(a, n) == Word(Signed(a) \div 2^n)
\* alt is the instruction's bit 30.
Alu(f3, alt, a, b) ==
    CASE f3 = 0 -> Word(IF alt THEN a - b ELSE a + b)
      [] f3 = 1 -> Word(a * 2^(b % XLEN))
      [] f3 = 2 -> Truth(Signed(a) < Signed(b))
      [] f3 = 3 -> Truth(a < b)
      [] f3 = 4 -> a ^^ b
      [] f3 = 5 -> IF alt THEN Sra(a, b % XLEN) ELSE a \div 2^(b % XLEN)
      [] f3 = 6 -> a | b
      [] f3 = 7 -> a & b

Legal(i) ==
    CASE i.op = "op" -> i.f7 \in {0, 1} \/ (i.f7 = 32 /\ i.f3 \in {0, 5})
      [] i.op = "opimm" -> CASE i.f3 = 1 -> i.imm \in 0..(XLEN - 1)
                             [] i.f3 = 5 -> i.imm \in 0..(XLEN - 1)
                             [] OTHER -> TRUE
      [] i.op = "branch" -> i.f3 \notin {2, 3}
      [] i.op = "load" -> i.f3 \in {0, 1, 2, 4, 5} \/ i.f7 = 1
      [] i.op = "store" -> i.f3 \in {0, 1, 2} \/ i.f7 = 1
      [] i.op = "illegal" -> FALSE
      [] OTHER -> TRUE

\* A compressed shift is by less than 32, a word of its own; the others as checked.
Decode == IF fetched.len = 2 THEN Decoded(fetched.word) ELSE fetched

\* NEXT_INSN and C_NEXT_INSN, with the destination unless it is x0.
Result(i, v) ==
    /\ reg' = IF i.rd = 0 THEN reg ELSE [reg EXCEPT ![i.rd] = v]
    /\ pc' = Word(pc + i.len)
    /\ UNCHANGED trap

Jump(i, target) ==
    /\ reg' = IF i.rd = 0 THEN reg ELSE [reg EXCEPT ![i.rd] = Word(pc + i.len)]
    /\ pc' = target
    /\ UNCHANGED trap
Raise(cause) == trap' = cause /\ UNCHANGED <<reg, pc>>

Op(i) ==
    /\ i.op = "op"
    /\ Result(i, IF i.f7 = 1 THEN MulDiv(i.f3, reg[i.rs1], reg[i.rs2])
                 ELSE Alu(i.f3, i.f7 = 32, reg[i.rs1], reg[i.rs2]))
OpImm(i) ==
    /\ i.op = "opimm"
    /\ Result(i, CASE i.f3 = 1 -> Word(reg[i.rs1] * 2^i.imm)
                   [] i.f3 = 5 -> IF i.f7 = 32 THEN Sra(reg[i.rs1], i.imm)
                                  ELSE reg[i.rs1] \div 2^i.imm
                   [] OTHER -> Alu(i.f3, FALSE, reg[i.rs1], Word(i.imm)))
\* imm is the value with its low 12 bits clear.
Lui(i) == i.op = "lui" /\ Result(i, Word(i.imm))
Auipc(i) == i.op = "auipc" /\ Result(i, Word(pc + i.imm))
Jal(i) == i.op = "jal" /\ Jump(i, Word(pc + i.imm))
\* The target is computed before the link is written.
Jalr(i) ==
    /\ i.op = "jalr"
    /\ LET t == Word(reg[i.rs1] + i.imm) IN Jump(i, t - (t % 2))
Branch(i) ==
    /\ i.op = "branch"
    /\ LET a == reg[i.rs1]
           b == reg[i.rs2]
           cond == CASE i.f3 \div 2 = 0 -> a = b
                     [] i.f3 \div 2 = 2 -> Signed(a) < Signed(b)
                     [] i.f3 \div 2 = 3 -> a < b
       IN  pc' = Word(pc + IF cond # (i.f3 % 2 = 1) THEN i.imm ELSE i.len)
    /\ UNCHANGED <<reg, trap>>
Load(i) ==
    /\ i.op = "load"
    /\ \/ \E v \in LoadValues :
              IF i.f7 = 0
              THEN Result(i, CASE i.f3 = 0 -> Word(Sext(v % 2^8, 8))
                               [] i.f3 = 1 -> Word(Sext(v % 2^16, 16))
                               [] i.f3 = 2 -> Word(v)
                               [] i.f3 = 4 -> Word(v % 2^8)
                               [] i.f3 = 5 -> Word(v % 2^16))
              ELSE UNCHANGED <<reg, trap>> /\ pc' = Word(pc + i.len)
       \/ Raise("mmu")
Store(i) ==
    /\ i.op = "store"
    /\ \/ UNCHANGED <<reg, trap>> /\ pc' = Word(pc + i.len)
       \/ Raise("mmu")
Ebreak(i) == i.op = "ebreak" /\ Raise("breakpoint")
IllegalInsn(i) == ~Legal(i) /\ Raise("illegal")

Init ==
    \E st \in Starts :
        /\ \E a \in st.a, b \in st.b :
               reg = [r \in Regs |-> CASE r = 0 -> 0 [] r = st.ra -> a [] r = st.rb -> b
                                       [] OTHER -> Word(17 * r)]
        /\ pc = st.pc
        /\ fetched \in st.insns
        /\ trap = "none" /\ last = [op |-> "none"]

Step ==
    /\ last.op = "none"
    /\ UNCHANGED fetched
    /\ LET i == Decode IN
       /\ last' = [op |-> i.op, i |-> i, reg |-> reg, pc |-> pc]
       /\ \/ Legal(i) /\ Op(i)
          \/ Legal(i) /\ OpImm(i)
          \/ Lui(i) \/ Auipc(i) \/ Jal(i) \/ Jalr(i)
          \/ Legal(i) /\ Branch(i)
          \/ Legal(i) /\ Load(i)
          \/ Legal(i) /\ Store(i)
          \/ Ebreak(i) \/ IllegalInsn(i)
Next == Step
Spec == Init /\ [][Next]_vars

(***************************************************************************)
(* Properties                                                              *)
(***************************************************************************)
\* Every 16-bit word is refused or decoded into the instruction that an assembler
\* writes as this word: each bit of each immediate is taken from its place, with its
\* sign, and no word is decoded as another's instruction (C_QUADRANT 0 to 2).
WordDecoded ==
    fetched.len = 2 =>
        LET i == Decoded(fetched.word) IN
        IF Reserved(fetched.word) THEN i = IllegalWord
        ELSE i.op # "illegal" /\ Encoded(i) = fetched.word

\* Quotient, remainder and the two halves of a product fit together, whatever the
\* signs, for a zero divisor and the one quotient that overflows; a shift and a
\* comparison agree with arithmetic on values; the product by halves is the product.
LOCAL Done(name) == last.op = name /\ trap = "none" /\ last.i.rd # 0
AluExact ==
    Done("op") /\ last.i.len = 4 =>
        LET a == last.reg[last.i.rs1]
            b == last.reg[last.i.rs2]
            v == reg[last.i.rd]
            f3 == last.i.f3
            sa == Signed(a)
            sb == Signed(b)
        IN  IF last.i.f7 = 1
            THEN /\ MulhHalves(a, b) = Mulh(a, b) /\ MulhsuHalves(a, b) = Mulhsu(a, b)
                 /\ MulhuHalves(a, b) = Mulhu(a, b)
                 /\ CASE f3 = 0 -> (sa * sb - v) % Low = 0
                      [] f3 = 1 -> Signed(v) * Low + MulDiv(0, a, b) = sa * sb
                      [] f3 = 2 -> Signed(v) * Low + MulDiv(0, a, b) = sa * b
                      [] f3 = 3 -> v * Low + MulDiv(0, a, b) = a * b
                      [] f3 \in {4, 6} ->
                           LET q == Signed(IF f3 = 4 THEN v ELSE Div(a, b))
                               r == Signed(IF f3 = 6 THEN v ELSE Rem(a, b))
                           IN  IF b = 0 THEN q = -1 /\ r = sa
                               ELSE IF sa = -(Low \div 2) /\ sb = -1 THEN q = sa /\ r = 0
                               ELSE /\ q * sb + r = sa
                                    /\ Mag(r) < Mag(sb) /\ (r = 0 \/ (r < 0) = (sa < 0))
                      [] f3 \in {5, 7} ->
                           LET q == IF f3 = 5 THEN v ELSE Divu(a, b)
                               r == IF f3 = 7 THEN v ELSE Remu(a, b)
                           IN  IF b = 0 THEN q = Low - 1 /\ r = a ELSE q * b + r = a /\ r < b
            ELSE CASE f3 = 5 -> LET n == b % XLEN
                                    x == IF last.i.f7 = 32 THEN sa - Signed(v) * 2^n ELSE a - v * 2^n
                                IN  x >= 0 /\ x < 2^n
                   [] f3 = 2 -> (v = 1) = (sa - sb < 0) /\ v \in {0, 1}
                   [] f3 = 3 -> (v = 1) = (a - b < 0) /\ v \in {0, 1}
                   [] f3 \in {4, 6, 7} -> (a & b) + (a | b) = a + b /\ (a ^^ b) + 2 * (a & b) = a + b
                   [] OTHER -> TRUE

\* A jump goes where its operand said before the link register was written, and the
\* link is the address behind the instruction, 2 or 4 bytes on (jalr with rd = rs1,
\* c.jalr with x1); an instruction that traps leaves registers and pc as they were.
JumpLinks ==
    /\ last.op \in {"jal", "jalr"} /\ trap = "none" =>
           LET i == last.i
               t == IF i.op = "jal" THEN Word(last.pc + i.imm) ELSE Word(last.reg[i.rs1] + i.imm)
           IN  /\ pc % 2 = 0 /\ pc \in {t, t - 1}
               /\ i.rd # 0 => reg[i.rd] = Word(last.pc + i.len)
               /\ \A r \in Regs \ {i.rd} : reg[r] = last.reg[r]
    /\ trap # "none" => reg = last.reg /\ pc = last.pc
=============================================================================
