------------------------------- MODULE Interp -------------------------------
(***************************************************************************)
(* The interpreter loop: riscv_cpu_interp, which runs a slice of           *)
(* instructions for the host, and riscv_cpu_interp_x32, which runs blocks  *)
(* of straight-line code and looks at the cycle count and at interrupts    *)
(* only between blocks.  Composes module Trap: every trap, return, CSR     *)
(* write and interrupt is Trap's action, scheduled by the loop.            *)
(*                                                                         *)
(* s->insn_counter and timeout are kept as their difference, due: what the *)
(* slice has left when the loop is outside riscv_cpu_interp_x32.           *)
(***************************************************************************)
EXTENDS Trap

CONSTANTS
    Slice,      \* n_cycles of a call (1388 in mach_setup)
    BlockMax    \* longest straight-line run up to the end of a page

ASSUME SliceAssumption == Slice \in Nat \ {0} /\ BlockMax \in Nat \ {0}

VARIABLES
    phase,      \* "host": between calls; "call": riscv_cpu_interp's while;
                \* "loop": inside riscv_cpu_interp_x32
    due,        \* timeout - s->insn_counter
    n,          \* n_cycles after the decrement of this iteration
    left,       \* instructions left in the code block; 0 at a block head
    blockPriv,  \* history: the privilege the block was fetched with
    cached,     \* whether the block's page is still in tlb_code
    late,       \* history: instructions run while an interrupt was deliverable
    count       \* history: what the slice has executed

loopVars == <<phase, due, n, left, blockPriv, cached, late, count>>
vars == <<trapVars, loopVars>>

-----------------------------------------------------------------------------
(* How an iteration of the loop ends.                                      *)

\* The histories stop counting at a value that no slice should reach.
OneMore(counted) == IF counted < Slice + BlockMax THEN counted + 1 ELSE counted

\* An instruction ran; one that found an interrupt deliverable delayed it.
Ran ==
    /\ late' = IF PendingIrq = {} THEN 0 ELSE OneMore(late)
    /\ count' = OneMore(count)

\* NEXT_INSN: on to the next instruction, a block head if there is none left.
NextInsn ==
    /\ left' = left - 1
    /\ n' = n - 1
    /\ Ran
    /\ UNCHANGED <<phase, due, blockPriv>>

\* JUMP_INSN: a block head.
JumpInsn ==
    /\ left' = 0
    /\ n' = n - 1
    /\ Ran
    /\ UNCHANGED <<phase, due, blockPriv>>

\* A plausible bug: an instruction that leaves the loop is not counted.
DoneInterpUncounted ==
    /\ phase' = "call"
    /\ due' = n
    /\ left' = 0
    /\ n' = 0
    /\ Ran
    /\ UNCHANGED blockPriv

\* exception and done_interp: the instruction counts and the loop is left.
DoneInterp ==
    /\ phase' = "call"
    /\ due' = n - 1
    /\ left' = 0
    /\ n' = 0
    /\ Ran
    /\ UNCHANGED blockPriv

\* the_end: the loop is left at a block head.
TheEnd ==
    /\ phase' = "call"
    /\ due' = n
    /\ n' = 0
    /\ UNCHANGED <<left, blockPriv, cached, count>>

-----------------------------------------------------------------------------
(* The host and riscv_cpu_interp.                                          *)

Call ==
    /\ phase = "host"
    /\ phase' = "call"
    /\ due' = Slice
    /\ count' = 0
    /\ UNCHANGED <<n, left, blockPriv, cached, late, trapVars>>

\* Between calls the machine may change the interrupt lines.
HostEvent == phase = "host" /\ Machine /\ UNCHANGED loopVars

Return ==
    /\ phase = "call"
    /\ powerDown \/ due <= 0
    /\ phase' = "host"
    /\ UNCHANGED <<due, n, left, blockPriv, cached, late, count, trapVars>>

\* The check before the loop: an interrupt here counts as an instruction.
EntryInterrupt ==
    /\ phase = "call" /\ ~powerDown /\ due > 0
    /\ RaiseInterrupt
    /\ due' = due - 1
    /\ count' = OneMore(count)
    /\ late' = 0
    /\ UNCHANGED <<phase, n, left, blockPriv, cached>>

Enter ==
    /\ phase = "call" /\ ~powerDown /\ due > 0
    /\ PendingIrq = {}
    /\ phase' = "loop"
    /\ n' = due
    /\ left' = 0
    /\ late' = 0
    /\ UNCHANGED <<due, blockPriv, cached, count, trapVars>>

-----------------------------------------------------------------------------
(* The block head.                                                         *)

AtHead == phase = "loop" /\ left = 0

Timeout == AtHead /\ n <= 0 /\ TheEnd /\ UNCHANGED <<late, trapVars>>

HeadInterrupt ==
    /\ AtHead /\ n > 0
    /\ RaiseInterrupt
    /\ late' = 0
    /\ TheEnd

\* A plausible bug: the block head does not check for interrupts.
BeginIgnoringInterrupts ==
    /\ AtHead /\ n > 0
    /\ left' \in 1 .. BlockMax
    /\ blockPriv' = priv
    /\ cached' = TRUE
    /\ UNCHANGED <<phase, due, n, late, count, trapVars>>

\* The code TLB or the walk finds the page; the block runs to its end at most.
Begin ==
    /\ AtHead /\ n > 0 /\ PendingIrq = {}
    /\ left' \in 1 .. BlockMax
    /\ blockPriv' = priv
    /\ cached' = TRUE
    /\ late' = 0
    /\ UNCHANGED <<phase, due, n, count, trapVars>>

FetchFault ==
    /\ AtHead /\ n > 0 /\ PendingIrq = {}
    /\ Exception
    /\ DoneInterp
    /\ UNCHANGED cached

-----------------------------------------------------------------------------
(* Instructions of a block.                                                *)

InBlock == phase = "loop" /\ left > 0

\* An instruction with no effect on the hart's mode; a load or a store may reach
\* a device, whose handler may change the interrupt lines.
Plain == InBlock /\ (UNCHANGED trapVars \/ Machine) /\ NextInsn /\ UNCHANGED cached

\* A taken branch or a jump.
Branch == InBlock /\ JumpInsn /\ UNCHANGED <<cached, trapVars>>

\* A CSR write that csr_write answers with 0.  Writes to mstatus and sstatus are
\* among them, and may flush the TLBs if they change MPRV, SUM or MXR.
Csr ==
    /\ InBlock
    /\ CsrWrite
    /\ NextInsn
    /\ cached' \in (IF \E new \in StatusWrites : WriteMstatus(new) \/ WriteSstatus(new)
                    THEN {cached, FALSE} ELSE {cached})

\* sfence.vma, and a write to satp, which csr_write answers with 2: flush, and
\* fetch the next instruction afresh.
FlushInsn ==
    /\ InBlock
    /\ priv # PRV_U
    /\ JumpInsn
    /\ cached' = FALSE
    /\ UNCHANGED trapVars

\* ecall, ebreak, an illegal instruction, a page fault.
Fault ==
    /\ InBlock
    /\ Exception
    /\ DoneInterp
    /\ cached' = (cached /\ priv' = priv)

\* A plausible bug: a return from a trap goes on in the same block.
XRetInBlock ==
    /\ InBlock
    /\ Sret \/ Mret
    /\ NextInsn
    /\ cached' = (cached /\ priv' = priv)

XRet ==
    /\ InBlock
    /\ Sret \/ Mret
    /\ DoneInterp
    /\ cached' = (cached /\ priv' = priv)

WfiInsn ==
    /\ InBlock
    /\ Wfi
    /\ IF powerDown' THEN DoneInterp ELSE NextInsn
    /\ UNCHANGED cached

-----------------------------------------------------------------------------
Init ==
    /\ TrapInit
    /\ phase = "host"
    /\ due = 0
    /\ n = 0
    /\ left = 0
    /\ blockPriv = PRV_M
    /\ cached = FALSE
    /\ late = 0
    /\ count = 0

\* One step of the single thread inside riscv_cpu_interp.
Step == \/ Return \/ EntryInterrupt \/ Enter
        \/ Timeout \/ HeadInterrupt \/ Begin \/ FetchFault
        \/ Plain \/ Branch \/ Csr \/ FlushInsn \/ Fault \/ XRet \/ WfiInsn

Next == Call \/ HostEvent \/ Step

Spec == Init /\ [][Next]_vars

\* The host's thread is never descheduled for good, and mach_setup calls
\* riscv_cpu_interp again and again.
FairSpec == Spec /\ WF_vars(Step) /\ WF_vars(Call)

-----------------------------------------------------------------------------
(* Properties.                                                             *)

TypeOK ==
    /\ TrapTypeOK
    /\ phase \in {"host", "call", "loop"}
    /\ due \in Int
    /\ n \in Int
    /\ left \in 0 .. BlockMax
    /\ blockPriv \in Priv
    /\ cached \in BOOLEAN
    /\ late \in Nat
    /\ count \in Nat

\* A slice overruns by less than one block: a block that starts with one cycle
\* left runs to its end and no further ("we test n_cycles only between blocks").
Overrun == due > -BlockMax /\ n > -BlockMax

\* s->insn_counter counts every instruction once, on each of the loop's exits
\* (block head, exception, return, wfi), and an interrupt taken on entry as one;
\* between them n_cycles runs one ahead of it nowhere.
CountedOnce ==
    /\ phase = "call" => due = Slice - count
    /\ phase = "loop" => n = Slice - count

\* The loop's progress: riscv_cpu_interp_x32 never hands the slice back as it got
\* it, so the while of riscv_cpu_interp cannot spin.
Progress == [][phase = "loop" /\ phase' = "call" => due' < due]_vars

\* A deliverable interrupt is delayed by less than one block of instructions,
\* whichever of them, the machine or a slice's end made it deliverable.
Latency == late < BlockMax

\* No instruction of a block runs at a privilege other than the one the block
\* was fetched with: traps, returns and wfi leave the loop.
BlockOnePriv == InBlock => blockPriv = priv

\* The comment of csr_write (riscv_cpu.c:879): a write that flushed the TLBs
\* answers 2, after which the loop fetches afresh, so that the code of a block is
\* always backed by the code TLB.  The code does not keep it; no run checks it.
BlockBacked == InBlock => cached

\* Every call of riscv_cpu_interp returns to the host.
CallReturns == phase = "call" ~> phase = "host"

\* A deliverable interrupt is taken, unless it stops being deliverable first:
\* neither an endless stream of instructions nor the end of slices starves it.
InterruptServed == PendingIrq # {} ~> PendingIrq = {}
=============================================================================
