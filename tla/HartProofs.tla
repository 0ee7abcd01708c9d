----------------------------- MODULE HartProofs -----------------------------
(***************************************************************************)
(* Proofs about the hart: module Trap, for every set of interrupts, and    *)
(* module Interp, for every length of a slice and of a block.              *)
(*                                                                         *)
(* That a return restores what its trap interrupted needs an invariant:    *)
(* while a handler's frame is open, the half of mstatus that its return    *)
(* will use still holds what the trap saved, whatever traps to the other   *)
(* level, returns and CSR writes ran since (FramesKept).                   *)
(*                                                                         *)
(* What the loop promises about interrupts and cycles is not inductive as  *)
(* stated: a block under way must be known to have been begun with cycles  *)
(* left (BlockPaid) and with no interrupt deliverable, or with fewer       *)
(* instructions left than it takes to be late (BlockInTime); and the hart  *)
(* must be known to be awake inside the loop (Awake), without which a step *)
(* of the loop would not be a step of module Trap.                         *)
(***************************************************************************)
EXTENDS Interp, WellFoundedInduction, TLAPS

FramesKept ==
    /\ frame[PRV_S] # NoFrame =>
          frame[PRV_S].priv = status.spp /\ frame[PRV_S].ie = status.spie
    /\ frame[PRV_M] # NoFrame =>
          frame[PRV_M].priv = status.mpp /\ frame[PRV_M].ie = status.mpie

IInv == TrapTypeOK /\ NoLostWakeup /\ FramesKept

USE DEF PRV_U, PRV_S, PRV_H, PRV_M

-----------------------------------------------------------------------------
(* The parts of a step.                                                    *)

LEMMA MaskedType ==
    ASSUME NEW S, NEW old \in SUBSET S, NEW new \in SUBSET S, NEW mask
    PROVE  Masked(old, new, mask) \in SUBSET S
    BY DEF Masked

\* An open frame is not the record of a closed one.
LEMMA FrameIsOpen ==
    ASSUME NEW p \in Priv, NEW b \in BOOLEAN
    PROVE  [priv |-> p, ie |-> b] \in Frame
    BY DEF Frame

LEMMA InitInv == TrapInit => IInv
<1> SUFFICES ASSUME TrapInit PROVE IInv
    OBVIOUS
<1>1. status \in Status
    BY DEF TrapInit, Status, Priv
<1>2. frame \in [Handler -> Frame]
    BY DEF TrapInit, Frame
<1>3. FramesKept
    BY DEF TrapInit, FramesKept, Handler
<1> QED
    BY <1>1, <1>2, <1>3 DEF TrapInit, IInv, TrapTypeOK, NoLostWakeup, Priv

\* A trap, to whatever level.
LEMMA RaiseInv ==
    ASSUME IInv, ~powerDown, NEW delegated, RaiseException(delegated)
    PROVE  IInv'
<1>1. status \in Status /\ priv \in Priv /\ frame \in [Handler -> Frame]
    BY DEF IInv, TrapTypeOK
<1>2. status.ie[priv] \in BOOLEAN
    BY <1>1 DEF Status, Priv
<1>3. CASE delegated /\ priv <= PRV_S
    <2>1. status' = [status EXCEPT !.spie = status.ie[priv], !.spp = priv,
                                   !.ie[PRV_S] = FALSE]
        BY <1>3 DEF RaiseException
    <2>2. frame' = [frame EXCEPT ![PRV_S] = [priv |-> priv, ie |-> status.ie[priv]]]
        BY <1>3 DEF RaiseException, Interrupted
    <2>3. priv \in {PRV_U, PRV_S} /\ priv' = PRV_S
        BY <1>1, <1>3 DEF RaiseException, Priv
    <2>4. status' \in Status
        BY <1>1, <1>2, <2>1, <2>3 DEF Status, Priv
    <2>5. frame' \in [Handler -> Frame]
        BY <1>1, <1>2, <2>2, FrameIsOpen DEF Handler
    <2>6. TrapTypeOK'
        BY <2>3, <2>4, <2>5 DEF RaiseException, IInv, TrapTypeOK, Priv
    <2>7. FramesKept'
        BY <1>1, <1>2, <2>1, <2>2, <2>3
        DEF IInv, FramesKept, Handler, Status, Priv
    <2> QED
        BY <2>6, <2>7 DEF RaiseException, IInv, NoLostWakeup
<1>4. CASE ~(delegated /\ priv <= PRV_S)
    <2>1. status' = [status EXCEPT !.mpie = status.ie[priv], !.mpp = priv,
                                   !.ie[PRV_M] = FALSE]
        BY <1>4 DEF RaiseException
    <2>2. frame' = [frame EXCEPT ![PRV_M] = [priv |-> priv, ie |-> status.ie[priv]]]
        BY <1>4 DEF RaiseException, Interrupted
    <2>3. priv' = PRV_M
        BY <1>4 DEF RaiseException
    <2>4. status' \in Status
        BY <1>1, <1>2, <2>1 DEF Status, Priv
    <2>5. frame' \in [Handler -> Frame]
        BY <1>1, <1>2, <2>2, FrameIsOpen DEF Handler
    <2>6. TrapTypeOK'
        BY <2>3, <2>4, <2>5 DEF RaiseException, IInv, TrapTypeOK, Priv
    <2>7. FramesKept'
        BY <1>1, <1>2, <2>1, <2>2, <2>3
        DEF IInv, FramesKept, Handler, Status, Priv
    <2> QED
        BY <2>6, <2>7 DEF RaiseException, IInv, NoLostWakeup
<1> QED
    BY <1>3, <1>4

LEMMA ReturnInv ==
    ASSUME IInv, ~powerDown, Sret \/ Mret
    PROVE  IInv'
<1>1. status \in Status /\ priv \in Priv /\ frame \in [Handler -> Frame]
    BY DEF IInv, TrapTypeOK
<1>2. frame' \in [Handler -> Frame]
    BY <1>1 DEF Sret, Mret, Forget, Frame
<1>3. status' \in Status /\ priv' \in Priv
    <2>1. CASE Sret
        BY <1>1, <2>1 DEF Sret, Status, Priv
    <2>2. CASE Mret
        BY <1>1, <2>2 DEF Mret, Status, Priv
    <2> QED
        BY <2>1, <2>2
<1>4. TrapTypeOK'
    BY <1>2, <1>3 DEF IInv, TrapTypeOK, Sret, Mret
<1>5. FramesKept'
    <2>1. CASE Sret
        BY <1>1, <2>1 DEF Sret, Forget, Handler, IInv, FramesKept, Status, Priv
    <2>2. CASE Mret
        BY <1>1, <2>2 DEF Mret, Forget, Handler, IInv, FramesKept, Status, Priv
    <2> QED
        BY <2>1, <2>2
<1> QED
    BY <1>4, <1>5 DEF IInv, NoLostWakeup, Sret, Mret

LEMMA CsrInv ==
    ASSUME IInv, ~powerDown, CsrWrite
    PROVE  IInv'
<1>1. status \in Status /\ priv \in Priv /\ frame \in [Handler -> Frame]
    BY DEF IInv, TrapTypeOK
<1>2. ASSUME NEW new \in StatusWrites, WriteMstatus(new) PROVE IInv'
    <2>1. new \in Status
        BY StatusAssumption
    <2>2. status' \in Status
        BY <1>1, <1>2, <2>1 DEF WriteMstatus, Status, Priv
    <2>3. frame' = [p \in Handler |-> NoFrame]
        BY <1>1, <1>2 DEF WriteMstatus, Forget
    <2>4. frame' \in [Handler -> Frame]
        BY <2>3 DEF Frame
    <2>5. TrapTypeOK'
        BY <1>2, <2>2, <2>4 DEF WriteMstatus, IInv, TrapTypeOK
    <2>6. FramesKept'
        BY <2>3 DEF FramesKept, Handler
    <2> QED
        BY <1>2, <2>5, <2>6 DEF WriteMstatus, IInv, NoLostWakeup
<1>3. ASSUME NEW new \in StatusWrites, WriteSstatus(new) PROVE IInv'
    <2>1. new \in Status
        BY StatusAssumption
    <2>2. status' = [status EXCEPT !.ie[PRV_U] = new.ie[PRV_U],
                                   !.ie[PRV_S] = new.ie[PRV_S],
                                   !.spie = new.spie,
                                   !.spp = new.spp]
        BY <1>3 DEF WriteSstatus
    <2>3. status' \in Status /\ status'.mpp = status.mpp /\ status'.mpie = status.mpie
        BY <1>1, <2>1, <2>2 DEF Status, Priv
    <2>4. frame'[PRV_S] = NoFrame /\ frame'[PRV_M] = frame[PRV_M]
            /\ frame' \in [Handler -> Frame]
        BY <1>1, <1>3 DEF WriteSstatus, Forget, Handler, Frame
    <2>5. TrapTypeOK'
        BY <1>3, <2>3, <2>4 DEF WriteSstatus, IInv, TrapTypeOK
    <2>6. FramesKept'
        BY <2>3, <2>4 DEF IInv, FramesKept
    <2> QED
        BY <1>3, <2>5, <2>6 DEF WriteSstatus, IInv, NoLostWakeup
<1>4. ASSUME NEW new \in SUBSET Irq, WriteMie(new) PROVE IInv'
    BY <1>4, MaskedType DEF WriteMie, IInv, TrapTypeOK, NoLostWakeup, FramesKept
<1>5. ASSUME NEW new \in SUBSET Irq, WriteMip(new) PROVE IInv'
    BY <1>5, MaskedType DEF WriteMip, IInv, TrapTypeOK, NoLostWakeup, FramesKept
<1>6. ASSUME NEW new \in MidelegWrites, WriteMideleg(new) PROVE IInv'
    <2>1. new \in SUBSET SIrq
        BY IrqAssumption
    <2> QED
        BY <1>6, <2>1, MaskedType
        DEF WriteMideleg, IInv, TrapTypeOK, NoLostWakeup, FramesKept
<1> QED
    BY <1>2, <1>3, <1>4, <1>5, <1>6 DEF CsrWrite

\* One step of the hart or of the machine.
LEMMA StepInv == IInv /\ [TrapNext]_trapVars => IInv'
<1> SUFFICES ASSUME IInv, [TrapNext]_trapVars PROVE IInv'
    OBVIOUS
<1>1. CASE Run /\ (Exception \/ RaiseInterrupt)
    BY <1>1, RaiseInv DEF Run, Exception, RaiseInterrupt
<1>2. CASE Run /\ (Sret \/ Mret)
    BY <1>2, ReturnInv DEF Run
<1>3. CASE Run /\ Wfi
    BY <1>3 DEF Wfi, IInv, TrapTypeOK, NoLostWakeup, FramesKept
<1>4. CASE Run /\ CsrWrite
    BY <1>4, CsrInv DEF Run
<1>5. ASSUME NEW irqs \in SUBSET Irq, SetMip(irqs) PROVE IInv'
    BY <1>5 DEF SetMip, IInv, TrapTypeOK, NoLostWakeup, FramesKept
<1>6. ASSUME NEW irqs \in SUBSET Irq, ResetMip(irqs) PROVE IInv'
    BY <1>6 DEF ResetMip, IInv, TrapTypeOK, NoLostWakeup, FramesKept
<1>7. CASE UNCHANGED trapVars
    BY <1>7 DEF trapVars, IInv, TrapTypeOK, NoLostWakeup, FramesKept
<1> QED
    BY <1>1, <1>2, <1>3, <1>4, <1>5, <1>6, <1>7 DEF TrapNext, Run, Machine

-----------------------------------------------------------------------------
(* The theorems.                                                           *)

\* The hart's privilege and trap registers keep their types; SPP never holds a
\* privilege above S.
THEOREM TrapTypeCorrect == TrapSpec => []TrapTypeOK
<1>1. IInv => TrapTypeOK
    BY DEF IInv
<1> QED
    BY <1>1, InitInv, StepInv, PTL DEF TrapSpec

\* A hart never sleeps with an enabled source pending, for any number of sources.
THEOREM WakeupNotLost == TrapSpec => []NoLostWakeup
<1>1. IInv => NoLostWakeup
    BY DEF IInv
<1> QED
    BY <1>1, InitInv, StepInv, PTL DEF TrapSpec

\* Below M the guest cannot reach M's half of the trap state.
THEOREM MachineStateIsKept == TrapSpec => MachineStateKept
<1> DEFINE Kept == priv <= PRV_S /\ priv' <= PRV_S
                     => /\ status'.ie[PRV_M] = status.ie[PRV_M]
                        /\ status'.mpie = status.mpie
                        /\ status'.mpp = status.mpp
                        /\ mideleg' = mideleg
                        /\ mie' \ mideleg = mie \ mideleg
<1>1. IInv /\ [TrapNext]_trapVars => [Kept]_trapVars
    <2> SUFFICES ASSUME IInv, TrapNext, priv <= PRV_S, priv' <= PRV_S
                 PROVE  Kept
        BY DEF trapVars
    <2>1. status \in Status /\ priv \in Priv
        BY DEF IInv, TrapTypeOK
    <2>2. ASSUME NEW delegated, RaiseException(delegated) PROVE Kept
        <3>1. status' = [status EXCEPT !.spie = status.ie[priv], !.spp = priv,
                                       !.ie[PRV_S] = FALSE]
            BY <2>2 DEF RaiseException
        <3> QED
            BY <2>1, <2>2, <3>1 DEF RaiseException, Status, Priv
    <2>3. CASE Sret
        BY <2>1, <2>3 DEF Sret, Status, Priv
    <2>4. CASE Mret
        BY <2>1, <2>4 DEF Mret, Status, Priv
    <2>5. ASSUME NEW new \in StatusWrites, WriteSstatus(new) PROVE Kept
        BY <2>1, <2>5 DEF WriteSstatus, Status, Priv
    <2>6. ASSUME NEW new, WriteMie(new) PROVE Kept
        BY <2>6 DEF WriteMie, Masked
    <2>7. CASE Wfi
        BY <2>7 DEF Wfi
    <2>8. ASSUME NEW new, WriteMip(new) PROVE Kept
        BY <2>8 DEF WriteMip
    <2>9. ASSUME NEW irqs, SetMip(irqs) \/ ResetMip(irqs) PROVE Kept
        BY <2>9 DEF SetMip, ResetMip
    <2>10. ASSUME NEW new, WriteMstatus(new) \/ WriteMideleg(new) PROVE Kept
        BY <2>10 DEF WriteMstatus, WriteMideleg
    <2> HIDE DEF Kept
    <2> QED
        BY <2>2, <2>3, <2>4, <2>5, <2>6, <2>7, <2>8, <2>9, <2>10
        DEF TrapNext, Run, Machine, Exception, RaiseInterrupt, CsrWrite
<1> QED
    BY <1>1, InitInv, StepInv, PTL DEF TrapSpec, MachineStateKept

\* Returns undo traps, however deeply nested the levels and however long ago.
THEOREM ReturnsRestore == TrapSpec => ReturnRestores
<1>1. IInv /\ [TrapNext]_trapVars
        => [/\ Sret /\ frame[PRV_S] # NoFrame =>
                   priv' = frame[PRV_S].priv /\ status'.ie[priv'] = frame[PRV_S].ie
            /\ Mret /\ frame[PRV_M] # NoFrame =>
                   priv' = frame[PRV_M].priv /\ status'.ie[priv'] = frame[PRV_M].ie]_trapVars
    <2> SUFFICES ASSUME IInv
                 PROVE  /\ Sret /\ frame[PRV_S] # NoFrame =>
                              priv' = frame[PRV_S].priv
                              /\ status'.ie[priv'] = frame[PRV_S].ie
                        /\ Mret /\ frame[PRV_M] # NoFrame =>
                              priv' = frame[PRV_M].priv
                              /\ status'.ie[priv'] = frame[PRV_M].ie
        OBVIOUS
    <2>1. status \in Status
        BY DEF IInv, TrapTypeOK
    <2>2. ASSUME Sret PROVE priv' = status.spp /\ status'.ie[priv'] = status.spie
        BY <2>1, <2>2 DEF Sret, Status, Priv
    <2>3. ASSUME Mret PROVE priv' = status.mpp /\ status'.ie[priv'] = status.mpie
        BY <2>1, <2>3 DEF Mret, Status, Priv
    <2> QED
        BY <2>2, <2>3 DEF IInv, FramesKept
<1> QED
    BY <1>1, InitInv, StepInv, PTL DEF TrapSpec, ReturnRestores

-----------------------------------------------------------------------------
(* The interrupt that is taken.                                            *)

\* A set of interrupt numbers has a lowest one, and Min is it.
LEMMA MinIsLeast ==
    ASSUME NEW S, S \subseteq Nat, S # {}
    PROVE  Min(S) \in S /\ \A other \in S : Min(S) <= other
<1>1. PICK least \in S : \A other \in S : <<other, least>> \notin OpToRel(<, Nat)
    BY NatLessThanWellFounded, WFMin
<1>2. ASSUME NEW other \in S PROVE least <= other
    <2>1. <<other, least>> \notin {pair \in Nat \X Nat : pair[1] < pair[2]}
        BY <1>1 DEF OpToRel
    <2> QED
        BY <2>1
<1>3. \E x \in S : \A y \in S : x <= y
    BY <1>2
<1> QED
    BY <1>3 DEF Min

LEMMA TakenIsPending ==
    ASSUME IInv, PendingIrq # {}
    PROVE  Min(PendingIrq) \in PendingIrq
<1>1. PendingIrq \subseteq Nat
    BY IrqAssumption DEF IInv, TrapTypeOK, PendingIrq
<1> QED
    BY <1>1, MinIsLeast

\* An interrupt goes to the level mideleg names and never interrupts a level that
\* masked it, for every set of interrupt numbers.
THEOREM InterruptsRespectLevels == TrapSpec => InterruptLevel
<1> DEFINE Respects ==
        RaiseInterrupt =>
            /\ priv' >= priv
            /\ ~status'.ie[priv']
            /\ priv = PRV_M => status.ie[PRV_M]
            /\ priv' = PRV_S /\ priv = PRV_S => status.ie[PRV_S]
            /\ \E irq \in mip \cap mie :
                  priv # PRV_H => (irq \in mideleg <=> priv' = PRV_S)
<1>1. IInv /\ [TrapNext]_trapVars => [Respects]_trapVars
    <2> SUFFICES ASSUME IInv, RaiseInterrupt PROVE Respects
        OBVIOUS
    <2> DEFINE irq == Min(PendingIrq)
    <2>1. status \in Status /\ priv \in Priv
        BY DEF IInv, TrapTypeOK
    <2>2. irq \in PendingIrq /\ RaiseException(irq \in mideleg)
        BY TakenIsPending DEF RaiseInterrupt
    <2>3. irq \in mip \cap mie /\ irq \in Enabled
        BY <2>2 DEF PendingIrq
    <2> HIDE DEF irq
    <2>4. priv = PRV_M => status.ie[PRV_M] /\ irq \notin mideleg
        BY <2>3 DEF Enabled
    <2>5. priv = PRV_S /\ irq \in mideleg => status.ie[PRV_S]
        BY <2>3 DEF Enabled
    <2>6. CASE irq \in mideleg /\ priv <= PRV_S
        <3>1. priv' = PRV_S /\ status' = [status EXCEPT !.spie = status.ie[priv],
                                                        !.spp = priv,
                                                        !.ie[PRV_S] = FALSE]
            BY <2>2, <2>6 DEF RaiseException
        <3>2. ~status'.ie[PRV_S]
            BY <2>1, <3>1 DEF Status, Priv
        <3> QED
            BY <2>1, <2>3, <2>4, <2>5, <2>6, <3>1, <3>2 DEF Priv
    <2>7. CASE ~(irq \in mideleg /\ priv <= PRV_S)
        <3>1. priv' = PRV_M /\ status' = [status EXCEPT !.mpie = status.ie[priv],
                                                        !.mpp = priv,
                                                        !.ie[PRV_M] = FALSE]
            BY <2>2, <2>7 DEF RaiseException
        <3>2. ~status'.ie[PRV_M]
            BY <2>1, <3>1 DEF Status, Priv
        <3> QED
            BY <2>1, <2>3, <2>4, <2>5, <2>7, <3>1, <3>2 DEF Priv
    <2> QED
        BY <2>6, <2>7
<1> QED
    BY <1>1, InitInv, StepInv, PTL DEF TrapSpec, InterruptLevel

-----------------------------------------------------------------------------
(* The interpreter loop.  Each of its steps is a step of module Trap or    *)
(* leaves the trap registers alone, so that the invariants above hold of   *)
(* it too.                                                                 *)

LoopTypeOK ==
    /\ phase \in {"host", "call", "loop"}
    /\ due \in Int
    /\ n \in Int
    /\ left \in 0 .. BlockMax
    /\ blockPriv \in Priv
    /\ cached \in BOOLEAN
    /\ late \in Nat
    /\ count \in Nat

\* riscv_cpu_interp enters the loop awake, and a wfi that sleeps leaves it.
Awake == phase = "loop" => ~powerDown

\* A block begins with at least one cycle left.
BlockPaid == InBlock => n - left > -BlockMax

\* What is left of a block is not enough to make an interrupt late.
BlockInTime ==
    InBlock => \/ late + left < BlockMax
               \/ PendingIrq = {} /\ late + left <= BlockMax

LoopInv ==
    /\ LoopTypeOK
    /\ Awake
    /\ BlockPaid
    /\ BlockInTime
    /\ Overrun
    /\ CountedOnce
    /\ Latency
    /\ BlockOnePriv

AllInv == IInv /\ LoopInv

\* The loop is entered with cycles left and no interrupt, and from then on either
\* the first block has begun or an instruction was counted.
Advances ==
    phase = "loop" => /\ due > 0
                      /\ \/ n < due
                         \/ n = due /\ (left > 0 \/ PendingIrq = {})


-----------------------------------------------------------------------------
(* The loop refines the hart: whatever it schedules is a step of Trap.     *)

\* Inside riscv_cpu_interp_x32 the hart runs.
LEMMA LoopStepIsTrapStep == Awake /\ [Next]_vars => [TrapNext]_trapVars
<1> SUFFICES ASSUME Awake, Next PROVE [TrapNext]_trapVars
    BY DEF vars
<1>1. CASE Call \/ Return \/ Enter \/ Timeout \/ Begin \/ Branch \/ FlushInsn
    BY <1>1 DEF Call, Return, Enter, Timeout, Begin, Branch, FlushInsn
<1>2. CASE HostEvent
    BY <1>2 DEF HostEvent, TrapNext
<1>3. CASE EntryInterrupt
    BY <1>3 DEF EntryInterrupt, TrapNext, Run
<1>4. CASE HeadInterrupt \/ FetchFault
    BY <1>4 DEF HeadInterrupt, FetchFault, AtHead, Awake, TrapNext, Run
<1>5. CASE Plain
    BY <1>5 DEF Plain, TrapNext
<1>6. CASE Csr \/ Fault \/ XRet \/ WfiInsn
    BY <1>6 DEF Csr, Fault, XRet, WfiInsn, InBlock, Awake, TrapNext, Run
<1> QED
    BY <1>1, <1>2, <1>3, <1>4, <1>5, <1>6 DEF Next, Step

-----------------------------------------------------------------------------
(* The ways an iteration ends keep the loop's invariant.                   *)

LEMMA LoopInitInv == Init => LoopInv
<1> SUFFICES ASSUME Init PROVE LoopInv
    OBVIOUS
<1>1. LoopTypeOK
    <2>1. due \in Int /\ n \in Int /\ left \in 0 .. BlockMax /\ late \in Nat /\ count \in Nat
        BY SliceAssumption DEF Init
    <2> QED
        BY <2>1 DEF Init, LoopTypeOK, Priv
<1>2. Overrun /\ Latency
    BY SliceAssumption DEF Init, Overrun, Latency
<1> QED
    BY <1>1, <1>2
    DEF Init, LoopInv, Awake, BlockPaid, BlockInTime, InBlock, CountedOnce, BlockOnePriv

\* Neither history stops counting short of the truth while the slice overruns by
\* less than a block.
LEMMA RanCounts ==
    ASSUME LoopInv, phase = "loop", Ran
    PROVE  /\ count' = count + 1
           /\ late' \in Nat
           /\ late' <= late + 1
           /\ PendingIrq = {} => late' = 0
<1>1. count < Slice + BlockMax
    BY SliceAssumption DEF LoopInv, LoopTypeOK, Overrun, CountedOnce
<1> QED
    BY <1>1, SliceAssumption DEF Ran, OneMore, LoopInv, LoopTypeOK

\* An instruction more, one less to run.
LEMMA OneForOne ==
    ASSUME NEW a \in Int, NEW b \in Int, NEW c \in Int, NEW m \in Int,
           c <= a + 1, a + b < m
    PROVE  c + (b - 1) < m
    OBVIOUS

\* An instruction of a block ran, and the block goes on or ended with it.
LEMMA NextInsnInv ==
    ASSUME LoopInv, InBlock, NextInsn, ~powerDown', priv' = priv, cached' \in BOOLEAN
    PROVE  LoopInv'
<1>1. count' = count + 1 /\ late' \in Nat /\ late' <= late + 1
        /\ (PendingIrq = {} => late' = 0)
    BY RanCounts DEF InBlock, NextInsn
<1>2. left' = left - 1 /\ left' \in 0 .. BlockMax - 1
    BY SliceAssumption DEF NextInsn, InBlock, LoopInv, LoopTypeOK
<1>3. late' + left' < BlockMax
    <2>1. late + left < BlockMax \/ (PendingIrq = {} /\ late + left <= BlockMax)
        BY DEF LoopInv, BlockInTime
    <2>2. late \in Nat /\ left \in Int /\ BlockMax \in Nat
        BY SliceAssumption DEF LoopInv, LoopTypeOK
    <2>3. CASE PendingIrq = {}
        BY <1>1, <1>2, <2>2, <2>3
    <2>4. CASE late + left < BlockMax
        <3>1. late \in Int /\ left \in Int /\ late' \in Int /\ BlockMax \in Int
            BY <1>1, <2>2
        <3>2. late' + (left - 1) < BlockMax
            BY <1>1, <2>4, <3>1, OneForOne, Zenon
        <3> QED
            BY <1>2, <3>2, Zenon
    <2> QED
        BY <2>1, <2>3, <2>4
<1>4. UNCHANGED <<phase, due, blockPriv>> /\ n' = n - 1
    BY DEF NextInsn
<1>5. Latency' /\ BlockInTime'
    BY <1>1, <1>2, <1>3, SliceAssumption DEF Latency, BlockInTime
<1> QED
    BY <1>1, <1>2, <1>4, <1>5, SliceAssumption
    DEF InBlock, LoopInv, LoopTypeOK, Awake, BlockPaid, Overrun, CountedOnce,
        BlockOnePriv

LEMMA JumpInsnInv ==
    ASSUME LoopInv, InBlock, JumpInsn, ~powerDown', cached' \in BOOLEAN
    PROVE  LoopInv'
<1>1. count' = count + 1 /\ late' \in Nat /\ late' <= late + 1
        /\ (PendingIrq = {} => late' = 0)
    BY RanCounts DEF InBlock, JumpInsn
<1>2. late' < BlockMax
    BY <1>1, SliceAssumption
    DEF InBlock, LoopInv, LoopTypeOK, BlockInTime, Latency
<1> QED
    BY <1>1, <1>2, SliceAssumption
    DEF JumpInsn, InBlock, LoopInv, LoopTypeOK, Awake, BlockPaid, BlockInTime,
        Overrun, CountedOnce, Latency, BlockOnePriv

LEMMA DoneInterpInv ==
    ASSUME LoopInv, InBlock \/ (AtHead /\ n > 0 /\ PendingIrq = {}), DoneInterp,
           cached' \in BOOLEAN
    PROVE  LoopInv'
<1>1. count' = count + 1 /\ late' \in Nat /\ late' <= late + 1
        /\ (PendingIrq = {} => late' = 0)
    BY RanCounts DEF InBlock, AtHead, DoneInterp
<1>2. late' < BlockMax
    BY <1>1, SliceAssumption
    DEF InBlock, LoopInv, LoopTypeOK, BlockInTime, Latency
<1>3. n - 1 > -BlockMax
    BY SliceAssumption DEF InBlock, AtHead, LoopInv, LoopTypeOK, BlockPaid
<1> QED
    BY <1>1, <1>2, <1>3, SliceAssumption
    DEF DoneInterp, InBlock, AtHead, LoopInv, LoopTypeOK, Awake, BlockPaid,
        BlockInTime, Overrun, CountedOnce, Latency, BlockOnePriv

-----------------------------------------------------------------------------
(* What the hart's own actions leave alone.                                *)

LEMMA MachineKeeps == Machine => priv' = priv /\ (~powerDown => ~powerDown')
<1>1. ASSUME NEW irqs, SetMip(irqs) PROVE priv' = priv /\ (~powerDown => ~powerDown')
    <2>1. ~powerDown => powerDown' = FALSE
        BY <1>1 DEF SetMip
    <2> QED
        BY <1>1, <2>1 DEF SetMip
<1>2. ASSUME NEW irqs, ResetMip(irqs) PROVE priv' = priv /\ powerDown' = powerDown
    BY <1>2 DEF ResetMip
<1> QED
    BY <1>1, <1>2 DEF Machine

LEMMA CsrWriteKeeps == CsrWrite => priv' = priv /\ powerDown' = powerDown
    BY DEF CsrWrite, WriteMstatus, WriteSstatus, WriteMie, WriteMip, WriteMideleg

LEMMA HartKeepsPower ==
    Exception \/ RaiseInterrupt \/ Sret \/ Mret => powerDown' = powerDown
    BY DEF Exception, RaiseInterrupt, RaiseException, Sret, Mret

-----------------------------------------------------------------------------
(* One step of the loop.                                                   *)

LEMMA HostInv ==
    ASSUME IInv, LoopInv, Call \/ HostEvent \/ Return \/ Enter \/ EntryInterrupt
    PROVE  LoopInv'
<1>1. CASE Call
    BY <1>1, SliceAssumption
    DEF Call, trapVars, LoopInv, LoopTypeOK, Awake, BlockPaid, BlockInTime, InBlock,
        Overrun, CountedOnce, Latency, BlockOnePriv
<1>2. CASE HostEvent
    BY <1>2
    DEF HostEvent, loopVars, LoopInv, LoopTypeOK, Awake, BlockPaid, BlockInTime,
        InBlock, Overrun, CountedOnce, Latency, BlockOnePriv
<1>3. CASE Return
    BY <1>3
    DEF Return, trapVars, LoopInv, LoopTypeOK, Awake, BlockPaid, BlockInTime, InBlock,
        Overrun, CountedOnce, Latency, BlockOnePriv
<1>4. CASE Enter
    BY <1>4, SliceAssumption
    DEF Enter, trapVars, LoopInv, LoopTypeOK, Awake, BlockPaid, BlockInTime, InBlock,
        Overrun, CountedOnce, Latency, BlockOnePriv
<1>5. CASE EntryInterrupt
    <2>1. count' = count + 1
        BY <1>5, SliceAssumption
        DEF EntryInterrupt, OneMore, LoopInv, LoopTypeOK, CountedOnce
    <2> QED
        BY <1>5, <2>1, SliceAssumption
        DEF EntryInterrupt, LoopInv, LoopTypeOK, Awake, BlockPaid, BlockInTime,
            InBlock, Overrun, CountedOnce, Latency, BlockOnePriv
<1> QED
    BY <1>1, <1>2, <1>3, <1>4, <1>5

\* A block begun with a cycle left, and its length.
LEMMA HeadArithmetic ==
    ASSUME NEW c \in Int, NEW m \in Int, NEW b \in 1 .. m, c > 0
    PROVE  0 + b <= m /\ c - b > -m
    OBVIOUS

LEMMA HeadInv ==
    ASSUME IInv, LoopInv, Timeout \/ HeadInterrupt \/ Begin \/ FetchFault
    PROVE  LoopInv'
<1>1. CASE Timeout \/ HeadInterrupt
    <2>1. TheEnd /\ phase = "loop" /\ (late' = late \/ late' = 0)
        BY <1>1 DEF Timeout, HeadInterrupt, AtHead
    <2> QED
        BY <2>1, SliceAssumption
        DEF TheEnd, LoopInv, LoopTypeOK, Awake, BlockPaid, BlockInTime, InBlock,
            Overrun, CountedOnce, Latency, BlockOnePriv
<1>2. CASE Begin
    <2>1. PendingIrq' = {}
        BY <1>2 DEF Begin, trapVars, PendingIrq, Enabled
    <2>2. late' = 0 /\ left' \in 1 .. BlockMax /\ n > 0 /\ n' = n
        BY <1>2 DEF Begin
    <2>3. BlockMax \in Int /\ 0 < BlockMax /\ n \in Int
        BY SliceAssumption DEF LoopInv, LoopTypeOK
    <2>4. 0 + left' <= BlockMax /\ n - left' > -BlockMax
        <3>1. n > 0 /\ left' \in 1 .. BlockMax
            BY <2>2
        <3> QED
            BY <2>3, <3>1, HeadArithmetic, Zenon
    <2>5. BlockInTime' /\ Latency'
        BY <2>1, <2>2, <2>3, <2>4 DEF BlockInTime, Latency
    <2>6. BlockPaid'
        BY <2>2, <2>4 DEF BlockPaid
    <2>7. priv \in Priv
        BY DEF IInv, TrapTypeOK
    <2>8. left' \in 0 .. BlockMax
        BY <2>2, <2>3
    <2> QED
        BY <1>2, <2>5, <2>6, <2>7, <2>8
        DEF Begin, trapVars, LoopInv, LoopTypeOK, Awake, Overrun, CountedOnce,
            BlockOnePriv
<1>3. CASE FetchFault
    <2>1. cached' \in BOOLEAN
        BY <1>3 DEF FetchFault, LoopInv, LoopTypeOK
    <2> QED
        BY <1>3, <2>1, DoneInterpInv DEF FetchFault
<1> QED
    BY <1>1, <1>2, <1>3

LEMMA InsnInv ==
    ASSUME IInv, LoopInv, Plain \/ Branch \/ Csr \/ FlushInsn \/ Fault \/ XRet \/ WfiInsn
    PROVE  LoopInv'
<1>1. cached \in BOOLEAN
    BY DEF LoopInv, LoopTypeOK
<1>2. phase = "loop" => ~powerDown
    BY DEF LoopInv, Awake
<1>3. CASE Plain
    <2>1. priv' = priv /\ ~powerDown'
        BY <1>2, <1>3, MachineKeeps DEF Plain, InBlock, trapVars
    <2> QED
        BY <1>1, <1>3, <2>1, NextInsnInv DEF Plain
<1>4. CASE Branch
    BY <1>1, <1>2, <1>4, JumpInsnInv DEF Branch, InBlock, trapVars
<1>5. CASE Csr
    <2>1. priv' = priv /\ ~powerDown'
        BY <1>2, <1>5, CsrWriteKeeps DEF Csr, InBlock
    <2>2. cached' \in BOOLEAN
        BY <1>1, <1>5 DEF Csr
    <2> QED
        BY <1>5, <2>1, <2>2, NextInsnInv DEF Csr
<1>6. CASE FlushInsn
    BY <1>2, <1>6, JumpInsnInv DEF FlushInsn, InBlock, trapVars
<1>7. CASE Fault \/ XRet
    <2>1. cached' \in BOOLEAN
        BY <1>7 DEF Fault, XRet
    <2> QED
        BY <1>7, <2>1, DoneInterpInv DEF Fault, XRet
<1>8. CASE WfiInsn
    <2>1. InBlock /\ Wfi /\ cached' = cached
        BY <1>8 DEF WfiInsn
    <2>2. CASE powerDown'
        BY <1>1, <1>8, <2>1, <2>2, DoneInterpInv DEF WfiInsn
    <2>3. CASE ~powerDown'
        BY <1>1, <1>8, <2>1, <2>3, NextInsnInv DEF WfiInsn, Wfi
    <2> QED
        BY <2>2, <2>3
<1> QED
    BY <1>3, <1>4, <1>5, <1>6, <1>7, <1>8

LEMMA AllInitInv == Init => AllInv
    BY InitInv, LoopInitInv DEF Init, AllInv

LEMMA AllStepInv == AllInv /\ [Next]_vars => AllInv'
<1> SUFFICES ASSUME AllInv, [Next]_vars PROVE AllInv'
    OBVIOUS
<1>1. [TrapNext]_trapVars
    BY LoopStepIsTrapStep DEF AllInv, LoopInv
<1>2. IInv'
    BY <1>1, StepInv DEF AllInv
<1>3. ASSUME UNCHANGED vars PROVE LoopInv'
    <2>1. UNCHANGED trapVars /\ UNCHANGED loopVars
        BY <1>3 DEF vars
    <2>2. PendingIrq' = PendingIrq
        BY <2>1, Zenon DEF trapVars, PendingIrq, Enabled
    <2> QED
        BY <2>1, <2>2
        DEF trapVars, loopVars, AllInv, LoopInv, LoopTypeOK, Awake, BlockPaid,
            BlockInTime, InBlock, Overrun, CountedOnce, Latency, BlockOnePriv
<1>4. ASSUME Next PROVE LoopInv'
    <2>1. IInv /\ LoopInv
        BY DEF AllInv
    <2>2. CASE Call \/ HostEvent \/ Return \/ Enter \/ EntryInterrupt
        BY <2>1, <2>2, HostInv
    <2>3. CASE Timeout \/ HeadInterrupt \/ Begin \/ FetchFault
        BY <2>1, <2>3, HeadInv
    <2>4. CASE Plain \/ Branch \/ Csr \/ FlushInsn \/ Fault \/ XRet \/ WfiInsn
        BY <2>1, <2>4, InsnInv
    <2> QED
        BY <1>4, <2>2, <2>3, <2>4 DEF Next, Step
<1> QED
    BY <1>2, <1>3, <1>4 DEF AllInv

-----------------------------------------------------------------------------
(* The theorems.                                                           *)

\* The loop's counters keep their types, and a slice overruns by less than one
\* block: n_cycles is looked at only between blocks.
THEOREM SliceOverrun == Spec => [](TypeOK /\ Overrun)
<1>1. AllInv => TypeOK /\ Overrun
    BY DEF AllInv, IInv, LoopInv, LoopTypeOK, TypeOK
<1> QED
    BY <1>1, AllInitInv, AllStepInv, PTL DEF Spec

\* An interrupt waits for less than a block, for blocks of any length: the loop
\* looks for one at every block head, and no block outlives its page.
THEOREM InterruptLatency == Spec => []Latency
<1>1. AllInv => Latency
    BY DEF AllInv, LoopInv
<1> QED
    BY <1>1, AllInitInv, AllStepInv, PTL DEF Spec

\* No instruction runs at another privilege than its block was fetched with.
THEOREM BlocksKeepPrivilege == Spec => []BlockOnePriv
<1>1. AllInv => BlockOnePriv
    BY DEF AllInv, LoopInv
<1> QED
    BY <1>1, AllInitInv, AllStepInv, PTL DEF Spec

\* The cycle counter counts every instruction once, on every way out of the loop.
THEOREM EveryInstructionCounted == Spec => []CountedOnce
<1>1. AllInv => CountedOnce
    BY DEF AllInv, LoopInv
<1> QED
    BY <1>1, AllInitInv, AllStepInv, PTL DEF Spec

\* The hart that the loop drives is a hart of module Trap.
THEOREM LoopRefinesTrap == Spec => TrapSpec
<1>1. Init => TrapInit
    BY DEF Init
<1>2. AllInv => Awake
    BY DEF AllInv, LoopInv
<1> QED
    BY <1>1, <1>2, AllInitInv, AllStepInv, LoopStepIsTrapStep, PTL DEF Spec, TrapSpec

\* What is proved of module Trap therefore holds of the hart under the loop.
THEOREM LoopKeepsTrapPromises ==
    Spec => /\ []NoLostWakeup
            /\ MachineStateKept
            /\ InterruptLevel
            /\ ReturnRestores
    BY LoopRefinesTrap, WakeupNotLost, MachineStateIsKept, InterruptsRespectLevels,
       ReturnsRestore, PTL

LEMMA AdvancesStep == AllInv /\ Advances /\ [Next]_vars => Advances'
<1> SUFFICES ASSUME AllInv, Advances, [Next]_vars PROVE Advances'
    OBVIOUS
<1>1. n \in Int /\ due \in Int /\ left \in 0 .. BlockMax
    BY DEF AllInv, LoopInv, LoopTypeOK
<1>2. CASE UNCHANGED vars
    <2>1. PendingIrq' = PendingIrq
        BY <1>2, Zenon DEF vars, trapVars, PendingIrq, Enabled
    <2> QED
        BY <1>2, <2>1 DEF vars, loopVars, Advances
<1>3. CASE Call \/ Return \/ EntryInterrupt
    BY <1>3 DEF Call, Return, EntryInterrupt, Advances
<1>4. CASE HostEvent
    BY <1>4 DEF HostEvent, loopVars, Advances
<1>5. CASE Enter
    <2>1. PendingIrq' = {}
        BY <1>5 DEF Enter, trapVars, PendingIrq, Enabled
    <2> QED
        BY <1>5, <2>1 DEF Enter, Advances
<1>6. CASE Timeout \/ HeadInterrupt
    BY <1>6 DEF Timeout, HeadInterrupt, TheEnd, Advances
<1>7. CASE Begin
    <2>1. left' \in 1 .. BlockMax /\ n' = n /\ due' = due /\ phase = "loop"
        BY <1>7 DEF Begin, AtHead
    <2>2. left' > 0
        BY <2>1, SliceAssumption
    <2> QED
        BY <2>1, <2>2 DEF Advances
<1>8. ASSUME InBlock, NextInsn \/ JumpInsn PROVE Advances'
    <2>1. n' = n - 1 /\ due' = due /\ phase = "loop"
        BY <1>8 DEF InBlock, NextInsn, JumpInsn
    <2>2. n' < due'
        BY <1>1, <2>1 DEF Advances
    <2> QED
        BY <2>1, <2>2 DEF Advances
<1>9. ASSUME DoneInterp PROVE Advances'
    BY <1>9 DEF DoneInterp, Advances
<1> QED
    BY <1>2, <1>3, <1>4, <1>5, <1>6, <1>7, <1>8, <1>9
    DEF Next, Step, FetchFault, Plain, Branch, Csr, FlushInsn, Fault, XRet, WfiInsn

\* riscv_cpu_interp_x32 always uses up part of the slice it is given, whatever
\* interrupts and traps come, so that riscv_cpu_interp's while cannot spin.
THEOREM LoopAdvances == Spec => Progress
<1>1. Init => Advances
    BY DEF Init, Advances
<1>2. AllInv /\ Advances /\ [Next]_vars
        => [phase = "loop" /\ phase' = "call" => due' < due]_vars
    <2> SUFFICES ASSUME AllInv, Advances, Next, phase = "loop", phase' = "call"
                 PROVE  due' < due
        OBVIOUS
    <2>1. n \in Int /\ due \in Int
        BY DEF AllInv, LoopInv, LoopTypeOK
    <2>2. CASE Timeout
        BY <2>1, <2>2 DEF Timeout, AtHead, TheEnd, Advances
    <2>3. CASE HeadInterrupt
        BY <2>1, <2>3 DEF HeadInterrupt, AtHead, TheEnd, RaiseInterrupt, Advances
    <2>4. CASE DoneInterp
        BY <2>1, <2>4 DEF DoneInterp, Advances
    <2>5. ~(NextInsn \/ JumpInsn)
        BY DEF NextInsn, JumpInsn
    <2> QED
        BY <2>2, <2>3, <2>4, <2>5
        DEF Next, Step, Call, HostEvent, loopVars, Return, EntryInterrupt, Enter,
            Begin, FetchFault, Plain, Branch, Csr, FlushInsn, Fault, XRet, WfiInsn
<1> QED
    BY <1>1, <1>2, AdvancesStep, AllInitInv, AllStepInv, PTL DEF Spec, Progress
=============================================================================
