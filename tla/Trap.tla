-------------------------------- MODULE Trap --------------------------------
(***************************************************************************)
(* Traps, returns, interrupts and wait-for-interrupt of the emulated hart: *)
(* raise_exception2, handle_sret, handle_mret, get_pending_irq_mask,       *)
(* raise_interrupt, the CSR writes that reach their state, and the machine *)
(* side that raises and lowers interrupt lines.                            *)
(*                                                                         *)
(* Each action is one instruction or one event, in any order the guest and *)
(* the machine choose; module Interp adds the loop that schedules them.    *)
(***************************************************************************)
EXTENDS Integers, FiniteSets, FiniteSetsExt

CONSTANTS
    Irq,             \* interrupt numbers: bits of mip and mie
    SIrq,            \* those mideleg can delegate: SSIP, STIP, SEIP
    SoftIrq,         \* those a write to mip can change: SSIP, STIP
    MieIrq,          \* those a write to mie can enable (all but MEIP)
    StatusWrites,    \* values the guest writes to mstatus
    MidelegWrites    \* values the guest writes to mideleg

ASSUME IrqAssumption ==
    /\ Irq \subseteq Nat
    /\ IsFiniteSet(Irq)
    /\ SIrq \subseteq Irq
    /\ SoftIrq \subseteq SIrq
    /\ MieIrq \subseteq Irq
    /\ SIrq \subseteq MieIrq
    /\ MidelegWrites \subseteq SUBSET SIrq

PRV_U == 0
PRV_S == 1
PRV_H == 2
PRV_M == 3
Priv  == {PRV_U, PRV_S, PRV_H, PRV_M}

Status == [ie : [Priv -> BOOLEAN], spie : BOOLEAN, mpie : BOOLEAN,
           spp : {PRV_U, PRV_S}, mpp : Priv]

ASSUME StatusAssumption == StatusWrites \subseteq Status

VARIABLES
    priv,        \* s->priv
    status,      \* interrupt-enable and previous-privilege fields of s->mstatus
    mie,         \* s->mie
    mip,         \* s->mip
    mideleg,     \* s->mideleg
    powerDown,   \* s->power_down_flag
    frame        \* history: per handler level, what its latest trap interrupted

trapVars == <<priv, status, mie, mip, mideleg, powerDown, frame>>

Handler == {PRV_S, PRV_M}
NoFrame == [priv |-> -1]
Frame   == [priv : Priv, ie : BOOLEAN] \cup {NoFrame}

\* The value of a register after a write under a mask.
Masked(old, new, mask) == (old \ mask) \cup (new \cap mask)

-----------------------------------------------------------------------------
(* Taking a trap and returning from it.                                    *)

\* History: a handler of level p starts; its return, or a guest that rewrites
\* what the trap saved, ends it.
Interrupted(p) == frame' = [frame EXCEPT ![p] = [priv |-> priv, ie |-> status.ie[priv]]]
Forget(levels) == frame' = [p \in Handler |-> IF p \in levels THEN NoFrame ELSE frame[p]]

\* A plausible bug: the handler's enable bit is saved, not the interrupted one's.
RaiseExceptionSavesOwn(delegated) ==
    /\ IF delegated /\ priv <= PRV_S
       THEN /\ status' = [status EXCEPT !.spie = status.ie[PRV_S],
                                        !.spp = priv,
                                        !.ie[PRV_S] = FALSE]
            /\ priv' = PRV_S
            /\ Interrupted(PRV_S)
       ELSE /\ status' = [status EXCEPT !.mpie = status.ie[PRV_M],
                                        !.mpp = priv,
                                        !.ie[PRV_M] = FALSE]
            /\ priv' = PRV_M
            /\ Interrupted(PRV_M)
    /\ UNCHANGED <<mie, mip, mideleg, powerDown>>

\* raise_exception2: the trap goes to S when it is delegated and the hart is not
\* above S, else to M; the interrupted privilege's enable bit is saved.
RaiseException(delegated) ==
    /\ IF delegated /\ priv <= PRV_S
       THEN /\ status' = [status EXCEPT !.spie = status.ie[priv],
                                        !.spp = priv,
                                        !.ie[PRV_S] = FALSE]
            /\ priv' = PRV_S
            /\ Interrupted(PRV_S)
       ELSE /\ status' = [status EXCEPT !.mpie = status.ie[priv],
                                        !.mpp = priv,
                                        !.ie[PRV_M] = FALSE]
            /\ priv' = PRV_M
            /\ Interrupted(PRV_M)
    /\ UNCHANGED <<mie, mip, mideleg, powerDown>>

\* Any instruction that raises an exception; medeleg's bit is an input.
Exception == \E delegated \in BOOLEAN : RaiseException(delegated)

\* handle_sret
Sret ==
    /\ priv >= PRV_S
    /\ status' = [status EXCEPT !.ie[status.spp] = status.spie,
                                !.spie = TRUE,
                                !.spp = PRV_U]
    /\ priv' = status.spp
    /\ Forget({PRV_S})
    /\ UNCHANGED <<mie, mip, mideleg, powerDown>>

\* handle_mret
Mret ==
    /\ priv = PRV_M
    /\ status' = [status EXCEPT !.ie[status.mpp] = status.mpie,
                                !.mpie = TRUE,
                                !.mpp = PRV_U]
    /\ priv' = status.mpp
    /\ Forget({PRV_M})
    /\ UNCHANGED <<mie, mip, mideleg, powerDown>>

-----------------------------------------------------------------------------
(* Interrupts.                                                             *)

\* A plausible bug: in S the enable bit is not looked at.
EnabledIgnoringSie ==
    CASE priv = PRV_M -> IF status.ie[PRV_M] THEN Irq \ mideleg ELSE {}
      [] OTHER -> Irq

\* get_pending_irq_mask
Enabled ==
    CASE priv = PRV_M -> IF status.ie[PRV_M] THEN Irq \ mideleg ELSE {}
      [] priv = PRV_S -> IF status.ie[PRV_S] THEN Irq ELSE Irq \ mideleg
      [] OTHER -> Irq
PendingIrq == mip \cap mie \cap Enabled

\* raise_interrupt: the lowest numbered one is taken.
RaiseInterrupt ==
    /\ PendingIrq # {}
    /\ RaiseException(Min(PendingIrq) \in mideleg)

\* wfi: illegal in U; goes to sleep unless an enabled source is pending.
Wfi ==
    /\ priv # PRV_U
    /\ powerDown' = (mip \cap mie = {})
    /\ UNCHANGED <<priv, status, mie, mip, mideleg, frame>>

\* A plausible bug: raising a line does not wake the hart.
SetMipNoWake(irqs) ==
    /\ mip' = mip \cup irqs
    /\ UNCHANGED <<priv, status, mie, mideleg, powerDown, frame>>

\* riscv_cpu_set_mip, called by the machine.
SetMip(irqs) ==
    /\ mip' = mip \cup irqs
    /\ powerDown' = (powerDown /\ mip' \cap mie = {})
    /\ UNCHANGED <<priv, status, mie, mideleg, frame>>

\* riscv_cpu_reset_mip
ResetMip(irqs) ==
    /\ mip' = mip \ irqs
    /\ UNCHANGED <<priv, status, mie, mideleg, powerDown, frame>>

-----------------------------------------------------------------------------
(* csr_write, the registers above; an S register is a masked view of an M  *)
(* register.                                                               *)

\* 0x300: MSTATUS_MASK leaves HIE out.
WriteMstatus(new) ==
    /\ priv = PRV_M
    /\ status' = [new EXCEPT !.ie[PRV_H] = status.ie[PRV_H]]
    /\ Forget(Handler)
    /\ UNCHANGED <<priv, mie, mip, mideleg, powerDown>>

\* 0x100: the U and S fields.
WriteSstatus(new) ==
    /\ priv >= PRV_S
    /\ status' = [status EXCEPT !.ie[PRV_U] = new.ie[PRV_U],
                                !.ie[PRV_S] = new.ie[PRV_S],
                                !.spie = new.spie,
                                !.spp = new.spp]
    /\ Forget({PRV_S})
    /\ UNCHANGED <<priv, mie, mip, mideleg, powerDown>>

\* A plausible bug: sie is written under mie's mask.
WriteMieUnmasked(new) ==
    /\ priv >= PRV_S
    /\ mie' = Masked(mie, new, MieIrq)
    /\ UNCHANGED <<priv, status, mip, mideleg, powerDown, frame>>

\* 0x304 and 0x104
WriteMie(new) ==
    /\ \/ priv = PRV_M /\ mie' = Masked(mie, new, MieIrq)
       \/ priv >= PRV_S /\ mie' = Masked(mie, new, mideleg)
    /\ UNCHANGED <<priv, status, mip, mideleg, powerDown, frame>>

\* 0x344 and 0x144
WriteMip(new) ==
    /\ \/ priv = PRV_M /\ mip' = Masked(mip, new, SoftIrq)
       \/ priv >= PRV_S /\ mip' = Masked(mip, new, mideleg)
    /\ UNCHANGED <<priv, status, mie, mideleg, powerDown, frame>>

\* 0x303
WriteMideleg(new) ==
    /\ priv = PRV_M
    /\ mideleg' = Masked(mideleg, new, SIrq)
    /\ UNCHANGED <<priv, status, mie, mip, powerDown, frame>>

CsrWrite ==
    \/ \E new \in StatusWrites : WriteMstatus(new) \/ WriteSstatus(new)
    \/ \E new \in SUBSET Irq : WriteMie(new) \/ WriteMip(new)
    \/ \E new \in MidelegWrites : WriteMideleg(new)

-----------------------------------------------------------------------------
\* riscv_cpu_init
TrapInit ==
    /\ priv = PRV_M
    /\ status = [ie |-> [p \in Priv |-> FALSE], spie |-> FALSE, mpie |-> FALSE,
                 spp |-> PRV_U, mpp |-> PRV_U]
    /\ mie = {}
    /\ mip = {}
    /\ mideleg = {}
    /\ powerDown = FALSE
    /\ frame = [p \in Handler |-> NoFrame]

\* A hart in power-down executes nothing (riscv_cpu_interp).
Run == ~powerDown /\ (Exception \/ RaiseInterrupt \/ Sret \/ Mret \/ Wfi \/ CsrWrite)

Machine == \E irqs \in SUBSET Irq : SetMip(irqs) \/ ResetMip(irqs)

TrapNext == Run \/ Machine

TrapSpec == TrapInit /\ [][TrapNext]_trapVars

-----------------------------------------------------------------------------
(* Properties.                                                             *)

TrapTypeOK ==
    /\ priv \in Priv
    /\ status \in Status
    /\ mie \in SUBSET Irq
    /\ mip \in SUBSET Irq
    /\ mideleg \in SUBSET SIrq
    /\ powerDown \in BOOLEAN
    /\ frame \in [Handler -> Frame]

\* No lost wakeup: a hart never sleeps while a source it enabled is pending,
\* in whatever order wfi, CSR writes and the machine's calls come (wfi's check,
\* riscv_cpu_set_mip).
NoLostWakeup == powerDown => mip \cap mie = {}

\* M's own enable bit is out of reach of the guest below M: every step of a
\* hart in U or S that leaves it there keeps MIE, MPIE, MPP and mideleg (traps
\* into S, sret, sstatus, sie and sip never touch M's half of mstatus).
MachineStateKept ==
    [][priv <= PRV_S /\ priv' <= PRV_S
         => /\ status'.ie[PRV_M] = status.ie[PRV_M]
            /\ status'.mpie = status.mpie
            /\ status'.mpp = status.mpp
            /\ mideleg' = mideleg
            /\ mie' \ mideleg = mie \ mideleg]_trapVars

\* An interrupt preempts only what may be preempted: one that is delegated goes
\* to S and never interrupts M or an S that cleared SIE, one that is not goes to
\* M and never interrupts an M that cleared MIE; the handler starts masked
\* against its own level.  PRV_H, which a guest can reach with MPP = 2, takes
\* every interrupt to M.
InterruptLevel ==
    [][RaiseInterrupt =>
         /\ priv' >= priv
         /\ ~status'.ie[priv']
         /\ priv = PRV_M => status.ie[PRV_M]
         /\ priv' = PRV_S /\ priv = PRV_S => status.ie[PRV_S]
         /\ \E irq \in mip \cap mie :
               priv # PRV_H => (irq \in mideleg <=> priv' = PRV_S)]_trapVars

\* Returning from a trap undoes it, however many traps into M, returns to S and
\* CSR writes by S ran in between: sret and mret give back the privilege that the
\* handler's trap interrupted and its enable bit, unless the guest overwrote them.
ReturnRestores ==
    [][/\ Sret /\ frame[PRV_S] # NoFrame =>
             priv' = frame[PRV_S].priv /\ status'.ie[priv'] = frame[PRV_S].ie
       /\ Mret /\ frame[PRV_M] # NoFrame =>
             priv' = frame[PRV_M].priv /\ status'.ie[priv'] = frame[PRV_M].ie]_trapVars
=============================================================================
