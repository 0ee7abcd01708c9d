-------------------------------- MODULE Mmu --------------------------------
(***************************************************************************)
(* Address translation of the emulated RV32 hart: the Sv32 page-table walk *)
(* (get_phys_addr), the three software TLBs it fills (tlb_read, tlb_write  *)
(* and tlb_code in emu/riscv_cpu_priv.h) and every operation that changes  *)
(* what an address means: loads, stores, fetches, CSR writes, traps,       *)
(* returns from traps and sfence.vma.                                      *)
(*                                                                         *)
(* Data is abstracted to pages.  A RAM page holds Fan words, each a PTE; a *)
(* store replaces one word, so page tables are ordinary memory that the    *)
(* guest edits.  The physical page number of a PTE is taken after its      *)
(* truncation to 32 bit addresses.                                         *)
(***************************************************************************)
EXTENDS Integers, FiniteSets

CONSTANTS
    Fan,       \* words of a page table (1024 in the code)
    Page,      \* page numbers, virtual and physical alike (2^20)
    RamPage,   \* the physical pages registered as RAM; others: devices, holes
    TlbSize,   \* entries of each TLB (TLB_SIZE = 256)
    Pte,       \* the PTE values that memory may hold
    SatpPpn,   \* root table numbers the guest writes to satp
    Mem0,      \* initial memory images
    Edits,     \* the stores the guest makes: <<word, PTE value>>
    MstatusWrites   \* the values the guest writes to mstatus

Access   == {"read", "write", "code"}    \* ACCESS_READ, ACCESS_WRITE, ACCESS_CODE
Slot     == RamPage \X (0 .. Fan - 1)    \* a word of RAM
PteField == [v : BOOLEAN, r : BOOLEAN, w : BOOLEAN, x : BOOLEAN,
             u : BOOLEAN, a : BOOLEAN, d : BOOLEAN, ppn : Page]
IsPointer(pte) == pte.v /\ ~pte.r /\ ~pte.w /\ ~pte.x
\* A plausible bug: a walk for a write forgets the D bit.
MarkWithoutD(pte, acc) == [pte EXCEPT !.a = TRUE]

Mark(pte, acc) == [pte EXCEPT !.a = TRUE, !.d = (@ \/ acc = "write")]
ZeroPte  == [v |-> FALSE, r |-> FALSE, w |-> FALSE, x |-> FALSE,
             u |-> FALSE, a |-> FALSE, d |-> FALSE, ppn |-> 0]

ASSUME FanAssumption == Fan \in Nat \ {0}
ASSUME TlbAssumption == TlbSize \in Nat \ {0}
ASSUME PageAssumption ==
    /\ Page \subseteq Nat
    /\ 0 \in Page
    /\ RamPage \subseteq Page
    /\ SatpPpn \subseteq Page
    /\ \A p \in Page, q \in Page : ((q - (q % Fan)) + (p % Fan)) \in Page
ASSUME PteAssumption ==
    /\ Pte \subseteq PteField
    /\ \A pte \in Pte, acc \in Access : ~IsPointer(pte) => Mark(pte, acc) \in Pte
    /\ Mem0 \subseteq [Slot -> Pte]
    /\ Edits \subseteq Slot \X Pte

PRV_U == 0
PRV_S == 1
PRV_H == 2
PRV_M == 3
Priv  == {PRV_U, PRV_S, PRV_H, PRV_M}

Mstatus == [mprv : BOOLEAN, mpp : Priv, spp : {PRV_U, PRV_S},
            sum : BOOLEAN, mxr : BOOLEAN]

ASSUME MstatusAssumption == MstatusWrites \subseteq Mstatus

VARIABLES
    priv,      \* s->priv
    mstatus,   \* the fields of s->mstatus that translation and traps use
    satp,      \* s->satp
    mem,       \* RAM, word by word
    tlb,       \* tlb_read, tlb_write, tlb_code
    edited     \* history: words the guest stored to since the last full flush

vars == <<priv, mstatus, satp, mem, tlb, edited>>

Satp    == [mode : BOOLEAN, ppn : SatpPpn]
NoEntry == [vp |-> -1]                              \* vaddr = -1
Entry   == [vp : Page, pp : RamPage] \cup {NoEntry}
Tlb     == [Access -> [0 .. TlbSize - 1 -> Entry]]
Index(vp) == vp % TlbSize
NoPage  == -1

-----------------------------------------------------------------------------
(* The page-table walk.                                                    *)

\* The privilege an access is checked with: MPRV substitutes MPP for data.
EffPriv(acc) == IF mstatus.mprv /\ acc # "code" THEN mstatus.mpp ELSE priv

Physical(acc) == EffPriv(acc) = PRV_M \/ ~satp.mode

\* phys_read_u32: words outside RAM read as zero, an invalid PTE.
Word(slot) == IF slot \in Slot THEN mem[slot] ELSE ZeroPte

RootSlot(vp) == <<satp.ppn, (vp \div Fan) % Fan>>

\* The word that decides the translation: the level 1 word when it is a
\* leaf or invalid, else the word of the level 0 table it points to.
LeafSlot(vp) ==
    LET root == Word(RootSlot(vp)) IN
    IF IsPointer(root) THEN <<root.ppn, vp % Fan>> ELSE RootSlot(vp)

\* The checks on a leaf, in terms of the xwr, U, SUM and MXR bits.
Permitted(pte, acc) ==
    /\ pte.v
    /\ ~IsPointer(pte)
    /\ pte.w => pte.r                                  \* xwr is not 2 or 6
    /\ IF EffPriv(acc) = PRV_S THEN pte.u => mstatus.sum ELSE pte.u
    /\ \/ acc = "read"  /\ (pte.r \/ (mstatus.mxr /\ pte.x))
       \/ acc = "write" /\ pte.w
       \/ acc = "code"  /\ pte.x

\* A level 1 leaf maps a superpage: the low page bits come from the address.
Target(vp) ==
    LET ppn == Word(LeafSlot(vp)).ppn IN
    IF LeafSlot(vp) = RootSlot(vp) THEN (ppn - (ppn % Fan)) + (vp % Fan) ELSE ppn

\* get_phys_addr without its write to the PTE.
Walk(acc, vp) ==
    IF Physical(acc) THEN vp
    ELSE IF Permitted(Word(LeafSlot(vp)), acc) THEN Target(vp)
    ELSE NoPage

\* The A and D bits that a successful walk writes back.
Marked(acc, vp) ==
    IF Physical(acc) THEN mem
    ELSE [mem EXCEPT ![LeafSlot(vp)] = Mark(@, acc)]

-----------------------------------------------------------------------------
(* TLB maintenance, privilege changes and traps.                           *)

EmptyTlb == [acc \in Access |-> [i \in 0 .. TlbSize - 1 |-> NoEntry]]

FlushAll == tlb' = EmptyTlb /\ edited' = {}
KeepTlb  == UNCHANGED <<tlb, edited>>

\* A plausible bug: a change of privilege keeps the TLBs.
SetPrivNoFlush(p) == priv' = p /\ KeepTlb

\* set_priv: the TLBs are flushed when the privilege changes, else kept.
SetPriv(p) ==
    /\ priv' = p
    /\ IF priv # p THEN FlushAll ELSE KeepTlb

\* raise_exception2: which traps medeleg and mideleg delegate is an input.
RaiseException ==
    /\ \/ /\ priv <= PRV_S
          /\ mstatus' = [mstatus EXCEPT !.spp = priv]
          /\ SetPriv(PRV_S)
       \/ /\ mstatus' = [mstatus EXCEPT !.mpp = priv]
          /\ SetPriv(PRV_M)
    /\ UNCHANGED satp

\* A plausible bug: SUM is not taken for a part of the MMU's configuration.
SetMstatusNoSum(new) ==
    /\ mstatus' = new
    /\ IF new.mprv # mstatus.mprv \/ new.mxr # mstatus.mxr THEN FlushAll ELSE KeepTlb
    /\ UNCHANGED <<priv, satp, mem>>

\* set_mstatus: flush "if change of MMU config".
SetMstatus(new) ==
    /\ mstatus' = new
    /\ IF \/ new.mprv # mstatus.mprv
          \/ new.sum # mstatus.sum
          \/ new.mxr # mstatus.mxr
          \/ mstatus.mprv /\ new.mpp # mstatus.mpp
       THEN FlushAll
       ELSE KeepTlb
    /\ UNCHANGED <<priv, satp, mem>>

-----------------------------------------------------------------------------
(* Memory accesses.  target_read_u*, target_write_u* and the code-block    *)
(* head of the interpreter try the TLB first; on a miss the slow path      *)
(* walks, sets A and D, and caches the page if it is RAM.                  *)

Hit(acc, vp) == tlb[acc][Index(vp)].vp = vp

Fill(acc, vp, pp) ==
    tlb' = [tlb EXCEPT ![acc][Index(vp)] = [vp |-> vp, pp |-> pp]]

LoadHit(vp) == Hit("read", vp) /\ UNCHANGED vars

\* target_read_slow; a device or unmapped page is read without being cached.
LoadMiss(vp) ==
    /\ ~Hit("read", vp)
    /\ Walk("read", vp) # NoPage
    /\ mem' = Marked("read", vp)
    /\ IF Walk("read", vp) \in RamPage
       THEN Fill("read", vp, Walk("read", vp))
       ELSE UNCHANGED tlb
    /\ UNCHANGED <<priv, mstatus, satp, edited>>

\* A store replaces one word of the page it reaches.
StoreHit(vp, word, pte) ==
    LET slot == <<tlb["write"][Index(vp)].pp, word>> IN
    /\ Hit("write", vp)
    /\ <<slot, pte>> \in Edits
    /\ mem' = [mem EXCEPT ![slot] = pte]
    /\ edited' = edited \cup {slot}
    /\ UNCHANGED <<priv, mstatus, satp, tlb>>

\* target_write_slow: the walk writes A and D before the store is done.
StoreMiss(vp, word, pte) ==
    LET page == Walk("write", vp) IN
    /\ ~Hit("write", vp)
    /\ page # NoPage
    /\ IF page \in RamPage
       THEN /\ <<<<page, word>>, pte>> \in Edits
            /\ mem' = [Marked("write", vp) EXCEPT ![<<page, word>>] = pte]
            /\ Fill("write", vp, page)
            /\ edited' = edited \cup {<<page, word>>}
       ELSE /\ mem' = Marked("write", vp)
            /\ KeepTlb
    /\ UNCHANGED <<priv, mstatus, satp>>

\* A new code block; code outside RAM is a fetch fault, after the walk.
FetchHit(vp) == Hit("code", vp) /\ UNCHANGED vars

FetchMiss(vp) ==
    LET page == Walk("code", vp) IN
    /\ ~Hit("code", vp)
    /\ page # NoPage
    /\ mem' = Marked("code", vp)
    /\ IF page \in RamPage
       THEN Fill("code", vp, page) /\ UNCHANGED <<priv, mstatus, satp, edited>>
       ELSE RaiseException

PageFault(acc, vp) ==
    /\ ~Hit(acc, vp)
    /\ Walk(acc, vp) = NoPage
    /\ RaiseException
    /\ UNCHANGED mem

-----------------------------------------------------------------------------
(* Instructions and events that change the MMU's configuration.            *)

\* ecall, ebreak, an illegal instruction or an interrupt.
Trap == RaiseException /\ UNCHANGED mem

\* csr_write 0x300, allowed in M: every field of the mask is writable.
WriteMstatus(new) == priv = PRV_M /\ SetMstatus(new)

\* csr_write 0x100: only the fields of SSTATUS_MASK change.
WriteSstatus(spp, sum, mxr) ==
    /\ priv >= PRV_S
    /\ SetMstatus([mstatus EXCEPT !.spp = spp, !.sum = sum, !.mxr = mxr])

\* csr_write 0x180: always flushes, changed or not.
WriteSatp(new) ==
    /\ priv >= PRV_S
    /\ satp' = new
    /\ FlushAll
    /\ UNCHANGED <<priv, mstatus, mem>>

\* sfence.vma, with or without an address: tlb_flush_vaddr flushes all.
SfenceVma ==
    /\ priv # PRV_U
    /\ FlushAll
    /\ UNCHANGED <<priv, mstatus, satp, mem>>

\* handle_sret
Sret ==
    /\ priv >= PRV_S
    /\ mstatus' = [mstatus EXCEPT !.spp = PRV_U]
    /\ SetPriv(mstatus.spp)
    /\ UNCHANGED <<satp, mem>>

\* handle_mret
Mret ==
    /\ priv = PRV_M
    /\ mstatus' = [mstatus EXCEPT !.mpp = PRV_U]
    /\ SetPriv(mstatus.mpp)
    /\ UNCHANGED <<satp, mem>>

\* riscv_cpu_flush_tlb_write_range_ram: the host drops the write entries of
\* a RAM range, to see the next store to it (dirty page tracking).
FlushWriteRange(pages) ==
    /\ tlb' = [tlb EXCEPT !["write"] =
                 [i \in 0 .. TlbSize - 1 |->
                    IF @[i] # NoEntry /\ @[i].pp \in pages THEN NoEntry ELSE @[i]]]
    /\ UNCHANGED <<priv, mstatus, satp, mem, edited>>

-----------------------------------------------------------------------------
\* riscv_cpu_init: machine mode, all CSRs zero, empty TLBs.
Init ==
    /\ priv = PRV_M
    /\ mstatus = [mprv |-> FALSE, mpp |-> PRV_U, spp |-> PRV_U,
                  sum |-> FALSE, mxr |-> FALSE]
    /\ satp \in [mode : {FALSE}, ppn : SatpPpn]
    /\ mem \in Mem0
    /\ tlb = EmptyTlb
    /\ edited = {}

Load(vp)  == LoadHit(vp) \/ LoadMiss(vp) \/ PageFault("read", vp)
Store(vp, word, pte) ==
    StoreHit(vp, word, pte) \/ StoreMiss(vp, word, pte) \/ PageFault("write", vp)
Fetch(vp) == FetchHit(vp) \/ FetchMiss(vp) \/ PageFault("code", vp)

Next ==
    \/ \E vp \in Page : Load(vp)
    \/ \E vp \in Page, word \in 0 .. Fan - 1, pte \in Pte : Store(vp, word, pte)
    \/ \E vp \in Page : Fetch(vp)
    \/ Trap
    \/ \E new \in MstatusWrites : WriteMstatus(new)
    \/ \E spp \in {PRV_U, PRV_S}, sum \in BOOLEAN, mxr \in BOOLEAN :
          WriteSstatus(spp, sum, mxr)
    \/ \E new \in Satp : WriteSatp(new)
    \/ SfenceVma
    \/ Sret
    \/ Mret
    \/ \E pages \in SUBSET RamPage : FlushWriteRange(pages)

Spec == Init /\ [][Next]_vars

-----------------------------------------------------------------------------
(* Properties.                                                             *)

TypeOK ==
    /\ priv \in Priv
    /\ mstatus \in Mstatus
    /\ satp \in Satp
    /\ mem \in [Slot -> Pte]
    /\ tlb \in Tlb
    /\ edited \subseteq Slot

\* The words a walk reads.
Path(acc, vp) == IF Physical(acc) THEN {} ELSE {RootSlot(vp), LeafSlot(vp)}

\* A cached translation is current: unless the guest stored to a page-table
\* word it was read from (and owes an sfence.vma), walking again now, with
\* the privilege and the status bits of now, gives the same page.
Current(acc) ==
    \A i \in 0 .. TlbSize - 1 :
        LET e == tlb[acc][i] IN
        e # NoEntry /\ Path(acc, e.vp) \cap edited = {}
            => Walk(acc, e.vp) = e.pp

\* Whatever sequence of CSR writes, traps, returns and page faults has run,
\* the hart never executes code through a translation that the current
\* privilege, SUM, MXR and satp would not give (set_priv, set_mstatus and
\* csr_write flush often enough for instruction fetches).
CodeCurrent == Current("code")

\* The same for loads and stores, as long as MPRV is clear.
DataCurrent == ~mstatus.mprv => Current("read") /\ Current("write")

\* The same for loads and stores with MPRV set too: what the comment of
\* set_mstatus (riscv_cpu.c:678) promises.
MmuConfigFlushed == Current("read") /\ Current("write")

\* No access is served by a TLB without the page table recording it: the leaf
\* behind a cached read, write or code page has A set, behind a cached write
\* page D too, so that no store escapes the guest's dirty-page tracking.
UseRecorded ==
    \A acc \in Access, i \in 0 .. TlbSize - 1 :
        LET e == tlb[acc][i] IN
        /\ acc = "code" \/ ~mstatus.mprv
        /\ e # NoEntry
        /\ ~Physical(acc)
        /\ Path(acc, e.vp) \cap edited = {}
        => /\ Word(LeafSlot(e.vp)).a
           /\ acc = "write" => Word(LeafSlot(e.vp)).d

=============================================================================
