------------------------------- MODULE PhysMem -------------------------------
(***************************************************************************)
(* A dirty-tracked RAM range of the physical memory map (emu/iomem.c) and  *)
(* the write TLB of the hart that stores to it.  The first store to a page *)
(* takes the slow path, which sets the page's dirty bit and caches the     *)
(* page; later ones go straight to memory, so whoever clears a dirty bit   *)
(* must drop the cached entry.  The bits are double buffered: the host     *)
(* keeps the buffer it was given while stores fill the other one.          *)
(*                                                                         *)
(* One path is not tracked: the page walk writes A and D to a page table   *)
(* with phys_write_u32, which leaves the dirty bits alone.                 *)
(*                                                                         *)
(* The map's flush_tlb_write_range callback is the hart's                  *)
(* riscv_cpu_flush_tlb_write_range_ram, the function of the CPU class made *)
(* for it.  Virtual addresses are abstracted: an entry is the RAM page it  *)
(* leads to.                                                               *)
(***************************************************************************)
EXTENDS Integers

CONSTANT
    Page        \* the pages of the range

VARIABLES
    enabled,    \* pr->size # 0: the range is mapped
    tab,        \* pr->dirty_bits_tab, as sets of pages
    index,      \* pr->dirty_bits_index
    tlbWrite,   \* pages of the range with an entry in tlb_write
    stored,     \* history: pages stored to since the host last looked at them
    walked      \* history: pages in which a walk set A or D since then

ramVars == <<enabled, tab, index, tlbWrite, stored, walked>>

DirtyBits == tab[index]

\* phys_mem_set_dirty_bit
SetDirtyBit(p) == tab' = [tab EXCEPT ![index] = @ \cup {p}]

\* riscv_cpu_flush_tlb_write_range_ram
FlushWrite(pages) == tlbWrite' = tlbWrite \ pages

\* phys_write_u32: the pages, one or none, whose PTE the walk of an access marks.
Mark(pages) == walked' = walked \cup pages
OneOrNone == {{}} \cup {{p} : p \in Page}

\* target_write_u*: the page is in the write TLB.
StoreHit(p) ==
    /\ p \in tlbWrite
    /\ stored' = stored \cup {p}
    /\ UNCHANGED <<enabled, tab, index, tlbWrite, walked>>

\* target_write_slow on RAM, with the walk to it.
StoreMiss(p, marked) ==
    /\ p \notin tlbWrite
    /\ enabled
    /\ Mark(marked)
    /\ SetDirtyBit(p)
    /\ tlbWrite' = tlbWrite \cup {p}
    /\ stored' = stored \cup {p}
    /\ UNCHANGED <<enabled, index>>

\* get_phys_addr marks a PTE in the range for a fetch, a load or a store elsewhere.
Walk(p) ==
    /\ enabled
    /\ Mark({p})
    /\ UNCHANGED <<enabled, tab, index, tlbWrite, stored>>

\* phys_mem_get_ram_ptr with is_rw, and the host's write through the pointer.
HostWrite(p) ==
    /\ enabled
    /\ SetDirtyBit(p)
    /\ stored' = stored \cup {p}
    /\ UNCHANGED <<enabled, index, tlbWrite, walked>>

\* Another page takes the entry, or the hart flushes its TLBs.
Evict(pages) == FlushWrite(pages) /\ UNCHANGED <<enabled, tab, index, stored, walked>>

\* A plausible bug: the buffer that becomes current is not cleared.
GetDirtyBitsNoClear ==
    /\ IF DirtyBits # {} /\ enabled THEN FlushWrite(Page) ELSE UNCHANGED tlbWrite
    /\ index' = 1 - index
    /\ stored' = {} /\ walked' = {}
    /\ UNCHANGED <<enabled, tab>>

\* default_get_dirty_bits: swap the buffers, flush if there was a dirty page.
GetDirtyBits ==
    /\ IF DirtyBits # {} /\ enabled THEN FlushWrite(Page) ELSE UNCHANGED tlbWrite
    /\ index' = 1 - index
    /\ tab' = [tab EXCEPT ![1 - index] = {}]
    /\ stored' = {} /\ walked' = {}
    /\ UNCHANGED enabled

\* phys_mem_reset_dirty_bit
ResetDirtyBit(p) ==
    /\ IF p \in DirtyBits
       THEN tab' = [tab EXCEPT ![index] = @ \ {p}] /\ FlushWrite({p})
       ELSE UNCHANGED <<tab, tlbWrite>>
    /\ stored' = stored \ {p} /\ walked' = walked \ {p}
    /\ UNCHANGED <<enabled, index>>

\* phys_mem_set_addr: mapping, moving or unmapping the range drops its entries.
SetAddr(enable, moved) ==
    /\ IF enable THEN ~enabled \/ moved ELSE enabled
    /\ FlushWrite(Page)
    /\ enabled' = enable
    /\ UNCHANGED <<tab, index, stored, walked>>

\* cpu_register_ram, enabled or DEVRAM_FLAG_DISABLED.
RamInit ==
    /\ enabled \in BOOLEAN
    /\ tab = [i \in {0, 1} |-> {}]
    /\ index = 0
    /\ tlbWrite = {}
    /\ stored = {} /\ walked = {}

RamNext ==
    \/ \E p \in Page : StoreHit(p) \/ Walk(p) \/ HostWrite(p) \/ ResetDirtyBit(p)
    \/ \E p \in Page, marked \in OneOrNone : StoreMiss(p, marked)
    \/ \E pages \in SUBSET Page : Evict(pages)
    \/ GetDirtyBits
    \/ \E enable \in BOOLEAN, moved \in BOOLEAN : SetAddr(enable, moved)

RamSpec == RamInit /\ [][RamNext]_ramVars

-----------------------------------------------------------------------------
RamTypeOK ==
    /\ enabled \in BOOLEAN
    /\ tab \in [{0, 1} -> SUBSET Page]
    /\ index \in {0, 1}
    /\ tlbWrite \subseteq Page
    /\ stored \subseteq Page
    /\ walked \subseteq Page

\* The fast path can only reach a page whose dirty bit is set and that is mapped:
\* what lets StoreHit skip the bookkeeping.
CachedIsDirty == tlbWrite \subseteq DirtyBits /\ (tlbWrite # {} => enabled)

\* The dirty bits are exactly the pages stored to by the hart, on either path, and by
\* the host.  They say nothing of the A and D bits that walks set.
DirtyIsStored == DirtyBits = stored

\* What dirty bits would be if the page walk set them too: it does not.
ChangesMarked == walked \subseteq DirtyBits

\* For stores, dirty tracking implements the write log, the report being the buffer
\* the host was last given: from one collection to the next no store is missing in it,
\* nothing is in it that was only walked, and the host's buffer does not change.
Log == INSTANCE WriteLog WITH log <- stored, unlogged <- walked, report <- tab[1 - index]
LogSpec == Log!Spec
=============================================================================
