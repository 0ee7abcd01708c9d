----------------------------- MODULE MemAccess -----------------------------
(***************************************************************************)
(* Loads and stores of the emulated hart, byte by byte: the fast paths     *)
(* target_read_u* and target_write_u* (emu/riscv_cpu_priv.h) that go       *)
(* through a TLB, and the slow paths target_read_slow and                  *)
(* target_write_slow (emu/riscv_cpu.c) that split a misaligned access,     *)
(* translate, and reach RAM, a device or nothing.  A store that faults is  *)
(* executed again once the guest's kernel has mapped the page.             *)
(*                                                                         *)
(* Translation is abstracted to the mapping the page tables give (module   *)
(* Mmu has the walk); the kernel executes sfence.vma after it changes it.  *)
(* The one thing a model of the data needs that Mmu does not have is       *)
(* addresses: an access may straddle two pages, and wraps around at the    *)
(* end of the address space.                                               *)
(***************************************************************************)
EXTENDS Integers, Sequences, FiniteSets

CONSTANTS
    PageSize,  \* bytes of a page (1 << PG_SHIFT), a multiple of every width
    VPage,     \* the virtual pages, 0 .. n-1 (2^20)
    RamFrame,  \* physical pages of RAM
    DevFrame,  \* physical pages of a device; others are registered to nobody
    TlbSize,   \* entries of each TLB (TLB_SIZE)
    Mapping,   \* what the kernel may map each page to: [VPage -> SUBSET Map]
    Store      \* the stores the guest executes

Width  == {1, 2, 4, 8}           \* 1 << size_log2, MLEN = 64
Size32 == 4                      \* DEVIO_SIZE32, the devices' only width
Space  == PageSize * Cardinality(VPage)
Address   == 0 .. Space - 1
Ram    == UNION {{(f * PageSize) + i : i \in 0 .. PageSize - 1} : f \in RamFrame}

NoFrame == -1
Map     == [frame : Int, r : BOOLEAN, w : BOOLEAN]

ASSUME MemAccessAssumption ==
    /\ PageSize \in Nat \ {0}
    /\ \A w \in Width : PageSize % w = 0
    /\ IsFiniteSet(VPage) /\ VPage = 0 .. Cardinality(VPage) - 1 /\ VPage # {}
    /\ RamFrame \subseteq Nat /\ DevFrame \subseteq Nat
    /\ RamFrame \cap DevFrame = {}
    /\ TlbSize \in Nat \ {0}
    /\ \A v \in VPage : Mapping[v] \subseteq Map
    /\ Store \subseteq [addr : Address, bytes : Seq(Int)]
    /\ \A s \in Store : Len(s.bytes) \in Width

VARIABLES
    map,       \* the translation of each page
    ram,       \* RAM, by physical address
    readTlb,   \* s->tlb_read
    writeTlb,  \* s->tlb_write
    pending,   \* the store that faulted and will be executed again
    before     \* history: RAM before that store was first executed

accVars == <<map, ram, readTlb, writeTlb, pending, before>>

NoEntry == [vaddr |-> -1, frame |-> NoFrame]
NoStore == [addr |-> 0, bytes |-> <<>>]

PageOf(a)   == a \div PageSize
Index(a)    == PageOf(a) % TlbSize
Wrap(a)     == a % Space

\* A value that was never assigned: mem_uint_t val in target_read_u*.
Garbage == -1
\* The bytes a device register answers with.
Reg     == -2

-----------------------------------------------------------------------------
(* Loads.  A result is the bytes, low one first, whether the access was    *)
(* carried out and else the address reported, the device registers it      *)
(* reached, and the read TLB it leaves.                                    *)

\* addr & ~(PG_MASK & ~(size - 1)): the page's address if addr is aligned, and
\* never a page's address if it is not, so that one compare tests both.
Tag(a, size) == (PageOf(a) * PageSize) + (a % size)

RamBytes(memory, pa, size) == [i \in 1 .. size |-> memory[pa + i - 1]]

Physical(frame, a) == (frame * PageSize) + (a % PageSize)

EntryFor(a) == [vaddr |-> PageOf(a) * PageSize, frame |-> map[PageOf(a)].frame]

FillTlb(tlb, a) ==
    IF map[PageOf(a)].frame \in RamFrame
    THEN [tlb EXCEPT ![Index(a)] = EntryFor(a)]
    ELSE tlb

\* The registers an aligned access reaches: a device has 32 bit registers only,
\* and a 64 bit access is emulated by two.
Registers(a, size) ==
    IF size = Size32 THEN {a} ELSE IF size = 2 * Size32 THEN {a, a + Size32} ELSE {}

\* An aligned load: through the TLB, or target_read_slow's second half.
LoadAligned(tlb, a, size) ==
    LET entry == tlb[Index(a)]
        to == map[PageOf(a)]
        Done(bytes, regs) ==
            [ok |-> TRUE, bytes |-> bytes, tval |-> 0, regs |-> regs, tlb |-> FillTlb(tlb, a)]
        Same(byte) == [i \in 1 .. size |-> byte]
    IN IF entry.vaddr = Tag(a, size)
       THEN [ok |-> TRUE, bytes |-> RamBytes(ram, Physical(entry.frame, a), size),
             tval |-> 0, regs |-> {}, tlb |-> tlb]
       ELSE IF ~to.r
       THEN [ok |-> FALSE, bytes |-> <<>>, tval |-> a, regs |-> {}, tlb |-> tlb]
       ELSE IF to.frame \in RamFrame
       THEN Done(RamBytes(ram, Physical(to.frame, a), size), {})
       ELSE IF to.frame \in DevFrame
       THEN Done(Same(IF Registers(a, size) # {} THEN Reg ELSE 0), Registers(a, size))
       ELSE Done(Same(Garbage), {})

\* Two parts one after the other; the second only if the first did not fault.
LoadBoth(tlb, a, b, size) ==
    LET lo == LoadAligned(tlb, a, size)
        hi == LoadAligned(lo.tlb, b, size)
    IN IF ~lo.ok THEN lo
       ELSE [hi EXCEPT !.bytes = IF hi.ok THEN lo.bytes \o hi.bytes ELSE <<>>,
                       !.regs = @ \cup lo.regs]

Shift(result, al, size) ==
    IF result.ok THEN [result EXCEPT !.bytes = SubSeq(@, al + 1, al + size)] ELSE result

\* Plausible bugs of the split: the second word's fault is blamed on the address of
\* the access; the words are shifted by the complement.
LoadBlamingFirst(a, size) ==
    LET al == a % size
        both == LoadBoth(readTlb, a - al, Wrap(a - al + size), size)
    IN IF al = 0 THEN LoadAligned(readTlb, a, size)
       ELSE IF size = 2 THEN LoadBoth(readTlb, a, Wrap(a + 1), 1)
       ELSE [Shift(both, al, size) EXCEPT !.tval = a]

LoadShiftedWrong(a, size) ==
    LET al == a % size
        both == LoadBoth(readTlb, a - al, Wrap(a - al + size), size)
    IN IF al = 0 THEN LoadAligned(readTlb, a, size)
       ELSE IF size = 2 THEN LoadBoth(readTlb, a, Wrap(a + 1), 1)
       ELSE Shift(both, size - al, size)

\* target_read_u*.  Misaligned, two bytes are read one by one; wider ones as the two
\* aligned words around the address, shifted and joined.
Load(a, size) ==
    LET al == a % size
        both == LoadBoth(readTlb, a - al, Wrap(a - al + size), size)
    IN IF al = 0 THEN LoadAligned(readTlb, a, size)
       ELSE IF size = 2 THEN LoadBoth(readTlb, a, Wrap(a + 1), 1)
       ELSE Shift(both, al, size)

-----------------------------------------------------------------------------
(* Stores.  The same with the memory and the write TLB they leave.         *)

Write(memory, pa, bytes) ==
    [p \in Ram |-> IF p - pa \in 0 .. Len(bytes) - 1 THEN bytes[p - pa + 1] ELSE memory[p]]

\* An aligned store on what earlier parts left: through the TLB, or the second half of
\* target_write_slow.  A device drops what is not 32 or 64 bits wide, a hole everything.
StoreAligned(was, a, bytes) ==
    LET entry == was.tlb[Index(a)]
        to == map[PageOf(a)]
        size == Len(bytes)
    IN IF entry.vaddr = Tag(a, size)
       THEN [was EXCEPT !.ram = Write(@, Physical(entry.frame, a), bytes)]
       ELSE IF ~to.w
       THEN [was EXCEPT !.ok = FALSE, !.tval = a]
       ELSE IF to.frame \in RamFrame
       THEN [was EXCEPT !.ram = Write(@, Physical(to.frame, a), bytes), !.tlb = FillTlb(@, a)]
       ELSE IF to.frame \in DevFrame
       THEN [was EXCEPT !.regs = @ \cup Registers(a, size), !.tlb = FillTlb(@, a)]
       ELSE [was EXCEPT !.tlb = FillTlb(@, a)]

\* target_write_u*.  A misaligned store is done byte by byte, (val >> (8 * i)) & 0xff,
\* up to the first fault.
StoreResult(s) ==
    LET start == [ok |-> TRUE, tval |-> 0, regs |-> {}, ram |-> ram, tlb |-> writeTlb]
        upTo[i \in 0 .. Len(s.bytes)] ==
            IF i = 0 THEN start
            ELSE IF ~upTo[i - 1].ok THEN upTo[i - 1]
            ELSE StoreAligned(upTo[i - 1], Wrap(s.addr + i - 1), <<s.bytes[i]>>)
    IN IF s.addr % Len(s.bytes) = 0
       THEN StoreAligned(start, s.addr, s.bytes)
       ELSE upTo[Len(s.bytes)]

-----------------------------------------------------------------------------
(* Steps of the hart and of the guest's kernel.                            *)

\* A load instruction; its value is not kept, a fault changes only the TLB.
ExecLoad(a, size) ==
    /\ pending = NoStore
    /\ readTlb' = Load(a, size).tlb
    /\ UNCHANGED <<map, ram, writeTlb, pending, before>>

\* A store instruction, for the first time or again after a fault.
ExecStore(s) ==
    LET result == StoreResult(s) IN
    /\ pending \in {NoStore, s}
    /\ ram' = result.ram
    /\ writeTlb' = result.tlb
    /\ pending' = IF result.ok THEN NoStore ELSE s
    /\ before' = IF result.ok THEN <<>> ELSE IF pending = NoStore THEN ram ELSE before
    /\ UNCHANGED <<map, readTlb>>

\* A plausible bug: sfence.vma leaves the write TLB alone.
FlushReadOnly == /\ readTlb' = [i \in 0 .. TlbSize - 1 |-> NoEntry]
                 /\ UNCHANGED writeTlb

\* tlb_flush_all, by the kernel's sfence.vma.
Flush == /\ readTlb' = [i \in 0 .. TlbSize - 1 |-> NoEntry]
         /\ writeTlb' = [i \in 0 .. TlbSize - 1 |-> NoEntry]

\* The kernel pages in the page a store faulted on.
PageIn(to) ==
    LET v == PageOf(StoreResult(pending).tval) IN
    /\ pending # NoStore
    /\ ~map[v].w
    /\ to.w
    /\ map' = [map EXCEPT ![v] = to]
    /\ Flush
    /\ UNCHANGED <<ram, pending, before>>

\* The kernel changes a mapping when no store waits to be executed again.
Remap(v, to) ==
    /\ pending = NoStore
    /\ map' = [map EXCEPT ![v] = to]
    /\ Flush
    /\ UNCHANGED <<ram, pending, before>>

\* Every byte of RAM holds its own address, so that a byte out of place shows.
AccInit ==
    /\ map \in {m \in [VPage -> UNION {Mapping[v] : v \in VPage}] :
                  \A v \in VPage : m[v] \in Mapping[v]}
    /\ ram = [p \in Ram |-> p]
    /\ readTlb = [i \in 0 .. TlbSize - 1 |-> NoEntry]
    /\ writeTlb = [i \in 0 .. TlbSize - 1 |-> NoEntry]
    /\ pending = NoStore
    /\ before = <<>>

AccNext ==
    \/ \E a \in Address, size \in Width : ExecLoad(a, size)
    \/ \E s \in Store : ExecStore(s)
    \/ pending # NoStore /\ \E to \in Mapping[PageOf(StoreResult(pending).tval)] : PageIn(to)
    \/ \E v \in VPage : \E to \in Mapping[v] : Remap(v, to)

AccSpec == AccInit /\ [][AccNext]_accVars

-----------------------------------------------------------------------------
(* Properties.                                                             *)

AccTypeOK ==
    /\ map \in [VPage -> Map]
    /\ ram \in [Ram -> Int]
    /\ \A tlb \in {readTlb, writeTlb}, i \in 0 .. TlbSize - 1 :
          \/ tlb[i] = NoEntry
          \/ /\ tlb[i].frame \in RamFrame
             /\ tlb[i].vaddr \in {v * PageSize : v \in {v \in VPage : v % TlbSize = i}}
    /\ pending \in Store \cup {NoStore}
    /\ pending # NoStore => before \in [Ram -> Int]

Span(a, size)  == {Wrap(a + i) : i \in 0 .. size - 1}
Byte(a)        == Physical(map[PageOf(a)].frame, a)
ToRam(a)       == map[PageOf(a)].frame \in RamFrame
ToDevice(a)    == map[PageOf(a)].frame \in DevFrame

\* A load yields exactly the bytes its addresses stand for now, whatever its width and
\* alignment, across a page boundary, around the end of the address space and whichever
\* of its parts the TLB serves.
LoadIsBytes ==
    \A a \in Address, size \in Width :
        (\A b \in Span(a, size) : map[PageOf(b)].r /\ ToRam(b))
            => LET result == Load(a, size) IN
               result.ok /\ result.bytes = [i \in 1 .. size |-> ram[Byte(Wrap(a + i - 1))]]

\* An access faults exactly if a byte of it may not be accessed, and reports an address
\* in such a page, so that a kernel that maps the page of the address it is told gets
\* the instruction further.
FaultJustified ==
    LET Justified(result, denied) ==
            IF result.ok THEN denied = {}
            ELSE PageOf(result.tval) \in {PageOf(b) : b \in denied}
    IN /\ \A a \in Address, size \in Width :
             Justified(Load(a, size), {b \in Span(a, size) : ~map[PageOf(b)].r})
       /\ \A s \in Store :
             Justified(StoreResult(s), {b \in Span(s.addr, Len(s.bytes)) : ~map[PageOf(b)].w})

\* Splitting and emulating never reaches a device register outside the aligned blocks,
\* of the access's own width, that the access overlaps: reads of registers have side
\* effects (UART_DATA takes the character).  A misaligned 64 bit load does read both
\* registers of a block it overlaps in one of them only.
DeviceAddressed ==
    LET Overlapped(a, size) ==
            {r \in Address : \E b \in Span(a, size) : r \div size = b \div size}
    IN /\ \A a \in Address, size \in Width : Load(a, size).regs \subseteq Overlapped(a, size)
       /\ \A s \in Store :
             StoreResult(s).regs \subseteq Overlapped(s.addr, Len(s.bytes))

\* RAM after a store that was done at once.
Stored(memory, s) ==
    [p \in Ram |->
        LET lanes == {i \in DOMAIN s.bytes : LET a == Wrap(s.addr + i - 1)
                                             IN ToRam(a) /\ Byte(a) = p}
        IN IF lanes = {} THEN memory[p] ELSE s.bytes[CHOOSE i \in lanes : TRUE]]

\* A store that is executed again after a fault half way leaves what it would have left
\* if it had been done at once, although the first bytes are written twice.
StoreRestarts ==
    [][\A s \in Store :
          ExecStore(s) /\ StoreResult(s).ok
              => ram' = Stored(IF pending = NoStore THEN ram ELSE before, s)]_accVars

\* What the comment at riscv_cpu.c:450 asks for: a store that faults leaves memory alone.
\* The code does not keep it, as that comment says; no run checks it.
FaultLeavesMemory ==
    [][\A s \in Store : ExecStore(s) /\ ~StoreResult(s).ok => ram' = ram]_accVars

\* What the comment at main.c:57 promises of the first 4K: the CPU "errors out" if
\* something is read at an address where nothing is registered.
HoleErrors ==
    \A a \in Address, size \in Width :
        (\E b \in Span(a, size) : ~ToRam(b) /\ ~ToDevice(b)) => ~Load(a, size).ok
=============================================================================
