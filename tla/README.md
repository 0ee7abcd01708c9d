# TLA+ models of the hadbadge2019 proof of concept

The program is an emulator of a handheld: a RISC-V hart (TinyEMU's RV32
interpreter with a software floating point), a physical memory map, a UART, a
display peripheral, buttons and a "cheat" interface that loads files, driven by
one loop on the host (`emu/`); and the guest software that runs on it, a C
library port, drivers and the MY-BASIC interpreter with extensions (`sdk/`).
These modules model its control: what state each part keeps, what every
operation does to it and in what order.

All of it is one thread on the host. The hard behaviour comes from elsewhere:
the guest is suspended at any instruction when its slice ends; cached
translations, cached interrupt state and cached characters may be stale when
they are used; guest software polls devices whose state changes under it; and
the BASIC interpreter keeps pointers, counters and flags across statements
whose order a program chooses.

## 1. Inventory

| Part | State | Operations | Interacts with | What makes it correct |
|---|---|---|---|---|
| Address translation (`riscv_cpu.c`, `riscv_cpu_priv.h`) | `priv`, `mstatus`, `satp`, three TLBs, page tables in RAM | loads, stores, fetches; CSR writes, traps, returns, `sfence.vma` | memory map (page walks, dirty bits), traps (privilege) | a cached translation is the one a walk would give now; A and D record every use |
| Loads and stores (`riscv_cpu.c`, `riscv_cpu_priv.h`) | RAM, read and write TLB | aligned and split accesses, fast and slow path | memory map, devices, the guest kernel's fault handler | the right bytes; a fault names a missing page; a store can be executed again |
| Traps and interrupts (`riscv_cpu.c`) | `priv`, `mstatus`, `mie`, `mip`, `mideleg`, `power_down_flag` | exception, interrupt, `sret`, `mret`, `wfi`, CSR writes, `set_mip`, `reset_mip` | machine (interrupt lines), interpreter | no lost wakeup; interrupts preempt only what they may; returns undo traps; S cannot reach M's half |
| Interpreter loop (`riscv_cpu_template.h`) | `insn_counter`, `n_cycles`, code block | slice, block, the exits of the loop | all of the hart | slices end, overrun and latency are less than a block, every instruction is counted once |
| Integer and compressed instructions (`riscv_cpu_template.h`) | registers, `pc` | every RV32IMC instruction | interpreter | words mean what the assembler wrote; results agree with arithmetic |
| Floating point (`softfp*.h`, `riscv_cpu_fp_template.h`) | `fp_reg`, `fflags`, `frm`, `fs` | arithmetic, conversion, comparison, moves, CSRs | the guest kernel's context switch (`fs`) | results are exactly rounded, with their flags; a changed context is marked |
| Atomics (`riscv_cpu_template.h`) | `load_res` | LR, SC, AMO | guest kernel's thread switches | an SC succeeds only on what its own LR read |
| Memory map (`iomem.c`) | ranges, two dirty-bit buffers, the hart's write TLB | store, collect, reset, map, unmap | hart (flush callback, page walks) | the dirty bits are the pages stored to |
| UART (`peri_uart.c`, `main.c`) | `buffered_char`, stdio's buffer, the descriptor | FLAG and DATA reads | host's stdin | no character lost, doubled or reordered |
| Frame loop and display (`main.c`, `peri_gfx.c`, `gfxdriver.c`) | registers, `last_scanline` | slice, draw a line, driver calls, `gfx_wait_vbl` | interpreter (slices), SDL | `gfx_wait_vbl` returns between frames, once per frame; what is drawn half written, and when |
| BASIC extensions (`ext_*.c`) | tilemaps, the sprite list | fourteen functions | drivers, loader, and through RAM the line renderers | arguments checked before the driver is called; the screen shows what the program asked for |
| BASIC expressions (`my_basic.c`) | operand and operator stacks, `calc_depth`, constant marks | `_calc_expression` and the calls it nests | statements, functions | a sentence has the value the grammar gives it, every time |
| BASIC statements (`my_basic.c`) | the statement pointer, `sub_stack`, `jump_set`, `skip_to_eoi`, `last_routine` | IF, FOR, WHILE, DO, EXIT, NEXT, GOTO, GOSUB, RETURN, DEF, END | expressions | a program does what its structure says |
| BASIC lists and dictionaries (`my_basic.c`) | nodes, count, look-up cache, range; buckets; locks, iterators | the collection library, FOR x IN | statements, memory | a list is a sequence, a dictionary a function; iterators never follow freed nodes |
| BASIC references and collector (`my_basic.c`) | counts, four tables, the intermediate value | `_ref`, `_unref`, collection passes | every statement on lists | what is reachable stays, what is not goes |
| BASIC parser, strings, classes, embedding (`my_basic.c`) | symbols, scopes | - | all of BASIC | not modelled |
| Buttons (`sdl_glue.c`, `peri_buttons.c`) | `buttons` | drain events, read | frame loop | a button is down only while its key is |
| Cheat interface, loader (`peri_cheat.c`, `tile_loader.c`, `loader.c`) | file name and layer pointers | size, read | guest's heap | the data fits the buffer the size was asked for |
| Heap (`newlib_stubs.c`) | `heap_ptr` | `_sbrk` | loader | the heap stays below the stack's end |

Which hazards each part is exposed to, at which line, and what property watches
it is in `PROJECT.json` under `hazards`.

## 2. Modules

`MC*` modules give TLC its constants, `*Proofs` modules hold theorems. An
operator introduced by "A plausible bug" is a variant of the definition below
it; replacing the definition by it makes a run fail. None is used by a
specification.

### Mmu
One variable per field of the hart that translation uses, plus RAM. `Walk` is
`get_phys_addr` without its write, `Marked` the write of A and D. `LoadHit`,
`StoreHit` and `FetchHit` are the inlined fast paths, `LoadMiss`, `StoreMiss` and
`FetchMiss` the slow ones, `PageFault` their error return with the trap that
follows. `SetPriv`, `SetMstatus`, `RaiseException`, `Sret`, `Mret`, `WriteSatp`
and `SfenceVma` say when the TLBs are flushed. Memory is abstracted to words
that hold PTEs, so a store to a page table is an ordinary store. The history
variable `edited` holds the words stored to since the last full flush: a
translation read from such a word may be stale until the guest executes
`sfence.vma`, which is what the architecture asks of it.
The root number in `satp` is arbitrary at the start because bare mode does not
read it.

Abstracted: addresses within a page and access sizes (module MemAccess has them),
device registers (a device access changes nothing here), which exceptions `medeleg`
delegates (free choice), ASIDs (none in the code).

### MemAccess
The data of what Mmu does with pages. `Load` and `StoreResult` are
`target_read_u*` and `target_write_u*` with the slow paths behind them, as
functions from the state to a result: the bytes, whether it faulted and at which
address, the device registers reached, the TLB (and RAM) left. `Tag` is the
compare that tests page and alignment together. Loads have every address and
width; `ExecStore` keeps a store that faulted in `pending` until the kernel's
`PageIn` lets it succeed, because that is when its first bytes are written a
second time. The page walk is abstracted to the mapping it computes; permissions
are two flags. `Garbage` is the value of a variable nothing was assigned to.
A misaligned 64 bit load reads both registers of a block of which it needs one:
`DeviceAddressed` is stated for blocks of the access's width because of it.
A store has one of the code's widths, and as many bytes as its width says: the
assumption of the module names both.

### Trap
The trap half of `mstatus`, `mie`, `mip`, `mideleg` and the power-down flag, one
action per instruction or machine event in any order. Privilege 2 is kept:
MPP is not restricted by the code, so `mret` can reach it. The history variable
`frame` remembers, per handler level, what its latest trap interrupted; it is
closed by the return, by a write to `mstatus` (both levels) or `sstatus` (S).

The machine's side, `SetMip` and `ResetMip`, is the CPU class's interface
(`riscv_cpu_set_mip`, `riscv_cpu_reset_mip`): no device of this emulator calls it
yet, so what `NoLostWakeup` and `InterruptServed` say is what a device that does may
rely on. Until then only software sets bits of `mip`.

### Interp (composes Trap)
The loop of `riscv_cpu_interp` and `riscv_cpu_interp_x32`. `Step` has one action
per way through an iteration: `Enter` and `EntryInterrupt` (before the loop),
`Timeout`, `HeadInterrupt`, `Begin`, `FetchFault` (block head), and one per class
of instruction. `n` is `n_cycles` after the decrement; `due` is what is left of
the slice by `insn_counter`. Every trap, return and CSR write is Trap's action,
so a write to `mie` in the middle of a block makes an interrupt deliverable that
only the next block head will see.

### IntOps and Compressed
What instructions compute. IntOps is every integer instruction on registers of
`XLEN` bits, with the code's own ways of dividing and multiplying, among them the
high words put together from half words. Compressed decodes a 16 bit word into
the instruction it stands for; its reference is an assembler, `Encoded`, written
from the immediates' bit positions in the other direction. At 8 bits all
operands are tried; the algorithms do not depend on the width, the decoding of
16 bit words is complete.

### SoftFp, Fpu and IeeeRef
SoftFp is `softfp_template.h` for a format of any exponent and mantissa size:
a function from words (and a rounding mode) to a word and the flags raised.
IeeeRef says what the result must be, from the exact rational value: the
representable neighbour the mode picks. It contains no shift and no sticky bit.
Fpu has the instructions of two formats in one register file with NaN boxes, the
status field `fs` and the CSRs; the history variable `saved` is the context that
a kernel which trusts `fs` would have. The template needs five bits of exponent. Fpu instantiates SoftFp by way of
SoftFpProofs, so that the lemmas hold of both formats.
Left as the code has them: comparisons, `fcvt.w` and `fmv` raise flags or move
without setting `fs`; `fmv.s.x` extends the sign instead of boxing.

### LrSc
One reservation register, several guest threads, a kernel that may switch at any
instruction and does to the reservation what `SwitchWith` says.

### PhysMem and WriteLog
`PhysMem` is a dirty-tracked RAM range with the write TLB of the hart;
`WriteLog` is what dirty tracking promises: the next report is exactly the pages
stored to since the last one, and a report does not change once made. `LogSpec`
maps the log to those pages and the report to the buffer the host was last
given. Stores are the hart's, on its fast and its slow path, and the host's.

Not every write is a store. `get_phys_addr` sets A and D in a page table with
`phys_write_u32` (`riscv_cpu.c:152`, called at `:282`), which changes RAM and leaves
the dirty bits alone. `Walk` is that write for an access elsewhere, the second parameter of
`StoreMiss` the same before a store; the history variable `walked` keeps the
pages, and the log has them as `unlogged`. So a host that copies the
pages of a report misses page table entries whose A or D changed: `ChangesMarked`
says that dirty bits cover them, and TLC finds it violated in `MCStores.cfg`.

The repository never assigns the map's `flush_tlb_write_range`; the model
takes the CPU class's function of that name, the only candidate. No range of this
emulator asks for dirty bits, so the feature is library code here.

### Uart
Three buffers in a row: descriptor, stdio, `buffered_char`. `ReadFlag` and
`ReadData` are the two register reads. Note that `select` does not see stdio's
buffer: the rest of a line that stdio has read stays invisible until more input
or the end of the input arrives. So delivery is stated for an input that ends
(`EndDelivers`); for one that stays open it does not hold.

### Display
The frame loop, the guest's polling and the driver's writes. A register holds
the number of the driver call that wrote it. `Compute` burns any part of a
slice, so a slice may end between any two writes. The three backgrounds have
equal code and are one layer here. The driver's calls are separate and the guest
makes them in any order: BASIC's `bgndinit` sets graphics, then map, `do_test`
(`sdk/test.c:27`) map, then graphics.

The order matters. `gfx_fb_set_mem` writes the address that switches its layer
on last, and no line shows the frame buffer half set up. `gfx_bgnd_set_gfx` and
`gfx_sprite_set_mem` write the transparent colour last: when the map is there
already, and for the sprites always, a slice may end with the layer on and the
colour not yet written, and that line is drawn with the colour the reset left.
`HalfSetUpOnlyInCall` says which lines those are: only the one at the end of a slice
that ends inside the very call that switched the layer on, and none at all
if the guest makes a call only when `gfx_wait_vbl` returns. `OnIsSetUp` is the
same for every state: what a layer that is on lacks, the call under way owes.
Such a guest makes one call per return here (`fresh`), so what follows `gfx_wait_vbl`
is as long as the longest call.

### Backgrounds
From the BASIC functions on tilemaps and backgrounds through the driver and the
registers to the tile and pixel that `gfx_render_bgnd_scanline` reads. A tilemap
is a function from index to tile; the registers hold unsigned values, so a
negative position set without a map wraps around 2^32 (`Word`) and the
renderer's subtraction loops bring it back. `cells` and `asked` remember what the
program asked for, in mathematical coordinates; `ScreenShowsTiles` compares the
two. `BgndInit` and `BgndScroll` happen at once here: what is drawn between a
call's register writes is Display's question. The remainder by zero, undefined
in C, is what the RISC-V instruction yields. A map is loaded at most once. The
module assumes that a screen, a map and a tile together are fewer pixels across
than `Word`, as anything is that fits the guest's memory.

### Sprites
The list `SPRINIT` makes, the setters that cut an int down to 16 bits, and the
walk of `gfx_render_sprites` with its markers. Sprites are opaque squares whose
number stands for their graphics. The setters do not check the sprite number;
the model's program names sprites it has.

### BasicExpr
`_calc_expression`: one record per evaluation in progress with its two stacks,
bracket count and operand budget (`calc_depth`), the handlers that evaluate
arguments in a nested call, and the mark that makes a lone constant cheap the
second time (`Again` evaluates an expression twice, as a loop does). The input
is any sequence of tokens the lexer can produce; `Trees` is the grammar, read as
a reference: which trees a sequence of tokens may stand for. Values are
abstracted to the tree that computed them. What an operator computes, strings
and routines are left out.

### BasicProgram and BasicFlow
BasicProgram is the grammar: trees of statements, `Flatten` into the parser's
list of nodes, and `Meaning`, the outputs a tree is to produce for a sequence of
decisions of its conditions. BasicFlow executes the nodes: `_execute_statement`
and every handler that moves the statement pointer, with the frames of the C
stack made explicit (`frames`), the skip functions that look for the end of a
structure, and the interpreter's `sub_stack`, `jump_set`, `skip_to_eoi` and
`last_routine`. `TraceIsStructured`: whatever the conditions, the outputs are a
prefix of the meaning, and all of it when the program ends.

Some programs of the grammar misbehave (section 4); the run's programs leave
those out, by name, and nothing else.

### Collection, BasicList and AbstractList
`Collection` has the lock that lists and dictionaries share. BasicList is a list
with its chain, count, look-up cache, unfilled range, lock and iterators; one
action per statement and per step of a FOR loop. `IsSequence` is the refinement:
`AbstractList` is a sequence whose iterators count their moves, and promises
nothing of iterators after a change. A node stands for itself and its object;
`Unused` is `malloc`, which takes any node nothing refers to. `Merge`, `Pass` and
`Sorted` are `_ls_sort`, a step of its loops at a time. `Ascending` and `FilledFirst`
say what a program has to keep to for the refinement (section 4 has what happens
to the others): a range ascends, and BACK, SORT, CLONE and TO_ARRAY wait until
something has filled it.

### BasicDict and AbstractDict
The hash table: an array of chains and a count. `Onward` is
`_move_dict_it_next`, which walks chains and buckets; an iterator's place is a
key, the head of the last bucket, nothing, or freed. `IsMap`: the abstract
dictionary is a function from keys to values, and its iterators visit every key
once in any order. What keys hash to is any function in `Hashes`. `Taken` removes
what `_ls_try_remove` removes, the first node of the chain that matches; that there
is no second one is part of what the proof shows.

### BasicGc
Lists that contain lists, the variables that hold them, and the collector.
`mem` has the lists by address, the intermediate value and the collector's tables.
`Ref`, `Unref` and `Noted` are `_ref`, `_unref` and `_gc_add`; `_unref` and
`_destroy_list` call each other, so the calls under way are a stack, and `UnrefStep`
takes the next of them. Statements are built from `Values`, the expressions that yield a list, which run with the
collector switched off and leave a reference nobody gives back (so counts are
too high, and only the collector frees most lists). `PushValue` is
`mb_push_value` at the end of a statement, where the collector may run: `Visit`
takes the noted lists in any order, which is the order of a hash table of
addresses. `broken` records that freed memory was used (section 4), `reused`
that a list took an address noted as collected.

### The MC modules
`MCStores`, `MCPeripherals`, `MCInsn`, `MCBasic` and `MCCollections` put machines that share no state into one TLC run:
a variable (`question`, `part`, `unit`) picks one at the start, and the others
stay where they begin. Nothing is lost by it, since none writes what another reads. Symmetry is
declared over interchangeable model values in `MCStores` and `MCBasic`, whose
properties are invariants and step properties.

## 3. Runs

| Run | Instance | Question |
|---|---|---|
| `mmu` | 4 pages (2 RAM, device, hole), tables of 2 words, TLBs of 1 entry | are cached translations current, and recorded in A and D? |
| `mmu_mprv` | same | does a change of MMU configuration always flush, with MPRV set too? No: see Findings |
| `hart` | 2 interrupts, one delegable; slices of 3, blocks of 2 | counting, latency, privilege of a block, wakeups, levels, returns; with fairness, interrupts are served |
| `stores` | 3 threads, 2 additions each, dummy LR; 3 dirty-tracked pages, any of them holding page tables; 3 pages of 8 bytes (RAM or absent, device or hole), 2 TLB entries, widths 1 to 8, 4 stores | are LR/SC loops atomic, dirty bits those of the stores, bytes right, faults justified, stores restartable? |
| `mem_hole` | the accesses of `stores` | does an access to nothing error out? No: see Findings |
| `peripherals` | frames of 4 lines, slices of 4 accesses, 3 driver calls; 9 characters, stdio takes 3; 2 layers, tiles of 3 pixels, 10 x 4 pixels; up to 3 sprites of 2 pixels, 4-bit positions | polling, which lines show a layer half set up, tearing; no character lost; the screen shows maps and sprites where the program put them |
| `insn` | formats of 5+2 and 6+6 bits, 8 bit integers; programs of three instructions; all 16 bit words | exact rounding and flags, order of numbers, saved contexts, decoding, integer results |
| `basic` | expressions of up to 5 tokens, chains of 4 operands; 973 programs, 4 decisions; 3 lists in 2 variables, threshold 2, counts to 3, lists of 2 | do expressions, programs and the collector do what grammar, structure and reachability say? |
| `basic_warning` | sums and quotients of up to 5 tokens | is a division by zero always an error? No: see Findings |
| `collections` | lists of up to 3, ranges, indices -1 to 2; 3 keys in 3 buckets, three hash functions, 2 values; 2 iterators and a FOR loop each | are lists sequences, dictionaries functions, and iterators safe? |
| `gc_held` | the lists of `basic` | does the collector spare what a statement is working on? No: see Findings |
| `dict_stale` | one bucket, 3 keys, 1 iterator | does MOVE_NEXT refuse the iterator of a changed dictionary? No: see Findings |

Why the bounds are enough. A TLB of one entry makes every access collide, so an
entry is replaced as soon as anything else is touched, while different pages,
privileges and the three TLBs stay distinguishable; the page tables reach every
outcome of the walk (invalid, pointer, superpage, user, supervisor, execute-only,
device). Two interrupts are the least with one delegable and one not. Slices
longer than blocks by one put the timeout at every position of a block. Three threads let
two be suspended between LR and SC while the third runs. Three characters per
stdio read leave characters in each of the three buffers at once. Frames of
four lines have a first line, one in the middle, a last but one and a last one;
since the guest's other work takes any part of a slice, slices end inside every
driver call, and a whole slice is as long as the poll and the longest call
(1 + 3). Pages of eight bytes hold the
widest access, so every access lies within a page or across exactly two, as in
the program; three pages on two TLB entries make two of them collide, and the
last page borders on the end of the address space. Page 1 may share page 0's
frame, so that a store may overlap itself. The maps' sizes are no powers of two
and smaller than the screen in one direction, `Word` no multiple of them: every wrap
around happens, in the line and between lines, and a negative register shows.
Sprite positions reach beyond each edge of the screen and beyond the width of the
number.

The small floating point format has two mantissa bits: ties, double rounding,
subnormals, carries into the exponent and overflow all occur among its 256
words, and every first operand meets operands of each kind in every mode. Five
tokens hold every pair of nested constructs of an expression, chains of four
operands every triple of precedences. Programs nest two structures, with a
statement that leaves or continues either, in each place a body has; four
decisions take loops around twice. Three elements make a chain with a node that
is neither first nor last, so the look-up cache is walked from in both
directions. Three keys in one bucket, two in one beside an empty one, and the
first and last bucket are the shapes that an iterator crosses. Three lists hold
a cycle of two, or of one, with another list hanging on it or pointing to it; a
threshold of 2 (the code has 16, `my_basic.h:163`) makes collections
frequent, and nothing but their timing depends on it; counts stop at
`MaxCount` when a statement begins, where every further reference is the same.
The proofs below remove the bounds for Mmu, Trap, Interp, MemAccess, LrSc, PhysMem,
Uart, Display, Sprites, Backgrounds, BasicDict, BasicList and BasicGc, and for all of Fpu's
properties but exact rounding.

Type invariants of all modules, and `Overrun`, `Progress`, `CallReturns` (Interp),
`RxavHonest` (Uart), `ReturnsBetweenFrames` and `OnIsSetUp` (Display), `DeviceAddressed`
(MemAccess), `CachedIsDirty` and `DirtyIsStored` (PhysMem) hold in these
runs too and document the state; they are not listed as properties of a run,
because whatever breaks them breaks a deeper one. All of them but `CallReturns`,
which is liveness, are proved (section 5), and so are the type invariants of Mmu,
Trap, Fpu, MemAccess, Backgrounds and BasicGc.

Deadlock is checked in `mmu`, `mmu_mprv`, `hart`, `stores` and `mem_hole`. Elsewhere the
system may stop: the frame loop when the user quits, a BASIC program at its end
or at an error, and an instruction program after its last instruction.

### Fairness
`Interp` assumes that the thread in `riscv_cpu_interp` keeps running (weak
fairness of `Step`) and that the host calls again (weak fairness of `Call`:
`mach_setup` is an endless loop). `Display` assumes only that the one thread
keeps running, quitting being an outcome of its step. `Uart` assumes a guest
that polls: it keeps reading FLAG, and reads DATA when FLAG said so. Nothing is
assumed of the machine's interrupt lines, of the user or of the guest's choice
of instructions. The BASIC modules state safety only.

## 4. Findings

1. `mmu_mprv`: `set_mstatus` is commented "flush the TLBs if change of MMU
   config" and treats MPP as configuration while MPRV is set. A trap taken in
   M, and an `mret` to M, change MPP too, keep MPRV and do not flush, because
   the privilege does not change. With MPRV clear all is well: that is
   `DataCurrent`, proved.
2. `mem_hole`: `main.c:56-57` wants the CPU to error out on accesses to the first
   4K; an access to unregistered addresses is no exception in this hart. Stores
   are dropped and loads yield whatever the host's variable held.
3. `basic_warning`: `my_basic_config.h` configures warnings to be errors. The
   warning that a division by zero returns is kept in the variable in which the
   next operator, function or operand leaves its result: `1/0` stops the program
   and `1/0+1` does not.
4. `gc_held`: the collector starts in `mb_push_value`, at the end of a statement's handler, and
   takes for reachable what variables reach. A list that the handler itself
   holds and no variable does is freed under it, and unreferenced afterwards.
   The interpreter built with an address sanitizer reports the use after free for
   a program that fills a list with fifteen lists, drops the variable of the last
   one and pops them one by one.
5. `dict_stale`: "The iterator goes invalid if collection has been changed after
   obtaining iterator" (`my_basic.c:7384`). For lists the lock is looked at before
   the iterator moves; for dictionaries only before its first move. `d =
   DICT(1, 1, 2, 2)`, an iterator at a key, `REMOVE(d, key)`, `MOVE_NEXT` reads the
   freed node (confirmed with an address sanitizer), and so does a FOR loop whose body
   removes its key. A stale iterator that happens to be at the end answers NIL.

Other places where the code and its own text disagree. The modules model what
the code does, and each has a formula for what the text says; no run checks it,
and TLC finds it violated when it is added to the cfg named.

- `BlockBacked` (`MCHart.cfg`): `csr_write` is commented to return 2 "if TLBs
  have been flushed" (`riscv_cpu.c:879`); writes to `mstatus` and `sstatus` flush
  and return 0. The block goes on without a code TLB entry. `BlockOnePriv` and
  `CodeCurrent` show why this does no harm to privilege.
- `NoLostUpdate` with `SwitchWith = "sc"` (`MCStores.cfg`): no SC clears `load_res`.
  Kernels that break reservations with a dummy SC lose updates on this hart;
  those that use a dummy LR do not, which is proved.
- `FaultLeavesMemory` (`MCStores.cfg`): the code's own remark at
  `riscv_cpu.c:450`: a misaligned store that faults on its second page has already
  written to the first. `StoreRestarts` shows that a guest which executes it
  again does not notice.
- `LayersExist` (`MCPeripherals.cfg`): `id>GFX_BGND_COUNT` in `ext_gfx.c:80` and
  `:101` lets the number of layers through to the driver's
  `assert(bgndid<GFX_BGND_COUNT)`.
- `FreeReleases` (`MCPeripherals.cfg`): `ext_gfx.c:240` and `:242` register the
  names that free for the functions that load.
- `LimitHolds` (`MCPeripherals.cfg`): `peri_gfx.c:163` warns of "not rendering more
  sprites" and renders them.
- `StaleRefused` of BasicList (`MCCollections.cfg` without its VIEW, which drops the
  last answer): GET of a stale list iterator
  (`my_basic.c:17804`) does not look at the lock and answers from a node that may be
  freed.
- `GarbageAlwaysKnown` (`MCBasic.cfg`): the table of collected addresses is
  cleared only by a collection; a new list at such an address is not noted when
  it becomes garbage, and is never freed.

Behaviour of the BASIC interpreter met while modelling it, which the modules
exclude by a guard or by their inputs:

- Expressions: `1 (2)` is 2, and `(1+1) (2)` destroys an intermediate twice
  (`my_basic.c:4057-4072`); `-a(0)+b` is `-(a(0)+b)` (`:3948`); `NOT -(a+b)` is
  refused; `NOT (` or a call as a program's last token dereferences NULL;
  numbers are 32 bit ints and floats, and MOD tests its divisor as an int.
- Statements: NEXT as a statement works only for FOR and not at the start of a
  line (`_skip_struct`); GOSUB in a FOR ends the loop, in a multi-line IF is an
  error; GOSUB or RETURN in some one-line IFs leaves `skip_to_eoi` behind; the
  tail call (`:4312`) drops what follows a recursive call on the last line of a
  routine; one-line loops fail.
- Lists: ranges that descend have a negative length; BACK, SORT, TO_ARRAY and
  CLONE of a range look at a chain that is not there yet; `it = it` uses a freed
  iterator (`:7940`); an iterator that is never assigned unlocks what it did not
  lock; GET of an iterator that has not moved reads the header. SORT puts
  negative integers behind positive ones (BasicList has this: `Above`).
- Dictionaries: assigning to the variable of FOR k IN d changes the key where it
  is, in the wrong bucket (`:11275`); 1 and 1.0 are two keys.

## 5. Proofs

All theorems are for every value of the constants, under the named assumptions
of the modules (sizes are positive, page numbers are closed under superpage
arithmetic, the guest writes well-formed values, `mideleg` is written with
delegable interrupts only).

- **MmuProofs**: `TypeCorrect`, `CodeIsCurrent`, `DataIsCurrent`,
  `UseIsRecorded`. The invariants are not inductive alone: marking A and D
  writes page-table words that other cached translations depend on, and traps
  change `mstatus` under data entries. `IInv` says of every cached entry that it
  is sound with respect to the walk and that A and D are set. `WalkStable` shows that a
  walk does not change when memory only changes by marks or in words outside
  its path; `KeepIInv`, `FillIInv` and `RaiseIInv` lift that to actions that keep
  the TLBs, fill one entry, or trap.
- **HartProofs**, of Trap: `TrapTypeCorrect`, `WakeupNotLost`, `MachineStateIsKept`,
  `ReturnsRestore`, `InterruptsRespectLevels`. `FramesKept` strengthens the
  invariant: while a frame is open the bits its return will use are those the trap
  saved. It holds because traps to one level write only that level's half.
  `TakenIsPending` says what `get_pending_irq_mask` and `ctz32` pick together: the
  least source that is pending, enabled and not blocked at the current level.
  Of Interp: `SliceOverrun`, `InterruptLatency`, `BlocksKeepPrivilege`,
  `EveryInstructionCounted`, `LoopAdvances`, for every slice and block length; and
  the refinement `LoopRefinesTrap`: each step of the loop is a step of Trap or a
  stutter, so the theorems about Trap carry over (`LoopKeepsTrapPromises`). Latency
  is not inductive alone. The invariant says in addition that a block is begun with
  a cycle left (`BlockPaid`) and with no interrupt deliverable, so that what is left of
  it never makes one late (`BlockInTime`), and that the hart is awake inside the
  loop (`Awake`), without which a step of the loop would not be one of Trap.
- **FpuProofs**: `TypesKept`, `SavedContextKept`, `OrderIsKept`, for two formats of any size
  the assumptions allow, any registers and any programs. That registers keep their
  types says two things about softfp: no assertion of `normalize_sf` and `normalize2_sf`
  fails, whatever the operands are, and no result is wider than its format, which in a
  register would change the bits above it. `Pending` adds to the invariant that what is left of
  the program is well-formed.
- **SoftFpProofs**, what that rests on: the range of every operation, from the integers in it
  (`RoundPackTyped`, and one lemma for each operation). A mantissa that is shifted, added,
  multiplied or divided stays below a power of two that leaves `normalize_sf` its room. The products by
  halves and the quotients bit by bit are exact, and the estimates of `sqrtrem_u` end at
  one below that power. A word's bits without its sign are ordered as the values are
  (`WordOrder`, `CompareExact`, `SmallerFirstExact`).
- **MemoryProofs**, of MemAccess: `AccessTypes`, `LoadsReadTheirBytes`, `FaultsAreJustified`,
  `DevicesAreAddressed`, `StoresRestart`, for every page size, width, TLB size and
  mapping. `Current` says that an entry's frame is its page's; with it an access
  through the TLB equals one through the walk. A misaligned load is two aligned
  loads put together; a misaligned store is one store per byte. For `StoreRestarts`
  the invariant describes memory between the fault and the retry (`HalfWritten`): it
  is the old memory with the store's first k bytes written, in pages that stay
  mapped as they are; the retry writes those again and the others for the first time.
  Of LrSc: `AtomicWithDummyLr`, `ScIsExclusive`, for any number of
  threads, when `SwitchWith = "lr"`. The invariant ties a thread's right to succeed
  to its being the one that ran since its LR. Of PhysMem: `DirtyBitsExact`
  and the refinement `ImplementsLog`, both of stores: page walks may mark any page at any time.
- **PeripheralProofs**, the devices with their drivers:
  - Uart: `NoCharacterLost`, `RxavIsHonest`, for any input and any stdio buffer.
    `RxavBacked`: once RXAV was shown, the character is in the peripheral's buffer.
  - Display: `WaitEndsAtFrame`, `WaitOncePerFrame` and `LacksOnlyWhatIsOwed` for any number of
    lines and any slice. `NoFrameTorn` and `LayersAreSetUp` have one premise, `SliceFits`: a slice is at
    least as long as a poll of the line register and a driver call. Without it a guest
    cannot know that the frame is over for long enough; a slice of this program has
    1388 instructions (`main.c:80`), the poll and the longest call a few dozen. The
    invariants: what the line register reports of the frame drawn and of the wait
    (`Reported`, `Counted`, `Waited`); what is left to write is the end of some call
    (`Halfway`), a call that has written one of its registers has written the others or
    still owes them (`BegunIsDone`), and the frame buffer's address comes last
    (`BaseIsLast`); what is left of a slice when the wait ends is enough
    for the call (`SeenAtOnce`, `FreshEarly`, `CallFits`).
  - Sprites: `SpritesAreShown`, for any screen, sprite size and list without the
    marker. `Holds` describes the walk after n entries: the pixel shows the last of
    the first n that covers it. `NearBothWays` is the arithmetic: the comparison in 16
    bits agrees with distance around the ring.
  - Backgrounds: `BackgroundTypes`, `MapIsShown`, for all sizes and scroll positions.
    The invariant says that a map's tiles, by index, are the cells the program put
    there (`TilesOK`), and that what a scroll register of a visible layer holds is
    what the program asked for, but for a multiple of the map's size (`Apart`). The
    renderer's loops of subtractions and steps are functions whose values are found
    by the least counterexample.
- **BasicCollectionProofs**, the list and the dictionary. Of BasicList: `LockCorrect`,
  `IteratorsSafe`, for every memory size, list and number of iterators. `IteratorsAlive` alone is not inductive: that a write
  marks the lock depends on the lock being positive whenever somebody iterates.
  `LockCounts` says that |lock| is the number of live iterators; with it, an
  operation that frees a node either finds no iterator or makes the lock
  negative, and an unlock reaches zero only with the last one.
  `ListIsSequence` is the refinement of AbstractList, under `Ascending` and
  `FilledFirst`, the premises of the run. The invariant: the chain holds no node
  twice, the count is its length, the node in the cache is the one at its index, and
  a range nothing has filled has no chain (`ListOK`); while the list has not changed
  under them, iterators are at elements and the variable of a loop is the element the
  loop is at (`ItsOK`). Each statement has a lemma: it keeps the invariant and is the
  statement of AbstractList with the same name. Filling a range changes nodes, count
  and cache and not what the list contains (`Filling`); `_node_at_list` finds the
  node at an index by the cache, from the head or from the tail (`FoundIs`).
  What those lemmas need of chains of nodes comes first: an element is put in,
  taken out or changed; and `Sorting`, that `_ls_sort` yields the same nodes in order.
  A merge is followed by how much of both runs it has taken; a pass by how many pairs
  of runs; after k passes runs of 2^k are in order, and the length of a run overtakes
  that of the list before the passes end. The nodes are the same because they are as
  many and all different.
  Of BasicDict: `DictIsMap`, the refinement of AbstractDict, for any keys,
  number of buckets, hash and number of iterators. The invariant: a chain holds no
  key twice and none of another bucket (`TableOK`); the count is the number of
  keys held (`CountOK`); the lock counts the iterators; and while the dictionary has
  not changed under it, an iterator is before the first key, after the last, or at a
  key in the bucket it thinks it is in (`DictInPlace`). The step that takes work is
  `_move_dict_it_next`: what the iterator has passed grows by exactly the one key it
  arrives at, through the rest of its chain or over any number of empty buckets.
- **BasicGcProofs**: `GcTyped`, `NothingReachableFreed`, `NoGarbageForgotten` and
  `ListsAreCounted`, for any number of lists and variables, any threshold and bounds. None of them is
  inductive alone: that a list is not freed depends on its count, and counts say nothing of
  who refers to it. The invariant (`GcInv`) keeps the books of a set H of lists that
  is closed under elements and holds what the variables do. A list in it is *backed*
  if its count exceeds what variables, the running statement, the intermediate value and the
  lists of H account for (`Backed`), or else is the intermediate value, made by this statement
  (`Temporary`). That it exceeds, and is not just equal, is the reference which every
  expression leaves counted: the `_unref` of a statement is then never the last one of a backed
  list (`SoundLost`), and only temporary lists are freed outside the collector,
  whose elements are backed, so that `_unref` and `_destroy_list` nest no deeper than once
  (`InterGone`, `UnrefLeaves`). While the collector runs H is what is reachable, perhaps with the
  intermediate value: it visits nothing of it, and references it takes from others
  only widen the difference (`SweptSound`). For the other half, `KnownFrom` says that a set which
  is closed and contains the roots, the tables and the intermediate value
  contains all lists, and `KnownStep` what a step must do to keep it so: where a reference goes,
  its list is noted. The premise is that no list took an address still noted as
  collected (`reused`, section 4). Closure and the calls of `_unref` are recursive
  functions, reasoned about step by step (`ClosureIsClosed`, `EachDropped`). Two of
  the findings lie outside: a list held by a statement alone is not reachable from variables
  (`gc_held`), and after freed memory was used statements no longer begin.

Only model-checked, and why:

- liveness (`InterruptServed`, `WaitReturns`, `EndDelivers`, `CallReturns`): the prover has
  neither fairness nor ENABLED;
- BasicFlow with BasicProgram, and BasicExpr: what they say is about trees of any depth,
  defined with RECURSIVE operators, which the prover does not take;
- IntOps and Compressed: bit patterns, by the community module Bitwise, complete over
  the small widths that the runs have;
- `ResultRounded` of Fpu: that a result is the exact one rounded is about quotients, roots and
  sticky bits at once; the runs have all operands of a small format;
- the violations of section 4, which are counterexamples.

Where a proof needs induction (the walks of the sprite list, of a chain, of buckets)
it takes the least counterexample: the induction theorems of the library have an
operator as a parameter and cannot be instantiated, and the existence of a
recursively defined function is shown by exhibiting it.

This version of tlapm compares two CASE expressions by their first arm when it prepares
an obligation for SMT. Leaves that equate one CASE with another name Zenon, which
is not affected.

## 6. Plan

In order; each module with the abstract statement it is for.

1. **FrameBuffer**: `gfx_render_fb_scanline`, whose scroll wraps around once, with
   `gfx_fb_set_mem` and `gfx_fb_set_scroll`.
2. **Loader**: `loader.c`, `peri_cheat.c`, `tile_loader.c` and `_sbrk`: the size/read
   protocol refining "load a file into a fresh block"; failures of each step.
3. **Machine**: Interp and Display composed: the accesses of a slice derived from
   its instructions, power-down within a frame; Backgrounds drawn between the
   register writes of a call.
4. **BASIC's parser**: from characters to the list of nodes that BasicFlow
   executes; scopes and parameters of routines; dictionaries and classes as owners in BasicGc.

Not modelled, and why: the 64 and 128 bit variants of the hart (compiled out);
buttons and SDL (drawing is output; a key that is no cursor key sets the buttons
of an uninitialised mask, `sdl_glue.c:71`, which is one read of an undefined
value); PNG and TMX parsing (libraries); the C library stubs that return
constants; the utilities, demo and build files (no state of their own).
