------------------------------ MODULE MmuProofs ------------------------------
(***************************************************************************)
(* Proofs about module Mmu for every page-table geometry, TLB size, RAM    *)
(* layout, set of PTE values and set of guest stores.                      *)
(*                                                                         *)
(* The inductive invariant says of every TLB entry, not only of the page   *)
(* it holds but of the leaf it came from, what the walk would find now.    *)
(* The one idea: a step that keeps the translation registers and changes   *)
(* no word on a walk's path beyond its A and D bits leaves the walk as it  *)
(* was (WalkStable), and every step that changes a translation register    *)
(* empties the TLBs (Flush) or only touches MPP while MPRV is clear.       *)
(***************************************************************************)
EXTENDS Mmu, TLAPS

\* Type correctness, one action at a time.

LEMMA MarkedType ==
    ASSUME TypeOK, NEW acc \in Access, NEW vp \in Page, Walk(acc, vp) # NoPage
    PROVE  Marked(acc, vp) \in [Slot -> Pte]
<1>1. CASE Physical(acc)
    BY <1>1 DEF Marked, TypeOK
<1>2. CASE ~Physical(acc)
    <2> DEFINE leaf == LeafSlot(vp)
    <2>1. Permitted(Word(leaf), acc)
        BY <1>2 DEF Walk
    <2>2. leaf \in Slot
        BY <2>1 DEF Permitted, Word, ZeroPte
    <2>3. Mark(mem[leaf], acc) \in Pte
        BY <2>1, <2>2, PteAssumption DEF Permitted, Word, TypeOK
    <2> QED
        BY <1>2, <2>2, <2>3 DEF Marked, TypeOK
<1> QED
    BY <1>1, <1>2

LEMMA FillType ==
    ASSUME TypeOK, NEW acc \in Access, NEW vp \in Page, NEW pp \in RamPage,
           Fill(acc, vp, pp)
    PROVE  tlb' \in Tlb
<1>1. [vp |-> vp, pp |-> pp] \in Entry
    BY DEF Entry
<1> QED
    BY <1>1 DEF Fill, Tlb, TypeOK

LEMMA FlushType == EmptyTlb \in Tlb
BY DEF EmptyTlb, Tlb, Entry

\* Taking a trap keeps every variable it touches in its type.
LEMMA RaiseType ==
    ASSUME TypeOK, RaiseException
    PROVE  priv' \in Priv /\ mstatus' \in Mstatus /\ satp' \in Satp
           /\ tlb' \in Tlb /\ edited' \subseteq Slot
BY FlushType
   DEF TypeOK, RaiseException, SetPriv, FlushAll, KeepTlb, Mstatus, Priv,
       PRV_U, PRV_S, PRV_H, PRV_M

LEMMA SetMstatusType ==
    ASSUME TypeOK, NEW new \in Mstatus, SetMstatus(new)
    PROVE  TypeOK'
BY FlushType DEF TypeOK, SetMstatus, FlushAll, KeepTlb

LEMMA AccessType ==
    ASSUME TypeOK, NEW vp \in Page,
           \/ Load(vp)
           \/ \E word \in 0 .. Fan - 1, pte \in Pte : Store(vp, word, pte)
           \/ Fetch(vp)
    PROVE  TypeOK'
<1>1. CASE LoadHit(vp) \/ FetchHit(vp)
    BY <1>1 DEF LoadHit, FetchHit, vars, TypeOK
<1>2. CASE LoadMiss(vp)
    BY <1>2, MarkedType, FillType DEF LoadMiss, Access, TypeOK
<1>3. ASSUME NEW word \in 0 .. Fan - 1, NEW pte \in Pte, StoreHit(vp, word, pte)
      PROVE  TypeOK'
    <2> DEFINE slot == <<tlb["write"][Index(vp)].pp, word>>
    <2>1. slot \in Slot
        BY <1>3, PteAssumption DEF StoreHit
    <2> QED
        BY <1>3, <2>1 DEF StoreHit, TypeOK
<1>4. ASSUME NEW word \in 0 .. Fan - 1, NEW pte \in Pte, StoreMiss(vp, word, pte)
      PROVE  TypeOK'
    <2> DEFINE page == Walk("write", vp)
    <2>1. Marked("write", vp) \in [Slot -> Pte]
        BY <1>4, MarkedType DEF StoreMiss, Access
    <2>2. CASE page \in RamPage
        <3>1. mem' \in [Slot -> Pte]
            BY <1>4, <2>1, <2>2 DEF StoreMiss
        <3>2. <<page, word>> \in Slot
            BY <2>2 DEF Slot
        <3>3. tlb' \in Tlb
            BY <1>4, <2>2, FillType DEF StoreMiss, Access
        <3> QED
            BY <1>4, <2>2, <3>1, <3>2, <3>3 DEF StoreMiss, TypeOK
    <2>3. CASE page \notin RamPage
        BY <1>4, <2>1, <2>3 DEF StoreMiss, KeepTlb, TypeOK
    <2> QED
        BY <2>2, <2>3
<1>5. CASE FetchMiss(vp)
    <2>1. mem' \in [Slot -> Pte]
        BY <1>5, MarkedType DEF FetchMiss, Access
    <2>2. CASE Walk("code", vp) \in RamPage
        BY <1>5, <2>1, <2>2, FillType DEF FetchMiss, Access, TypeOK
    <2>3. CASE Walk("code", vp) \notin RamPage
        BY <1>5, <2>1, <2>3, RaiseType DEF FetchMiss, TypeOK
    <2> QED
        BY <2>2, <2>3
<1>6. ASSUME NEW acc \in Access, PageFault(acc, vp)
      PROVE  TypeOK'
    BY <1>6, RaiseType DEF PageFault, TypeOK
<1> QED
    BY <1>1, <1>2, <1>3, <1>4, <1>5, <1>6 DEF Load, Store, Fetch, Access

LEMMA TypeStep == TypeOK /\ [Next]_vars => TypeOK'
<1> SUFFICES ASSUME TypeOK, [Next]_vars PROVE TypeOK'
    OBVIOUS
<1> USE FlushType DEF TypeOK
<1>1. ASSUME NEW vp \in Page,
             \/ Load(vp)
             \/ \E word \in 0 .. Fan - 1, pte \in Pte : Store(vp, word, pte)
             \/ Fetch(vp)
      PROVE  TypeOK'
    BY <1>1, AccessType
<1>2. CASE Trap
    BY <1>2, RaiseType DEF Trap
<1>3. ASSUME NEW new \in MstatusWrites, WriteMstatus(new) PROVE TypeOK'
    BY <1>3, SetMstatusType, MstatusAssumption DEF WriteMstatus
<1>4. ASSUME NEW spp \in {PRV_U, PRV_S}, NEW sum \in BOOLEAN, NEW mxr \in BOOLEAN,
             WriteSstatus(spp, sum, mxr)
      PROVE  TypeOK'
    <2>1. [mstatus EXCEPT !.spp = spp, !.sum = sum, !.mxr = mxr] \in Mstatus
        BY DEF Mstatus
    <2> QED
        BY <1>4, <2>1, SetMstatusType DEF WriteSstatus
<1>5. ASSUME NEW new \in Satp, WriteSatp(new) PROVE TypeOK'
    BY <1>5 DEF WriteSatp, FlushAll
<1>6. CASE SfenceVma
    BY <1>6 DEF SfenceVma, FlushAll
<1>7. CASE Sret
    BY <1>7 DEF Sret, SetPriv, FlushAll, KeepTlb, Mstatus, Priv, PRV_U, PRV_S
<1>8. CASE Mret
    BY <1>8 DEF Mret, SetPriv, FlushAll, KeepTlb, Mstatus, Priv, PRV_U
<1>9. ASSUME NEW pages \in SUBSET RamPage, FlushWriteRange(pages) PROVE TypeOK'
    BY <1>9 DEF FlushWriteRange, Tlb, Entry, Access
<1>10. CASE UNCHANGED vars
    BY <1>10 DEF vars
<1> QED
    BY <1>1, <1>2, <1>3, <1>4, <1>5, <1>6, <1>7, <1>8, <1>9, <1>10 DEF Next

\* Every state the hart reaches is well typed; in particular no device or
\* unmapped page is ever cached in a TLB, and the page tables always hold
\* words of the guest's PTE values with A and D added.
THEOREM TypeCorrect == Spec => []TypeOK
<1>1. Init => TypeOK
    <2> SUFFICES ASSUME Init PROVE TypeOK
        OBVIOUS
    <2>1. priv \in Priv /\ mstatus \in Mstatus
        BY DEF Init, Priv, Mstatus, PRV_U, PRV_S, PRV_H, PRV_M
    <2>2. satp \in Satp
        BY DEF Init, Satp
    <2>3. mem \in [Slot -> Pte]
        BY PteAssumption DEF Init
    <2>4. tlb \in Tlb /\ edited \subseteq Slot
        BY FlushType DEF Init
    <2> QED
        BY <2>1, <2>2, <2>3, <2>4 DEF TypeOK
<1> QED
    BY <1>1, TypeStep, PTL DEF Spec

-----------------------------------------------------------------------------
(* The cached translations.                                                *)

\* Two PTEs that a walk cannot tell apart: equal but for A and D, which the
\* second may only have gained.
Kept(old, new) ==
    /\ new.v = old.v /\ new.r = old.r /\ new.w = old.w /\ new.x = old.x
    /\ new.u = old.u /\ new.ppn = old.ppn
    /\ old.a => new.a
    /\ old.d => new.d

\* What the invariant says of one TLB entry e of kind acc.
Sound(acc, e) ==
    e # NoEntry /\ Path(acc, e.vp) \cap edited = {}
        => /\ Walk(acc, e.vp) = e.pp
           /\ ~Physical(acc) => /\ Word(LeafSlot(e.vp)).a
                                /\ acc = "write" => Word(LeafSlot(e.vp)).d

Relied(acc) == acc = "code" \/ ~mstatus.mprv

IInv ==
    \A acc \in Access, i \in 0 .. TlbSize - 1, e \in Entry :
        Relied(acc) /\ tlb[acc][i] = e => Sound(acc, e)

\* The registers an access of kind acc is translated with.
SameConfig(acc) ==
    /\ EffPriv(acc)' = EffPriv(acc)
    /\ mstatus'.sum = mstatus.sum
    /\ mstatus'.mxr = mstatus.mxr
    /\ satp' = satp

\* Memory may change, outside the words edited since the last flush, in A and D
\* bits only.
Grown == \A s \in Slot \ edited' : Kept(mem[s], mem'[s])

\* Under unchanged registers, a walk whose path avoids edited words is the same
\* after the step.
LEMMA WalkStable ==
    ASSUME NEW acc \in Access, NEW vp \in Page, SameConfig(acc), Grown,
           Path(acc, vp)' \cap edited' = {}
    PROVE  /\ Path(acc, vp)' = Path(acc, vp)
           /\ Walk(acc, vp)' = Walk(acc, vp)
           /\ Physical(acc)' = Physical(acc)
           /\ ~Physical(acc) => Kept(Word(LeafSlot(vp)), Word(LeafSlot(vp))')
<1>1. Physical(acc)' = Physical(acc)
    BY DEF SameConfig, Physical
<1>2. CASE Physical(acc)
    BY <1>1, <1>2 DEF Path, Walk
<1>3. CASE ~Physical(acc)
    <2>1. RootSlot(vp)' = RootSlot(vp)
        BY DEF SameConfig, RootSlot
    <2>2. Path(acc, vp)' = {RootSlot(vp), LeafSlot(vp)'}
        BY <1>1, <1>3, <2>1 DEF Path
    <2>3. Kept(Word(RootSlot(vp)), Word(RootSlot(vp))')
        BY <2>1, <2>2 DEF Grown, Word, Kept, ZeroPte
    <2>4. LeafSlot(vp)' = LeafSlot(vp)
        BY <2>1, <2>3 DEF LeafSlot, IsPointer, Kept
    <2>5. Kept(Word(LeafSlot(vp)), Word(LeafSlot(vp))')
        BY <2>2, <2>4 DEF Grown, Word, Kept, ZeroPte
    <2>6. Target(vp)' = Target(vp)
        BY <2>1, <2>4, <2>5 DEF Target, Kept
    <2>7. Permitted(Word(LeafSlot(vp)), acc)' = Permitted(Word(LeafSlot(vp)), acc)
        BY <2>5 DEF Permitted, IsPointer, Kept, SameConfig
    <2>8. Path(acc, vp)' = Path(acc, vp)
        BY <1>3, <2>2, <2>4 DEF Path
    <2> QED
        BY <1>1, <1>3, <2>5, <2>6, <2>7, <2>8 DEF Walk
<1> QED
    BY <1>2, <1>3

\* So an entry that was sound stays sound, when the words edited so far stay
\* counted as edited.
LEMMA SoundStable ==
    ASSUME NEW acc \in Access, NEW e \in Entry, SameConfig(acc), Grown,
           edited \subseteq edited', Sound(acc, e)
    PROVE  Sound(acc, e)'
<1> SUFFICES ASSUME e # NoEntry, Path(acc, e.vp)' \cap edited' = {}
             PROVE  /\ Walk(acc, e.vp)' = e.pp
                    /\ ~Physical(acc)' =>
                         /\ Word(LeafSlot(e.vp))'.a
                         /\ acc = "write" => Word(LeafSlot(e.vp))'.d
    BY DEF Sound
<1>1. e.vp \in Page
    BY DEF Entry
<1>2. /\ Path(acc, e.vp)' = Path(acc, e.vp)
      /\ Walk(acc, e.vp)' = Walk(acc, e.vp)
      /\ Physical(acc)' = Physical(acc)
      /\ ~Physical(acc) => Kept(Word(LeafSlot(e.vp)), Word(LeafSlot(e.vp))')
    BY <1>1, WalkStable
<1>3. Path(acc, e.vp) \cap edited = {}
    BY <1>2
<1> QED
    BY <1>2, <1>3 DEF Sound, Kept

\* The write-back of A and D by a walk that succeeds.
LEMMA MarkedGrown ==
    ASSUME TypeOK, NEW acc \in Access, NEW vp \in Page, Walk(acc, vp) # NoPage
    PROVE  /\ \A s \in Slot : Kept(mem[s], Marked(acc, vp)[s])
           /\ ~Physical(acc) =>
                /\ LeafSlot(vp) \in Slot
                /\ Marked(acc, vp)[LeafSlot(vp)].a
                /\ acc = "write" => Marked(acc, vp)[LeafSlot(vp)].d
<1>1. CASE Physical(acc)
    BY <1>1 DEF Marked, Kept
<1>2. CASE ~Physical(acc)
    <2>1. LeafSlot(vp) \in Slot
        BY <1>2 DEF Walk, Permitted, Word, ZeroPte
    <2>2. mem[LeafSlot(vp)] \in PteField
        BY <2>1, PteAssumption DEF TypeOK
    <2>3. Kept(mem[LeafSlot(vp)], Mark(mem[LeafSlot(vp)], acc))
        BY <2>2 DEF Kept, Mark, PteField
    <2>4. /\ Mark(mem[LeafSlot(vp)], acc).a
          /\ acc = "write" => Mark(mem[LeafSlot(vp)], acc).d
        BY <2>2 DEF Mark, PteField
    <2> QED
        BY <1>2, <2>1, <2>3, <2>4 DEF Marked, Kept, TypeOK
<1> QED
    BY <1>1, <1>2

-----------------------------------------------------------------------------
(* The inductive step.                                                     *)

\* A flush establishes the invariant.
LEMMA FlushIInv == ASSUME tlb' = EmptyTlb PROVE IInv'
BY DEF EmptyTlb, IInv, Sound

\* A step that adds only sound entries, and leaves the registers of every
\* access still relied on as they were, keeps it.
LEMMA KeepIInv ==
    ASSUME TypeOK, TypeOK', IInv, Grown, edited \subseteq edited',
           \A acc \in Access : Relied(acc)' => Relied(acc) /\ SameConfig(acc),
           \A acc \in Access, i \in 0 .. TlbSize - 1, e \in Entry :
               tlb'[acc][i] = e =>
                   \/ e = NoEntry
                   \/ tlb[acc][i] = e
                   \/ Relied(acc)' => Sound(acc, e)'
    PROVE  IInv'
<1> SUFFICES ASSUME NEW acc \in Access, NEW i \in 0 .. TlbSize - 1, NEW e \in Entry,
                    Relied(acc)', tlb'[acc][i] = e
             PROVE  Sound(acc, e)'
    BY DEF IInv
<1>1. CASE e = NoEntry
    BY <1>1 DEF Sound
<1>2. CASE tlb[acc][i] = e
    <2>1. Sound(acc, e) /\ SameConfig(acc)
        BY <1>2 DEF IInv
    <2> QED
        BY <2>1, SoundStable
<1>3. CASE Sound(acc, e)'
    BY <1>3
<1> QED
    BY <1>1, <1>2, <1>3

LEMMA KeepAllIInv ==
    ASSUME TypeOK, TypeOK', IInv, Grown, edited \subseteq edited', tlb' = tlb,
           \A acc \in Access : Relied(acc)' => Relied(acc) /\ SameConfig(acc)
    PROVE  IInv'
BY KeepIInv

\* The entry a miss fills is sound: its page is the walk's, its leaf is marked.
LEMMA FillIInv ==
    ASSUME TypeOK, TypeOK', IInv, edited \subseteq edited',
           priv' = priv, mstatus' = mstatus, satp' = satp,
           NEW acc \in Access, NEW vp \in Page, Walk(acc, vp) \in RamPage,
           Walk(acc, vp) # NoPage,
           Fill(acc, vp, Walk(acc, vp)),
           \A s \in Slot \ edited' : mem'[s] = Marked(acc, vp)[s]
    PROVE  IInv'
<1> DEFINE new == [vp |-> vp, pp |-> Walk(acc, vp)]
<1>1. Grown
    BY MarkedGrown DEF Grown
<1>2. \A a \in Access : SameConfig(a) /\ (Relied(a)' <=> Relied(a))
    BY DEF SameConfig, EffPriv, Relied
<1>3. ASSUME NEW e \in Entry, e = new
      PROVE  Sound(acc, e)'
    <2> SUFFICES ASSUME Path(acc, vp)' \cap edited' = {}
                 PROVE  /\ Walk(acc, vp)' = Walk(acc, vp)
                        /\ ~Physical(acc)' =>
                             /\ Word(LeafSlot(vp))'.a
                             /\ acc = "write" => Word(LeafSlot(vp))'.d
        BY <1>3 DEF Sound
    <2>1. /\ Path(acc, vp)' = Path(acc, vp)
          /\ Walk(acc, vp)' = Walk(acc, vp)
          /\ Physical(acc)' = Physical(acc)
        BY <1>1, <1>2, WalkStable
    <2>2. ASSUME ~Physical(acc)
          PROVE  /\ Word(LeafSlot(vp))'.a
                 /\ acc = "write" => Word(LeafSlot(vp))'.d
        <3>1. /\ LeafSlot(vp) \in Slot
              /\ Marked(acc, vp)[LeafSlot(vp)].a
              /\ acc = "write" => Marked(acc, vp)[LeafSlot(vp)].d
            BY <2>2, MarkedGrown
        <3>2. LeafSlot(vp)' = LeafSlot(vp) /\ LeafSlot(vp) \notin edited'
            <4>1. RootSlot(vp)' = RootSlot(vp)
                BY DEF RootSlot
            <4>2. Path(acc, vp)' = {RootSlot(vp), LeafSlot(vp)'}
                BY <2>1, <2>2, <4>1 DEF Path
            <4>3. Kept(Word(RootSlot(vp)), Word(RootSlot(vp))')
                BY <1>1, <4>1, <4>2 DEF Grown, Word, Kept, ZeroPte
            <4>4. LeafSlot(vp)' = LeafSlot(vp)
                BY <4>1, <4>3 DEF LeafSlot, IsPointer, Kept
            <4> QED
                BY <4>2, <4>4
        <3> QED
            BY <3>1, <3>2 DEF Word
    <2> QED
        BY <2>1, <2>2
<1>4. ASSUME NEW a \in Access, NEW i \in 0 .. TlbSize - 1, NEW e \in Entry,
             tlb'[a][i] = e
      PROVE  tlb[a][i] = e \/ (a = acc /\ e = new)
    <2>1. tlb \in [Access -> [0 .. TlbSize - 1 -> Entry]]
        BY DEF TypeOK, Tlb
    <2>2. tlb' = [tlb EXCEPT ![acc][Index(vp)] = new]
        BY DEF Fill
    <2> QED
        BY <1>4, <2>1, <2>2
<1> QED
    BY <1>1, <1>2, <1>3, <1>4, KeepIInv

\* Taking a trap: MPP or SPP change, but the privilege only with a flush.
LEMMA RaiseIInv ==
    ASSUME TypeOK, TypeOK', IInv, RaiseException,
           \A s \in Slot : Kept(mem[s], mem'[s])
    PROVE  IInv'
<1>1. CASE tlb' = EmptyTlb
    BY <1>1, FlushIInv
<1>2. CASE priv' = priv /\ KeepTlb
    <2>1. /\ mstatus'.mprv = mstatus.mprv
          /\ mstatus'.sum = mstatus.sum
          /\ mstatus'.mxr = mstatus.mxr
        BY DEF RaiseException, TypeOK, Mstatus
    <2>2. \A acc \in Access : Relied(acc)' => Relied(acc) /\ SameConfig(acc)
        BY <1>2, <2>1 DEF Relied, SameConfig, EffPriv, RaiseException
    <2> QED
        BY <1>2, <2>2, KeepAllIInv DEF KeepTlb, Grown
<1> QED
    BY <1>1, <1>2 DEF RaiseException, SetPriv, FlushAll

LEMMA KeptRefl == \A pte : Kept(pte, pte)
BY DEF Kept

\* sret and mret: as for a trap.
LEMMA ReturnIInv ==
    ASSUME TypeOK, TypeOK', IInv, Sret \/ Mret
    PROVE  IInv'
<1>1. CASE tlb' = EmptyTlb
    BY <1>1, FlushIInv
<1>2. CASE priv' = priv /\ KeepTlb
    <2>1. /\ mstatus'.mprv = mstatus.mprv
          /\ mstatus'.sum = mstatus.sum
          /\ mstatus'.mxr = mstatus.mxr
          /\ mem' = mem /\ satp' = satp
        BY DEF Sret, Mret, TypeOK, Mstatus
    <2>2. \A acc \in Access : Relied(acc)' => Relied(acc) /\ SameConfig(acc)
        BY <1>2, <2>1 DEF Relied, SameConfig, EffPriv
    <2> QED
        BY <1>2, <2>1, <2>2, KeepAllIInv, KeptRefl DEF KeepTlb, Grown
<1> QED
    BY <1>1, <1>2 DEF Sret, Mret, SetPriv, FlushAll

\* set_mstatus: without a flush, the relied-on accesses see no change.
LEMMA SetMstatusIInv ==
    ASSUME TypeOK, TypeOK', IInv, NEW new \in Mstatus, SetMstatus(new)
    PROVE  IInv'
<1>1. CASE tlb' = EmptyTlb
    BY <1>1, FlushIInv
<1>2. CASE /\ KeepTlb
           /\ new.mprv = mstatus.mprv
           /\ new.sum = mstatus.sum
           /\ new.mxr = mstatus.mxr
    <2>1. priv' = priv /\ mstatus' = new /\ mem' = mem /\ satp' = satp
        BY DEF SetMstatus
    <2>2. \A acc \in Access : Relied(acc)' => Relied(acc) /\ SameConfig(acc)
        BY <1>2, <2>1 DEF Relied, SameConfig, EffPriv
    <2> QED
        BY <1>2, <2>1, <2>2, KeepAllIInv, KeptRefl DEF KeepTlb, Grown
<1> QED
    BY <1>1, <1>2 DEF SetMstatus, FlushAll

LEMMA AccessIInv ==
    ASSUME TypeOK, TypeOK', IInv, NEW vp \in Page,
           \/ Load(vp)
           \/ \E word \in 0 .. Fan - 1, pte \in Pte : Store(vp, word, pte)
           \/ Fetch(vp)
    PROVE  IInv'
<1>a. \A acc \in Access : priv' = priv /\ mstatus' = mstatus /\ satp' = satp
                          => SameConfig(acc) /\ (Relied(acc)' <=> Relied(acc))
    BY DEF SameConfig, EffPriv, Relied
<1>b. \A pp \in RamPage : pp # NoPage
    BY PageAssumption DEF NoPage
<1>1. CASE LoadHit(vp) \/ FetchHit(vp)
    BY <1>1, <1>a, KeptRefl, KeepAllIInv DEF LoadHit, FetchHit, vars, Grown
<1>2. CASE LoadMiss(vp)
    <2>1. CASE Walk("read", vp) \in RamPage
        BY <1>2, <1>b, <2>1, FillIInv DEF LoadMiss, Access
    <2>2. CASE Walk("read", vp) \notin RamPage
        <3>1. Grown
            BY <1>2, MarkedGrown DEF LoadMiss, Grown, Access
        <3> QED
            BY <1>2, <1>a, <2>2, <3>1, KeepAllIInv DEF LoadMiss
    <2> QED
        BY <2>1, <2>2
<1>3. ASSUME NEW word \in 0 .. Fan - 1, NEW pte \in Pte, StoreHit(vp, word, pte)
      PROVE  IInv'
    <2>1. Grown
        BY <1>3, KeptRefl DEF StoreHit, Grown, TypeOK
    <2> QED
        BY <1>3, <1>a, <2>1, KeepAllIInv DEF StoreHit
<1>4. ASSUME NEW word \in 0 .. Fan - 1, NEW pte \in Pte, StoreMiss(vp, word, pte)
      PROVE  IInv'
    <2>1. CASE Walk("write", vp) \in RamPage
        <3>1. Marked("write", vp) \in [Slot -> Pte]
            BY <1>4, MarkedType DEF StoreMiss, Access
        <3>2. \A s \in Slot \ edited' : mem'[s] = Marked("write", vp)[s]
            BY <1>4, <2>1, <3>1 DEF StoreMiss
        <3> QED
            BY <1>4, <1>b, <2>1, <3>2, FillIInv DEF StoreMiss, Access
    <2>2. CASE Walk("write", vp) \notin RamPage
        <3>1. Grown
            BY <1>4, <2>2, MarkedGrown DEF StoreMiss, Grown, Access
        <3> QED
            BY <1>4, <1>a, <2>2, <3>1, KeepAllIInv DEF StoreMiss, KeepTlb
    <2> QED
        BY <2>1, <2>2
<1>5. CASE FetchMiss(vp)
    <2>1. CASE Walk("code", vp) \in RamPage
        BY <1>5, <1>b, <2>1, FillIInv DEF FetchMiss, Access
    <2>2. CASE Walk("code", vp) \notin RamPage
        BY <1>5, <2>2, MarkedGrown, RaiseIInv DEF FetchMiss, Access
    <2> QED
        BY <2>1, <2>2
<1>6. ASSUME NEW acc \in Access, PageFault(acc, vp)
      PROVE  IInv'
    BY <1>6, KeptRefl, RaiseIInv DEF PageFault
<1> QED
    BY <1>1, <1>2, <1>3, <1>4, <1>5, <1>6 DEF Load, Store, Fetch, Access

LEMMA IInvStep == TypeOK /\ TypeOK' /\ IInv /\ [Next]_vars => IInv'
<1> SUFFICES ASSUME TypeOK, TypeOK', IInv, [Next]_vars PROVE IInv'
    OBVIOUS
<1>1. ASSUME NEW vp \in Page,
             \/ Load(vp)
             \/ \E word \in 0 .. Fan - 1, pte \in Pte : Store(vp, word, pte)
             \/ Fetch(vp)
      PROVE  IInv'
    BY <1>1, AccessIInv
<1>2. CASE Trap
    BY <1>2, KeptRefl, RaiseIInv DEF Trap
<1>3. ASSUME NEW new \in MstatusWrites, WriteMstatus(new) PROVE IInv'
    BY <1>3, SetMstatusIInv, MstatusAssumption DEF WriteMstatus
<1>4. ASSUME NEW spp \in {PRV_U, PRV_S}, NEW sum \in BOOLEAN, NEW mxr \in BOOLEAN,
             WriteSstatus(spp, sum, mxr)
      PROVE  IInv'
    <2>1. [mstatus EXCEPT !.spp = spp, !.sum = sum, !.mxr = mxr] \in Mstatus
        BY DEF Mstatus, TypeOK
    <2> QED
        BY <1>4, <2>1, SetMstatusIInv DEF WriteSstatus
<1>5. ASSUME NEW new \in Satp, WriteSatp(new) PROVE IInv'
    BY <1>5, FlushIInv DEF WriteSatp, FlushAll
<1>6. CASE SfenceVma
    BY <1>6, FlushIInv DEF SfenceVma, FlushAll
<1>7. CASE Sret \/ Mret
    BY <1>7, ReturnIInv
<1>8. ASSUME NEW pages \in SUBSET RamPage, FlushWriteRange(pages) PROVE IInv'
    <2>1. \A acc \in Access : SameConfig(acc) /\ (Relied(acc)' <=> Relied(acc))
        BY <1>8 DEF FlushWriteRange, SameConfig, EffPriv, Relied
    <2>2. Grown
        BY <1>8, KeptRefl DEF FlushWriteRange, Grown
    <2>3. \A acc \in Access, i \in 0 .. TlbSize - 1 :
             tlb'[acc][i] = NoEntry \/ tlb'[acc][i] = tlb[acc][i]
        BY <1>8 DEF FlushWriteRange, TypeOK, Tlb
    <2> QED
        BY <1>8, <2>1, <2>2, <2>3, KeepIInv DEF FlushWriteRange
<1>9. CASE UNCHANGED vars
    <2>1. \A acc \in Access : SameConfig(acc) /\ (Relied(acc)' <=> Relied(acc))
        BY <1>9 DEF vars, SameConfig, EffPriv, Relied
    <2> QED
        BY <1>9, <2>1, KeptRefl, KeepAllIInv DEF vars, Grown
<1> QED
    BY <1>1, <1>2, <1>3, <1>4, <1>5, <1>6, <1>7, <1>8, <1>9 DEF Next

LEMMA Invariance == Spec => [](TypeOK /\ IInv)
<1>1. Init => IInv
    BY DEF Init, IInv, EmptyTlb, Sound
<1> QED
    BY <1>1, TypeCorrect, IInvStep, PTL DEF Spec

\* Whatever the guest does, code is only ever fetched through translations the
\* walk would give at that moment, unless it stored to the page tables since the
\* last flush.
THEOREM CodeIsCurrent == Spec => []CodeCurrent
<1>1. TypeOK /\ IInv => CodeCurrent
    BY DEF TypeOK, Tlb, IInv, Relied, Sound, Access, CodeCurrent, Current
<1> QED
    BY <1>1, Invariance, PTL

\* The same for loads and stores while MPRV is clear.
THEOREM DataIsCurrent == Spec => []DataCurrent
<1>1. TypeOK /\ IInv => DataCurrent
    BY DEF TypeOK, Tlb, IInv, Relied, Sound, Access, DataCurrent, Current
<1> QED
    BY <1>1, Invariance, PTL

\* Every page a TLB serves is recorded as accessed, and a page it serves stores
\* from as dirty, in the leaf PTE that maps it.
THEOREM UseIsRecorded == Spec => []UseRecorded
<1>1. TypeOK /\ IInv => UseRecorded
    BY DEF TypeOK, Tlb, IInv, Relied, Sound, UseRecorded
<1> QED
    BY <1>1, Invariance, PTL
=============================================================================
