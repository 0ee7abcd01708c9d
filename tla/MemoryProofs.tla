---------------------------- MODULE MemoryProofs ----------------------------
(***************************************************************************)
(* Proofs about the memory.  Loads and stores (module MemAccess), for      *)
(* pages, TLBs and address spaces of every size: a load yields the bytes   *)
(* its addresses stand for, an access faults exactly if it must and where  *)
(* it must, and a misaligned store that faults half way is completed when  *)
(* it is executed again.  What the fast paths rest on is that an entry of  *)
(* a TLB is the translation of its page: Current.                          *)
(*                                                                         *)
(* And what is kept beside the contents: the reservation of LR/SC (module  *)
(* LrSc), for any number of threads, and the dirty bits of a range (module *)
(* PhysMem), for any number of pages.                                      *)
(***************************************************************************)
EXTENDS MemAccess, LrSc, PhysMem, FiniteSetTheorems, SequenceTheorems, WellFoundedInduction, TLAPS

-----------------------------------------------------------------------------
(* Arithmetic: pages, offsets, alignment, the end of the address space.    *)

LEMMA DivMod ==
    ASSUME NEW n \in Nat \ {0}, NEW a \in Int
    PROVE  a = n * (a \div n) + (a % n) /\ a % n \in 0 .. n - 1 /\ a \div n \in Int
OBVIOUS

LEMMA DivModIs ==
    ASSUME NEW n \in Nat \ {0}, NEW q \in Int, NEW r \in 0 .. n - 1
    PROVE  (n * q + r) \div n = q /\ (n * q + r) % n = r
OBVIOUS

LEMMA ModNext ==
    ASSUME NEW n \in Nat, n >= 8, NEW a \in 0 .. n - 1, NEW i \in 0 .. 8
    PROVE  /\ a + i < n => (a + i) % n = a + i /\ a + i \in 0 .. n - 1
           /\ a + i >= n => (a + i) % n = a + i - n /\ a + i - n \in 0 .. n - 1
           /\ a + i < n \/ a + i >= n
<1>1. ASSUME NEW b \in Int PROVE 0 <= b /\ b < n => b % n = b
    OBVIOUS
<1>2. ASSUME NEW b \in Int PROVE n <= b /\ b < 2 * n => b % n = b - n
    OBVIOUS
<1> QED
    BY <1>1, <1>2

LEMMA LessFactor ==
    ASSUME NEW n \in Nat \ {0}, NEW q \in Int, NEW p \in Int, n * q < n * p
    PROVE  q < p /\ n * q + n <= n * p
OBVIOUS

\* A multiple of w below another one leaves room for w.
LEMMA MultipleBelow ==
    ASSUME NEW w \in Nat \ {0}, NEW a \in Int, NEW b \in Int, a % w = 0, b % w = 0, a < b
    PROVE  a + w <= b
<1>1. a = w * (a \div w) /\ b = w * (b \div w) /\ a \div w \in Int /\ b \div w \in Int
    BY DivMod
<1> QED
    BY <1>1, LessFactor

LEMMA MultipleOfMultiple ==
    ASSUME NEW w \in Nat \ {0}, NEW n \in Nat \ {0}, n % w = 0, NEW q \in Int
    PROVE  (n * q) % w = 0
<1>1. n = w * (n \div w) /\ n \div w \in Int
    BY DivMod
<1>2. n * q = w * ((n \div w) * q) + 0 /\ (n \div w) * q \in Int
    BY <1>1
<1>3. 0 \in 0 .. w - 1
    OBVIOUS
<1> QED
    BY <1>2, <1>3, DivModIs

LEMMA RestIsMultiple ==
    ASSUME NEW w \in Int, NEW k \in Int, NEW m \in Int, NEW q \in Int, NEW r \in Int,
           w * m = (w * k) * q + r
    PROVE  r = w * (m - k * q) /\ m - k * q \in Int
<1>1. (w * k) * q = w * (k * q)
    OBVIOUS
<1>2. w * (m - k * q) = w * m - w * (k * q)
    OBVIOUS
<1> QED
    BY <1>1, <1>2

LEMMA FactorDivides ==
    ASSUME NEW w \in Nat \ {0}, NEW m \in Int
    PROVE  (w * m) % w = 0
OBVIOUS

LEMMA OffsetIsMultiple ==
    ASSUME NEW w \in Nat \ {0}, NEW n \in Nat \ {0}, n % w = 0, NEW a \in Int, a % w = 0
    PROVE  (a % n) % w = 0
<1> DEFINE k == n \div w
           m == a \div w
           q == a \div n
           r == a % n
<1>1. n = w * k /\ k \in Int /\ a = w * m /\ m \in Int
    BY DivMod
<1>2. a = n * q + r /\ q \in Int /\ r \in Int
    BY DivMod
<1> HIDE DEF k, m, q, r
<1>3. w * m = (w * k) * q + r
    BY <1>1, <1>2
<1>4. r = w * (m - k * q) /\ m - k * q \in Int
    BY <1>1, <1>2, <1>3, RestIsMultiple
<1>5. r % w = 0
    BY <1>4, FactorDivides
<1> QED
    BY <1>5 DEF r

\* An aligned block of w bytes lies in one page.
LEMMA BlockInPage ==
    ASSUME NEW w \in Nat \ {0}, NEW n \in Nat \ {0}, n % w = 0, NEW a \in Int, a % w = 0,
           NEW i \in 0 .. w - 1
    PROVE  (a + i) \div n = a \div n /\ (a + i) % n = (a % n) + i
<1> DEFINE q == a \div n
           r == a % n
<1>1. a = n * q + r /\ q \in Int /\ r \in Int /\ 0 <= r /\ r < n
    BY DivMod
<1>2. r % w = 0
    BY OffsetIsMultiple
<1> HIDE DEF q, r
<1>3. r + w <= n
    <2>1. r \in Int /\ n \in Int /\ r < n /\ n % w = 0
        BY <1>1
    <2> QED
        BY ONLY w \in Nat \ {0}, <1>2, <2>1, MultipleBelow
<1>4. a + i = n * q + (r + i) /\ r + i \in 0 .. n - 1
    BY <1>1, <1>3
<1>5. (n * q + (r + i)) \div n = q /\ (n * q + (r + i)) % n = r + i
    BY <1>1, <1>4, DivModIs
<1> QED
    BY <1>4, <1>5 DEF q, r

-----------------------------------------------------------------------------
(* Addresses.                                                              *)

LEMMA Sizes ==
    /\ PageSize \in Nat \ {0} /\ PageSize >= 8 /\ \A w \in Width : PageSize % w = 0
    /\ TlbSize \in Nat \ {0}
    /\ Cardinality(VPage) \in Nat \ {0} /\ VPage = 0 .. Cardinality(VPage) - 1
    /\ Space = PageSize * Cardinality(VPage) /\ Space \in Nat \ {0} /\ Space >= PageSize
<1>1. PageSize \in Nat \ {0} /\ \A w \in Width : PageSize % w = 0
    BY MemAccessAssumption
<1>2. PageSize >= 8
    <2>1. PageSize % 8 = 0 /\ 0 % 8 = 0 /\ 0 < PageSize /\ 8 \in Nat \ {0}
        BY <1>1 DEF Width
    <2>2. 0 + 8 <= PageSize
        BY <1>1, <2>1, MultipleBelow
    <2> QED
        BY <1>1, <2>2
<1>3. Cardinality(VPage) \in Nat \ {0} /\ VPage = 0 .. Cardinality(VPage) - 1
    <2> DEFINE n == Cardinality(VPage)
    <2>1. n \in Nat
        BY MemAccessAssumption, FS_CardinalityType
    <2>2. VPage = 0 .. n - 1 /\ VPage # {}
        BY MemAccessAssumption
    <2> HIDE DEF n
    <2>3. n # 0
        BY <2>1, <2>2
    <2> QED
        BY <2>1, <2>2, <2>3 DEF n
<1>4. Space = PageSize * Cardinality(VPage) /\ Space \in Nat \ {0} /\ Space >= PageSize
    <2>1. ASSUME NEW n \in Nat \ {0}, NEW m \in Nat \ {0}
          PROVE  n * m \in Nat \ {0} /\ n * m >= n
        BY <2>1
    <2> QED
        BY <1>1, <1>3, <2>1 DEF Space
<1> QED
    BY <1>1, <1>2, <1>3, <1>4, MemAccessAssumption

LEMMA AddressIs ==
    ASSUME NEW a \in Address
    PROVE  /\ a \in Int /\ 0 <= a /\ a < Space
           /\ PageOf(a) \in VPage /\ a % PageSize \in 0 .. PageSize - 1
           /\ a = PageSize * PageOf(a) + (a % PageSize)
           /\ Index(a) \in 0 .. TlbSize - 1
<1>1. a \in Int /\ 0 <= a /\ a < Space
    BY Sizes DEF Address
<1>2. a = PageSize * (a \div PageSize) + (a % PageSize) /\ a % PageSize \in 0 .. PageSize - 1
        /\ a \div PageSize \in Int
    BY <1>1, Sizes, DivMod
<1>3. 0 <= a \div PageSize /\ a \div PageSize < Cardinality(VPage)
    <2> DEFINE q == a \div PageSize
               n == Cardinality(VPage)
    <2>1. q \in Int /\ n \in Int /\ PageSize * q < PageSize * n
        BY <1>1, <1>2, Sizes
    <2>2. PageSize * (0 - 1) < PageSize * q
        BY <1>1, <1>2, Sizes
    <2> HIDE DEF q, n
    <2>3. q < n /\ 0 - 1 < q
        BY <2>1, <2>2, Sizes, LessFactor
    <2> QED
        BY <2>1, <2>3 DEF q, n
<1>4. PageOf(a) \in VPage
    BY <1>2, <1>3, Sizes DEF PageOf
<1>5. PageOf(a) % TlbSize \in 0 .. TlbSize - 1
    <2>1. PageOf(a) \in Int
        BY <1>2 DEF PageOf
    <2> QED
        BY <2>1, Sizes, DivMod
<1> QED
    BY <1>1, <1>2, <1>4, <1>5 DEF PageOf, Index

\* Around the end of the address space.
LEMMA WrapIs ==
    ASSUME NEW a \in Address, NEW i \in 0 .. 8
    PROVE  /\ Wrap(a + i) \in Address
           /\ a + i < Space => Wrap(a + i) = a + i
           /\ a + i >= Space => Wrap(a + i) = a + i - Space
<1>1. a \in 0 .. Space - 1 /\ Space \in Nat \ {0} /\ Space >= 8
    BY Sizes DEF Address
<1>2. /\ a + i < Space => (a + i) % Space = a + i /\ a + i \in 0 .. Space - 1
      /\ a + i >= Space => (a + i) % Space = a + i - Space /\ a + i - Space \in 0 .. Space - 1
      /\ a + i < Space \/ a + i >= Space
    BY <1>1, ModNext
<1> QED
    BY <1>2 DEF Wrap, Address

\* An aligned access stays in one page and is not wrapped.
LEMMA AlignedIs ==
    ASSUME NEW w \in Width, NEW a \in Address, a % w = 0, NEW i \in 0 .. w - 1
    PROVE  /\ a + w <= Space
           /\ a + i \in Address /\ Wrap(a + i) = a + i
           /\ PageOf(a + i) = PageOf(a)
           /\ \A f \in Int : Physical(f, a + i) = Physical(f, a) + i
<1>1. w \in Nat \ {0} /\ w \in 1 .. 8 /\ PageSize \in Nat \ {0} /\ PageSize % w = 0
    BY Sizes DEF Width
<1>2. a \in Int /\ 0 <= a /\ a < Space /\ a % PageSize \in Int
    BY AddressIs
<1>3. a + w <= Space
    <2>1. Space % w = 0 /\ Space \in Int
        <3>1. Cardinality(VPage) \in Int /\ Space = PageSize * Cardinality(VPage)
            BY Sizes
        <3> QED
            BY <1>1, <3>1, MultipleOfMultiple
    <2> QED
        BY <1>1, <1>2, <2>1, MultipleBelow
<1>4. i \in 0 .. 8 /\ a + i < Space
    <2>1. Space \in Int /\ w \in Int
        BY <1>1, Sizes
    <2> QED
        BY <1>1, <1>2, <1>3, <2>1
<1>5. (a + i) \div PageSize = a \div PageSize /\ (a + i) % PageSize = (a % PageSize) + i
    BY <1>1, <1>2, BlockInPage
<1>6. \A f \in Int : Physical(f, a + i) = Physical(f, a) + i
    <2> TAKE f \in Int
    <2>1. f * PageSize \in Int
        BY <1>1
    <2> QED
        BY <1>2, <1>5, <2>1 DEF Physical
<1> QED
    BY <1>3, <1>4, <1>5, <1>6, WrapIs DEF PageOf

\* A misaligned one overlaps two aligned blocks, the second around the end perhaps.
LEMMA Split ==
    ASSUME NEW w \in Width, NEW a \in Address, a % w # 0,
           NEW al, al = a % w, NEW hi, hi = Wrap(a - al + w)
    PROVE  /\ al \in 1 .. w - 1
           /\ a - al \in Address /\ (a - al) % w = 0
           /\ hi \in Address /\ hi % w = 0
           /\ \A i \in 0 .. w - 1 :
                /\ i < w - al => Wrap(a + i) = a - al + (al + i) /\ al + i \in 0 .. w - 1
                /\ i >= w - al => Wrap(a + i) = hi + (al + i - w) /\ al + i - w \in 0 .. w - 1
<1>1. w \in Nat \ {0} /\ w \in 1 .. 8 /\ Space \in Nat \ {0}
    BY Sizes DEF Width
<1>2. a \in Int /\ 0 <= a /\ a < Space
    BY AddressIs
<1>3a. a = w * (a \div w) + al /\ al \in 0 .. w - 1 /\ a \div w \in Int
    BY <1>1, <1>2, DivMod
<1>3b. w * (a \div w) \in Int
    BY <1>1, <1>3a
<1>3c. a - al = w * (a \div w)
    BY <1>1, <1>2, <1>3a, <1>3b
<1>3. al \in 1 .. w - 1
    BY <1>1, <1>3a
<1> DEFINE lo == a - al
<1>4. lo \in Int /\ lo <= a /\ lo % w = 0
    BY <1>1, <1>2, <1>3, <1>3a, <1>3c, FactorDivides
<1>5. 0 <= lo
    <2>1. 0 <= a \div w
        BY <1>1, <1>2, <1>3a
    <2> QED
        BY <1>1, <1>3a, <1>3c, <2>1
<1>6. lo \in Address
    BY <1>1, <1>2, <1>4, <1>5 DEF Address
<1> HIDE DEF lo
<1>7. lo + w <= Space
    <2>1. 0 \in 0 .. w - 1
        BY <1>1
    <2> QED
        BY <1>4, <1>6, <2>1, AlignedIs
<1>8. (lo + w < Space => hi = lo + w) /\ (lo + w >= Space => hi = 0) /\ hi \in Address
    <2>1. w \in 0 .. 8 /\ hi = Wrap(lo + w)
        BY <1>1 DEF lo
    <2>2. hi \in Address /\ (lo + w < Space => hi = lo + w)
            /\ (lo + w >= Space => hi = lo + w - Space)
        BY <1>6, <2>1, WrapIs
    <2> QED
        BY <1>1, <1>4, <1>7, <2>2
<1>9. hi % w = 0
    <2>1. (lo + w) % w = 0 /\ 0 % w = 0
        <3>1. lo + w = w * ((a \div w) + 1)
            BY <1>1, <1>3a, <1>3c DEF lo
        <3>2. 0 = w * 0
            BY <1>1
        <3>3. (a \div w) + 1 \in Int /\ 0 \in Int
            BY <1>3a
        <3>4. (w * ((a \div w) + 1)) % w = 0
            BY ONLY <1>1, <3>3, FactorDivides
        <3>5. (w * 0) % w = 0
            BY ONLY <1>1, <3>3, FactorDivides
        <3> QED
            BY <3>1, <3>2, <3>4, <3>5
    <2> QED
        BY <1>1, <1>4, <1>7, <1>8, <2>1
<1>10. ASSUME NEW i \in 0 .. w - 1
       PROVE  /\ i < w - al => Wrap(a + i) = lo + (al + i) /\ al + i \in 0 .. w - 1
              /\ i >= w - al => Wrap(a + i) = hi + (al + i - w) /\ al + i - w \in 0 .. w - 1
    <2>1. i \in 0 .. 8 /\ a = lo + al
        BY <1>1, <1>2, <1>3 DEF lo
    <2>2. /\ a + i < Space => Wrap(a + i) = a + i
          /\ a + i >= Space => Wrap(a + i) = a + i - Space
        BY <2>1, WrapIs
    <2>3. CASE i < w - al
        <3>1. a + i < Space /\ al + i \in 0 .. w - 1 /\ a + i = lo + (al + i)
            BY <1>1, <1>2, <1>3, <1>4, <1>7, <2>1, <2>3
        <3> QED
            BY <1>1, <1>3, <2>2, <2>3, <3>1
    <2>4. CASE i >= w - al
        <3>1. al + i - w \in 0 .. w - 1 /\ a + i = (lo + w) + (al + i - w)
            BY <1>1, <1>2, <1>3, <1>4, <2>1, <2>4
        <3>2. CASE lo + w < Space
            <4>1. hi + w <= Space /\ hi = lo + w
                BY <1>8, <1>9, <3>1, <3>2, AlignedIs
            <4>2. a + i < Space
                BY <1>1, <1>2, <1>3, <1>4, <3>1, <4>1
            <4> QED
                BY <1>1, <1>3, <2>2, <2>4, <3>1, <4>1, <4>2
        <3>3. CASE lo + w >= Space
            <4>1. hi = 0 /\ lo + w = Space
                BY <1>1, <1>4, <1>7, <1>8, <3>3
            <4>2. a + i >= Space /\ a + i - Space = 0 + (al + i - w)
                BY <1>1, <1>2, <1>3, <1>4, <3>1, <4>1
            <4> QED
                BY <1>1, <1>3, <2>2, <2>4, <3>1, <4>1, <4>2
        <3> QED
            BY <1>1, <1>4, <3>2, <3>3
    <2> QED
        BY <1>1, <1>3, <2>3, <2>4
<1> QED
    BY <1>3, <1>4, <1>6, <1>8, <1>9, <1>10 DEF lo

-----------------------------------------------------------------------------
(* The TLBs.                                                               *)

Readable == {v \in VPage : map[v].r}
Writable == {v \in VPage : map[v].w}

\* An entry is the translation, to RAM, of one of these pages.
Translated(v) == [vaddr |-> v * PageSize, frame |-> map[v].frame]
Current(tlb, pages) ==
    /\ tlb \in [0 .. TlbSize - 1 -> [vaddr : Int, frame : Int]]
    /\ \A i \in 0 .. TlbSize - 1 :
          \/ tlb[i] = NoEntry
          \/ \E v \in pages : v % TlbSize = i /\ map[v].frame \in RamFrame
                                /\ tlb[i] = Translated(v)

LEMMA MapIs ==
    ASSUME map \in [VPage -> Map], NEW v \in VPage
    PROVE  map[v].frame \in Int /\ map[v].r \in BOOLEAN /\ map[v].w \in BOOLEAN /\ v \in Int
BY Sizes DEF Map

LEMMA SameQuotient ==
    ASSUME NEW n \in Nat \ {0}, NEW p \in Int, NEW q \in Int, NEW r \in 0 .. n - 1,
           p * n = (q * n) + r
    PROVE  p = q /\ r = 0
<1>1. (n * q + r) \div n = q /\ (n * q + r) % n = r
    BY DivModIs
<1>2. (n * p + 0) \div n = p /\ (n * p + 0) % n = 0
    OBVIOUS
<1> QED
    BY <1>1, <1>2

\* One compare tests the page and the alignment, and what it lets through is
\* the translation of the address.
LEMMA HitIsTranslation ==
    ASSUME map \in [VPage -> Map], NEW pages \in SUBSET VPage,
           NEW tlb, Current(tlb, pages), NEW a \in Address, NEW size \in Width,
           tlb[Index(a)].vaddr = Tag(a, size)
    PROVE  /\ a % size = 0 /\ PageOf(a) \in pages /\ map[PageOf(a)].frame \in RamFrame
           /\ tlb[Index(a)].frame = map[PageOf(a)].frame
<1>1. size \in Nat \ {0} /\ size \in 1 .. 8 /\ PageSize \in Nat \ {0} /\ PageSize >= 8
    BY Sizes DEF Width
<1>2. a \in Int /\ Index(a) \in 0 .. TlbSize - 1 /\ PageOf(a) \in VPage /\ PageOf(a) \in Int
    BY AddressIs, Sizes
<1> DEFINE r == a % size
<1>3. r \in 0 .. PageSize - 1 /\ Tag(a, size) = (PageOf(a) * PageSize) + r
    <2>1. r \in 0 .. size - 1
        BY <1>1, <1>2, DivMod
    <2> QED
        BY <1>1, <2>1 DEF Tag
<1> HIDE DEF r
<1>4. PageOf(a) * PageSize \in Int /\ 0 <= PageOf(a) * PageSize
    <2>1. PageOf(a) >= 0
        BY <1>2, Sizes
    <2> QED
        BY <1>1, <1>2, <2>1
<1>5. tlb[Index(a)] # NoEntry
    BY <1>3, <1>4 DEF NoEntry
<1>6. PICK v \in pages : map[v].frame \in RamFrame /\ tlb[Index(a)] = Translated(v)
    BY <1>2, <1>5 DEF Current
<1>7. v \in Int /\ v * PageSize = (PageOf(a) * PageSize) + r
    BY <1>3, <1>6, Sizes DEF Translated
<1>8. v = PageOf(a) /\ r = 0
    BY <1>1, <1>2, <1>3, <1>7, SameQuotient
<1> QED
    BY <1>6, <1>8 DEF Translated, r

LEMMA FillCurrent ==
    ASSUME map \in [VPage -> Map], NEW pages \in SUBSET VPage,
           NEW tlb, Current(tlb, pages), NEW a \in Address, PageOf(a) \in pages
    PROVE  Current(FillTlb(tlb, a), pages)
<1>1. CASE map[PageOf(a)].frame \in RamFrame
    <2>1. Index(a) \in 0 .. TlbSize - 1 /\ PageOf(a) \in VPage /\ PageOf(a) \in Int
            /\ PageSize \in Int
        BY AddressIs, Sizes
    <2>2. PageOf(a) * PageSize \in Int /\ map[PageOf(a)].frame \in Int
        BY <2>1, MapIs
    <2>3. EntryFor(a) = Translated(PageOf(a)) /\ EntryFor(a) \in [vaddr : Int, frame : Int]
        BY <2>2 DEF EntryFor, Translated
    <2>4. FillTlb(tlb, a) = [tlb EXCEPT ![Index(a)] = EntryFor(a)]
        BY <1>1 DEF FillTlb
    <2>5. PageOf(a) % TlbSize = Index(a)
        BY DEF Index
    <2> QED
        BY <1>1, <2>1, <2>3, <2>4, <2>5 DEF Current
<1>2. CASE map[PageOf(a)].frame \notin RamFrame
    BY <1>2 DEF FillTlb
<1> QED
    BY <1>1, <1>2

-----------------------------------------------------------------------------
(* Loads.                                                                  *)

\* What a load of one block yields.
LoadedBlock(result, a, size) ==
    /\ result.ok \in BOOLEAN
    /\ result.ok <=> map[PageOf(a)].r
    /\ ~result.ok => result.tval = a
    /\ result.ok /\ ToRam(a) => result.bytes = RamBytes(ram, Byte(a), size)
    /\ Current(result.tlb, Readable)
    /\ result.regs \subseteq Registers(a, size)

LEMMA LoadAlignedIs ==
    ASSUME map \in [VPage -> Map], NEW tlb, Current(tlb, Readable),
           NEW a \in Address, NEW size \in Width
    PROVE  LoadedBlock(LoadAligned(tlb, a, size), a, size)
<1>1. PageOf(a) \in VPage /\ map[PageOf(a)].r \in BOOLEAN
    BY AddressIs, MapIs
<1> DEFINE result == LoadAligned(tlb, a, size)
<1>2. CASE tlb[Index(a)].vaddr = Tag(a, size)
    <2>1. PageOf(a) \in Readable /\ tlb[Index(a)].frame = map[PageOf(a)].frame
        BY <1>2, HitIsTranslation DEF Readable
    <2>2. result = [ok |-> TRUE, bytes |-> RamBytes(ram, Byte(a), size),
                    tval |-> 0, regs |-> {}, tlb |-> tlb]
        BY <1>2, <2>1 DEF LoadAligned, Byte
    <2> QED
        BY <2>1, <2>2 DEF LoadedBlock, Readable
<1>3. CASE tlb[Index(a)].vaddr # Tag(a, size) /\ ~map[PageOf(a)].r
    BY <1>3 DEF LoadAligned, LoadedBlock
<1>4. CASE tlb[Index(a)].vaddr # Tag(a, size) /\ map[PageOf(a)].r
    <2>1. Current(FillTlb(tlb, a), Readable)
        BY <1>1, <1>4, FillCurrent DEF Readable
    <2>2. /\ result.ok = TRUE /\ result.tlb = FillTlb(tlb, a)
          /\ ToRam(a) => result.bytes = RamBytes(ram, Byte(a), size)
          /\ result.regs \subseteq Registers(a, size)
        BY <1>4 DEF LoadAligned, ToRam, Byte
    <2> QED
        BY <1>4, <2>1, <2>2 DEF LoadedBlock
<1> QED
    BY <1>1, <1>2, <1>3, <1>4

\* Blocks of up to eight bytes.
LoadedBoth(result, a, b, size) ==
    /\ result.ok \in BOOLEAN
    /\ result.ok <=> map[PageOf(a)].r /\ map[PageOf(b)].r
    /\ ~result.ok => \/ result.tval = a /\ ~map[PageOf(a)].r
                     \/ result.tval = b /\ ~map[PageOf(b)].r
    /\ result.ok /\ ToRam(a) /\ ToRam(b)
        => result.bytes = RamBytes(ram, Byte(a), size) \o RamBytes(ram, Byte(b), size)
    /\ Current(result.tlb, Readable)
    /\ result.regs \subseteq Registers(a, size) \cup Registers(b, size)

LEMMA LoadAlignedFields ==
    ASSUME NEW tlb, NEW a, NEW size
    PROVE  LoadAligned(tlb, a, size) =
             [ok |-> LoadAligned(tlb, a, size).ok, bytes |-> LoadAligned(tlb, a, size).bytes,
              tval |-> LoadAligned(tlb, a, size).tval, regs |-> LoadAligned(tlb, a, size).regs,
              tlb |-> LoadAligned(tlb, a, size).tlb]
BY DEF LoadAligned

LEMMA LoadBothFields ==
    ASSUME NEW tlb, NEW a, NEW b, NEW size
    PROVE  LoadBoth(tlb, a, b, size) =
             [ok |-> LoadBoth(tlb, a, b, size).ok, bytes |-> LoadBoth(tlb, a, b, size).bytes,
              tval |-> LoadBoth(tlb, a, b, size).tval, regs |-> LoadBoth(tlb, a, b, size).regs,
              tlb |-> LoadBoth(tlb, a, b, size).tlb]
<1> DEFINE lo == LoadAligned(tlb, a, size)
           hi == LoadAligned(lo.tlb, b, size)
           both == LoadBoth(tlb, a, b, size)
<1>1. lo = [ok |-> lo.ok, bytes |-> lo.bytes, tval |-> lo.tval, regs |-> lo.regs, tlb |-> lo.tlb]
    BY LoadAlignedFields
<1>2. hi = [ok |-> hi.ok, bytes |-> hi.bytes, tval |-> hi.tval, regs |-> hi.regs, tlb |-> hi.tlb]
    BY LoadAlignedFields
<1>3. both = IF ~lo.ok THEN lo
             ELSE [hi EXCEPT !.bytes = IF hi.ok THEN lo.bytes \o hi.bytes ELSE <<>>,
                             !.regs = @ \cup lo.regs]
    BY DEF LoadBoth
<1> HIDE DEF lo, hi, both
<1>4. both = [ok |-> both.ok, bytes |-> both.bytes, tval |-> both.tval, regs |-> both.regs,
              tlb |-> both.tlb]
    BY <1>1, <1>2, <1>3
<1> QED
    BY <1>4 DEF both

LEMMA LoadBothIs ==
    ASSUME map \in [VPage -> Map], NEW tlb, Current(tlb, Readable),
           NEW a \in Address, NEW b \in Address, NEW size \in Width
    PROVE  LoadedBoth(LoadBoth(tlb, a, b, size), a, b, size)
<1> DEFINE lo == LoadAligned(tlb, a, size)
           hi == LoadAligned(lo.tlb, b, size)
           both == LoadBoth(tlb, a, b, size)
<1> SUFFICES LoadedBoth(both, a, b, size)
    OBVIOUS
<1>1. LoadedBlock(lo, a, size)
    BY LoadAlignedIs
<1>2. LoadedBlock(hi, b, size)
    <2>1. Current(lo.tlb, Readable)
        BY <1>1 DEF LoadedBlock
    <2> HIDE DEF lo
    <2> QED
        BY <2>1, LoadAlignedIs
<1>3. hi = [ok |-> hi.ok, bytes |-> hi.bytes, tval |-> hi.tval, regs |-> hi.regs,
            tlb |-> hi.tlb]
    BY LoadAlignedFields
<1>4. both = IF ~lo.ok THEN lo
             ELSE [hi EXCEPT !.bytes = IF hi.ok THEN lo.bytes \o hi.bytes ELSE <<>>,
                             !.regs = @ \cup lo.regs]
    BY DEF LoadBoth
<1> HIDE DEF lo, hi, both
<1>5. CASE ~lo.ok
    BY <1>1, <1>4, <1>5 DEF LoadedBlock, LoadedBoth
<1>6. CASE lo.ok
    <2>1. /\ both.ok = hi.ok /\ both.tval = hi.tval /\ both.tlb = hi.tlb
          /\ both.regs = hi.regs \cup lo.regs
          /\ hi.ok => both.bytes = lo.bytes \o hi.bytes
        BY <1>3, <1>4, <1>6
    <2> QED
        BY <1>1, <1>2, <1>6, <2>1 DEF LoadedBlock, LoadedBoth
<1> QED
    BY <1>5, <1>6

\* The addresses of an aligned block.
LEMMA BlockIs ==
    ASSUME map \in [VPage -> Map], ram \in [Ram -> Int],
           NEW w \in Width, NEW a \in Address, a % w = 0, NEW i \in 0 .. w - 1
    PROVE  /\ a + i \in Address /\ Wrap(a + i) = a + i
           /\ PageOf(a + i) = PageOf(a) /\ (ToRam(a + i) <=> ToRam(a))
           /\ Byte(a + i) = Byte(a) + i
           /\ ToRam(a) => Byte(a) + i \in Ram
           /\ (a + i) \div w = a \div w
<1>1. PageOf(a) \in VPage /\ a \in Int /\ PageSize \in Nat \ {0}
    BY AddressIs, Sizes
<1>2. map[PageOf(a)].frame \in Int
    BY <1>1, MapIs
<1>3. /\ a + i \in Address /\ Wrap(a + i) = a + i /\ PageOf(a + i) = PageOf(a)
      /\ Byte(a + i) = Byte(a) + i
    BY <1>2, AlignedIs DEF Byte
<1>4. ToRam(a) => Byte(a) + i \in Ram
    <2>1. (a + i) % PageSize \in 0 .. PageSize - 1
        BY <1>3, AddressIs
    <2>2. Byte(a + i) = (map[PageOf(a)].frame * PageSize) + ((a + i) % PageSize)
        BY <1>3 DEF Byte, Physical
    <2> QED
        BY <1>3, <2>1, <2>2 DEF Ram, ToRam
<1>5. (a + i) \div w = a \div w
    <2>1. w \in Nat \ {0} /\ w % w = 0
        BY DEF Width
    <2> QED
        BY <1>1, <2>1, BlockInPage
<1> QED
    BY <1>3, <1>4, <1>5 DEF ToRam

LEMMA RegistersIn ==
    ASSUME map \in [VPage -> Map], ram \in [Ram -> Int],
           NEW w \in Width, NEW a \in Address, a % w = 0, NEW r \in Registers(a, w)
    PROVE  r \in Address /\ r \div w = a \div w
<1>1. a \in Int
    BY AddressIs
<1>2. r = a + 0 \/ (r = a + 4 /\ w = 8)
    BY <1>1 DEF Registers, Size32, Width
<1>3. 0 \in 0 .. w - 1 /\ (w = 8 => 4 \in 0 .. w - 1)
    BY DEF Width
<1> QED
    BY <1>2, <1>3, BlockIs

\* Two blocks shifted and joined.
LEMMA ShiftIs ==
    ASSUME NEW n \in Nat, NEW s \in Seq(Int), NEW t \in Seq(Int), Len(s) = n, Len(t) = n,
           NEW al \in 1 .. n - 1
    PROVE  SubSeq(s \o t, al + 1, al + n)
             = [i \in 1 .. n |-> IF i <= n - al THEN s[al + i] ELSE t[al + i - n]]
<1> DEFINE u == s \o t
<1>1. u \in Seq(Int) /\ Len(u) = n + n
        /\ \A i \in 1 .. n + n : u[i] = IF i <= n THEN s[i] ELSE t[i - n]
    <2>1. Len(s) + Len(t) = n + n /\ n \in Int
        OBVIOUS
    <2>2. u \in Seq(Int) /\ Len(u) = n + n
        BY <2>1, ConcatProperties
    <2>3. \A i \in 1 .. Len(s) + Len(t) : u[i] = IF i <= Len(s) THEN s[i] ELSE t[i - Len(s)]
        BY ConcatProperties
    <2> QED
        BY <2>1, <2>2, <2>3
<1> HIDE DEF u
<1>2. al + 1 \in 1 .. n + n /\ al + n \in 1 .. n + n /\ al + 1 <= al + n
        /\ (al + n) - (al + 1) + 1 = n
    OBVIOUS
<1>3. SubSeq(u, al + 1, al + n) = [i \in 1 .. n |-> u[al + i]]
    BY <1>1, <1>2
<1>4. \A i \in 1 .. n : u[al + i] = IF i <= n - al THEN s[al + i] ELSE t[al + i - n]
    <2> TAKE i \in 1 .. n
    <2>1. al + i \in 1 .. n + n /\ (al + i <= n <=> i <= n - al) /\ (al + i) - n = al + i - n
        OBVIOUS
    <2> QED
        BY <1>1, <2>1
<1> QED
    BY <1>3, <1>4 DEF u

LEMMA RamBytesSeq ==
    ASSUME map \in [VPage -> Map], ram \in [Ram -> Int],
           NEW w \in Width, NEW a \in Address, a % w = 0, ToRam(a)
    PROVE  /\ RamBytes(ram, Byte(a), w) \in Seq(Int)
           /\ Len(RamBytes(ram, Byte(a), w)) = w
           /\ \A i \in 1 .. w : RamBytes(ram, Byte(a), w)[i] = ram[Byte(a + (i - 1))]
<1>1. w \in Nat
    BY DEF Width
<1>2. PageOf(a) \in VPage
    BY AddressIs
<1>3. Byte(a) \in Int
    <2>1. map[PageOf(a)].frame \in Int /\ PageSize \in Nat \ {0} /\ a \in Int
        BY <1>2, MapIs, AddressIs, Sizes
    <2>2. a % PageSize \in Int
        BY <2>1, DivMod
    <2> QED
        BY <2>1, <2>2 DEF Byte, Physical
<1>4. \A i \in 1 .. w : Byte(a) + i - 1 = Byte(a + (i - 1)) /\ Byte(a) + i - 1 \in Ram
    <2> TAKE i \in 1 .. w
    <2>1. i - 1 \in 0 .. w - 1 /\ Byte(a) + i - 1 = Byte(a) + (i - 1)
        BY <1>1, <1>3
    <2> QED
        BY <2>1, BlockIs
<1>5. RamBytes(ram, Byte(a), w) = [i \in 1 .. w |-> ram[Byte(a) + i - 1]]
    BY DEF RamBytes
<1> QED
    BY <1>1, <1>4, <1>5

LEMMA AlignedSpan ==
    ASSUME map \in [VPage -> Map], ram \in [Ram -> Int],
           NEW w \in Width, NEW a \in Address, a % w = 0
    PROVE  /\ a \in Span(a, w)
           /\ \A b \in Span(a, w) : PageOf(b) = PageOf(a) /\ (ToRam(b) <=> ToRam(a))
<1>1. 0 \in 0 .. w - 1 /\ a \in Int
    BY AddressIs DEF Width
<1>2. a + 0 = a
    BY <1>1
<1> QED
    BY <1>1, <1>2, BlockIs DEF Span

LEMMA MisalignedSpan ==
    ASSUME map \in [VPage -> Map], ram \in [Ram -> Int],
           NEW w \in Width, NEW a \in Address, a % w # 0,
           NEW lo, lo = a - (a % w), NEW hi, hi = Wrap(lo + w)
    PROVE  /\ a \in Span(a, w) /\ hi \in Span(a, w)
           /\ PageOf(a) = PageOf(lo) /\ (ToRam(a) <=> ToRam(lo)) /\ a \div w = lo \div w
           /\ \A b \in Span(a, w) : PageOf(b) \in {PageOf(lo), PageOf(hi)}
<1> DEFINE al == a % w
<1>1. w \in 1 .. 8 /\ a \in Int /\ 0 <= a /\ a < Space /\ Space \in Int
    BY AddressIs, Sizes DEF Width
<1>2. /\ al \in 1 .. w - 1
      /\ lo \in Address /\ lo % w = 0 /\ hi \in Address /\ hi % w = 0
      /\ \A i \in 0 .. w - 1 :
            /\ i < w - al => Wrap(a + i) = lo + (al + i) /\ al + i \in 0 .. w - 1
            /\ i >= w - al => Wrap(a + i) = hi + (al + i - w) /\ al + i - w \in 0 .. w - 1
    BY Split
<1> HIDE DEF al
<1>3. a = lo + al /\ lo \in Int /\ hi \in Int
    <2>1. lo \in Int /\ hi \in Int
        BY <1>2, AddressIs
    <2>2. a = lo + (a % w)
        <3>1. a % w \in Int
            BY <1>2 DEF al
        <3> QED
            BY <1>1, <3>1
    <2> QED
        BY <2>1, <2>2 DEF al
<1>4. a \in Span(a, w)
    <2>1. 0 \in 0 .. w - 1 /\ 0 < w - al
        BY <1>1, <1>2
    <2>2. Wrap(a + 0) = lo + (al + 0)
        BY <1>2, <2>1
    <2>3. lo + (al + 0) = a
        BY <1>1, <1>2, <1>3
    <2> QED
        BY <2>1, <2>2, <2>3 DEF Span
<1>5. hi \in Span(a, w)
    <2> DEFINE i == w - al
    <2>1. i \in 0 .. w - 1 /\ i >= w - al /\ al + i - w = 0
        BY <1>1, <1>2
    <2>2. Wrap(a + i) = hi + (al + i - w)
        BY <1>2, <2>1
    <2>3. Wrap(a + i) = hi
        BY <1>3, <2>1, <2>2
    <2> HIDE DEF i
    <2> QED
        BY <2>1, <2>3 DEF Span
<1>6. /\ PageOf(a) = PageOf(lo) /\ (ToRam(a) <=> ToRam(lo)) /\ a \div w = lo \div w
    <2>1. al \in 0 .. w - 1
        BY <1>1, <1>2
    <2> QED
        BY <1>2, <1>3, <2>1, BlockIs
<1>7. ASSUME NEW i \in 0 .. w - 1 PROVE PageOf(Wrap(a + i)) \in {PageOf(lo), PageOf(hi)}
    <2>1. CASE i < w - al
        BY <1>2, <2>1, BlockIs
    <2>2. CASE i >= w - al
        BY <1>2, <2>2, BlockIs
    <2> QED
        BY <1>1, <1>2, <2>1, <2>2
<1> QED
    BY <1>4, <1>5, <1>6, <1>7 DEF Span

Overlapped(a, size) ==
    {r \in Address : \E b \in Span(a, size) : r \div size = b \div size}

Loaded(result, a, size) ==
    /\ result.ok \in BOOLEAN
    /\ result.ok <=> \A b \in Span(a, size) : map[PageOf(b)].r
    /\ ~result.ok
         => \E b \in Span(a, size) : ~map[PageOf(b)].r /\ PageOf(result.tval) = PageOf(b)
    /\ result.ok /\ (\A b \in Span(a, size) : ToRam(b))
         => result.bytes = [i \in 1 .. size |-> ram[Byte(Wrap(a + i - 1))]]
    /\ Current(result.tlb, Readable)
    /\ result.regs \subseteq Overlapped(a, size)

LEMMA LoadInBlock ==
    ASSUME map \in [VPage -> Map], ram \in [Ram -> Int], Current(readTlb, Readable),
           NEW a \in Address, NEW size \in Width, a % size = 0
    PROVE  Loaded(LoadAligned(readTlb, a, size), a, size)
<1> DEFINE result == LoadAligned(readTlb, a, size)
<1> SUFFICES Loaded(result, a, size)
    OBVIOUS
<1>1. LoadedBlock(result, a, size)
    BY LoadAlignedIs
<1> HIDE DEF result
<1>2. /\ a \in Span(a, size)
      /\ \A b \in Span(a, size) : PageOf(b) = PageOf(a) /\ (ToRam(b) <=> ToRam(a))
    BY AlignedSpan
<1>3. result.ok /\ (\A b \in Span(a, size) : ToRam(b))
        => result.bytes = [i \in 1 .. size |-> ram[Byte(Wrap(a + i - 1))]]
    <2> SUFFICES ASSUME result.ok, ToRam(a)
                 PROVE  result.bytes = [i \in 1 .. size |-> ram[Byte(Wrap(a + i - 1))]]
        BY <1>2
    <2>1. result.bytes = RamBytes(ram, Byte(a), size)
        BY <1>1 DEF LoadedBlock
    <2>2. ASSUME NEW i \in 1 .. size PROVE Byte(a) + i - 1 = Byte(Wrap(a + i - 1))
        <3>1. i - 1 \in 0 .. size - 1 /\ a \in Int /\ i \in Int
            BY AddressIs DEF Width
        <3>2. a + i - 1 = a + (i - 1)
            BY <3>1
        <3>3. Wrap(a + (i - 1)) = a + (i - 1) /\ Byte(a + (i - 1)) = Byte(a) + (i - 1)
            BY <3>1, BlockIs
        <3>4. Byte(a) \in Int
            <4>1. PageOf(a) \in VPage /\ PageSize \in Nat \ {0} /\ a % PageSize \in Int
                BY AddressIs, Sizes
            <4> QED
                BY <4>1, MapIs DEF Byte, Physical
        <3>5. Byte(a) + i - 1 = Byte(a) + (i - 1)
            BY <3>1, <3>4
        <3> QED
            BY <3>2, <3>3, <3>5
    <2> QED
        BY <2>1, <2>2 DEF RamBytes
<1>4. Registers(a, size) \subseteq Overlapped(a, size)
    BY <1>2, RegistersIn DEF Overlapped
<1> QED
    BY <1>1, <1>2, <1>3, <1>4 DEF LoadedBlock, Loaded

LEMMA OneByte ==
    ASSUME map \in [VPage -> Map], ram \in [Ram -> Int], NEW a \in Address, ToRam(a)
    PROVE  /\ RamBytes(ram, Byte(a), 1) \in Seq(Int) /\ Len(RamBytes(ram, Byte(a), 1)) = 1
           /\ RamBytes(ram, Byte(a), 1)[1] = ram[Byte(a)]
<1>1. 1 \in Width /\ a \in Int /\ a % 1 = 0 /\ a + (1 - 1) = a /\ 1 \in 1 .. 1
    <2>1. a \in Int
        BY AddressIs
    <2> QED
        BY <2>1 DEF Width
<1> DEFINE s == RamBytes(ram, Byte(a), 1)
<1>2. s \in Seq(Int) /\ Len(s) = 1
    BY <1>1, RamBytesSeq
<1>3. \A i \in 1 .. 1 : s[i] = ram[Byte(a + (i - 1))]
    BY <1>1, RamBytesSeq
<1> HIDE DEF s
<1>4. s[1] = ram[Byte(a)]
    BY <1>1, <1>3
<1> QED
    BY <1>2, <1>4 DEF s

LEMMA TwoOfOne ==
    ASSUME NEW s \in Seq(Int), NEW t \in Seq(Int), Len(s) = 1, Len(t) = 1
    PROVE  s \o t = [i \in 1 .. 2 |-> IF i = 1 THEN s[1] ELSE t[1]]
<1> DEFINE u == s \o t
<1>1. u \in Seq(Int) /\ Len(u) = 2
    <2>1. u \in Seq(Int) /\ Len(u) = Len(s) + Len(t)
        BY ConcatProperties
    <2> QED
        BY <2>1
<1>2. \A i \in 1 .. Len(s) + Len(t) : u[i] = IF i <= Len(s) THEN s[i] ELSE t[i - Len(s)]
    BY ConcatProperties
<1> HIDE DEF u
<1>3. u[1] = s[1] /\ u[2] = t[1]
    BY <1>2
<1>4. \A i \in 1 .. 2 : i = 1 \/ i = 2
    OBVIOUS
<1>5. \A i \in 1 .. 2 : u[i] = IF i = 1 THEN s[1] ELSE t[1]
    BY <1>3, <1>4
<1>6. u = [i \in 1 .. 2 |-> u[i]]
    BY <1>1
<1> QED
    BY <1>5, <1>6 DEF u

\* Two bytes, one by one.
LEMMA LoadOfTwo ==
    ASSUME map \in [VPage -> Map], ram \in [Ram -> Int], Current(readTlb, Readable),
           NEW a \in Address
    PROVE  Loaded(LoadBoth(readTlb, a, Wrap(a + 1), 1), a, 2)
<1> DEFINE b == Wrap(a + 1)
           result == LoadBoth(readTlb, a, b, 1)
<1> SUFFICES Loaded(result, a, 2)
    OBVIOUS
<1>1. b \in Address /\ a \in Int /\ Wrap(a + 0) = a /\ 1 \in Width
    <2>1. a + 0 = a /\ a < Space
        BY AddressIs
    <2>2. Wrap(a + 0) = a + 0
        BY <2>1, WrapIs
    <2> QED
        BY <2>1, <2>2, WrapIs, AddressIs DEF Width
<1>2. Span(a, 2) = {a, b}
    <2>1. 0 .. 2 - 1 = {0, 1}
        OBVIOUS
    <2> QED
        BY <1>1, <2>1 DEF Span
<1>3. LoadedBoth(result, a, b, 1)
    BY <1>1, LoadBothIs
<1> HIDE DEF result
<1>4. result.ok /\ ToRam(a) /\ ToRam(b)
        => result.bytes = [i \in 1 .. 2 |-> ram[Byte(Wrap(a + i - 1))]]
    <2> SUFFICES ASSUME result.ok, ToRam(a), ToRam(b)
                 PROVE  result.bytes = [i \in 1 .. 2 |-> ram[Byte(Wrap(a + i - 1))]]
        OBVIOUS
    <2> DEFINE s == RamBytes(ram, Byte(a), 1)
               t == RamBytes(ram, Byte(b), 1)
    <2>1. result.bytes = s \o t
        BY <1>3 DEF LoadedBoth
    <2>2. /\ s \in Seq(Int) /\ Len(s) = 1 /\ s[1] = ram[Byte(a)]
          /\ t \in Seq(Int) /\ Len(t) = 1 /\ t[1] = ram[Byte(b)]
        BY <1>1, OneByte
    <2> HIDE DEF s, t
    <2>6. s \o t = [i \in 1 .. 2 |-> IF i = 1 THEN ram[Byte(a)] ELSE ram[Byte(b)]]
        BY <2>2, TwoOfOne
    <2>7. \A i \in 1 .. 2 : Wrap(a + i - 1) = IF i = 1 THEN a ELSE b
        <3>1. a + 1 - 1 = a + 0 /\ a + 2 - 1 = a + 1
            BY <1>1
        <3> QED
            BY <1>1, <3>1
    <2> HIDE DEF b
    <2>8. [i \in 1 .. 2 |-> IF i = 1 THEN ram[Byte(a)] ELSE ram[Byte(b)]]
            = [i \in 1 .. 2 |-> ram[Byte(Wrap(a + i - 1))]]
        BY <2>7
    <2> QED
        BY <2>1, <2>6, <2>8
<1>5. Registers(a, 1) = {} /\ Registers(b, 1) = {}
    BY DEF Registers, Size32
<1> QED
    BY <1>1, <1>2, <1>3, <1>4, <1>5 DEF LoadedBoth, Loaded

\* Four or eight bytes, as two blocks shifted and joined.
LEMMA LoadOfBlocks ==
    ASSUME map \in [VPage -> Map], ram \in [Ram -> Int], Current(readTlb, Readable),
           NEW a \in Address, NEW size \in Width, a % size # 0,
           NEW al, al = a % size
    PROVE  Loaded(Shift(LoadBoth(readTlb, a - al, Wrap(a - al + size), size), al, size), a, size)
<1> DEFINE lo == a - al
           hi == Wrap(lo + size)
           both == LoadBoth(readTlb, lo, hi, size)
           result == Shift(both, al, size)
<1> SUFFICES Loaded(result, a, size)
    OBVIOUS
<1>1. /\ al \in 1 .. size - 1
      /\ lo \in Address /\ lo % size = 0 /\ hi \in Address /\ hi % size = 0
      /\ \A i \in 0 .. size - 1 :
            /\ i < size - al => Wrap(a + i) = lo + (al + i) /\ al + i \in 0 .. size - 1
            /\ i >= size - al => Wrap(a + i) = hi + (al + i - size) /\ al + i - size \in 0 .. size - 1
    BY Split
<1>2. /\ a \in Span(a, size) /\ hi \in Span(a, size)
      /\ PageOf(a) = PageOf(lo) /\ (ToRam(a) <=> ToRam(lo)) /\ a \div size = lo \div size
      /\ \A b \in Span(a, size) : PageOf(b) \in {PageOf(lo), PageOf(hi)}
    BY MisalignedSpan
<1> HIDE DEF lo, hi, both
<1>3. LoadedBoth(both, lo, hi, size)
    BY <1>1, LoadBothIs DEF both
<1>4. /\ result.ok = both.ok /\ result.tval = both.tval /\ result.tlb = both.tlb
      /\ result.regs = both.regs
      /\ both.ok => result.bytes = SubSeq(both.bytes, al + 1, al + size)
    <2>1. both.ok => result = [both EXCEPT !.bytes = SubSeq(@, al + 1, al + size)]
        BY DEF Shift
    <2>2. ~both.ok => result = both
        BY DEF Shift
    <2>3. both = [ok |-> both.ok, bytes |-> both.bytes, tval |-> both.tval,
                  regs |-> both.regs, tlb |-> both.tlb]
        BY LoadBothFields DEF both
    <2>4. both.ok \in BOOLEAN
        BY <1>3 DEF LoadedBoth
    <2> HIDE DEF result
    <2>5. CASE both.ok
        BY <2>1, <2>3, <2>5
    <2>6. CASE ~both.ok
        BY <2>2, <2>6
    <2> QED
        BY <2>4, <2>5, <2>6
<1> HIDE DEF result
<1>5. result.ok /\ (\A b \in Span(a, size) : ToRam(b))
        => result.bytes = [i \in 1 .. size |-> ram[Byte(Wrap(a + i - 1))]]
    <2> SUFFICES ASSUME result.ok, ToRam(lo), ToRam(hi)
                 PROVE  result.bytes = [i \in 1 .. size |-> ram[Byte(Wrap(a + i - 1))]]
        BY <1>2
    <2> DEFINE s == RamBytes(ram, Byte(lo), size)
               t == RamBytes(ram, Byte(hi), size)
    <2>1. result.bytes = SubSeq(s \o t, al + 1, al + size)
        BY <1>3, <1>4 DEF LoadedBoth
    <2>2. /\ s \in Seq(Int) /\ Len(s) = size
          /\ \A i \in 1 .. size : s[i] = ram[Byte(lo + (i - 1))]
        BY <1>1, RamBytesSeq
    <2>3. /\ t \in Seq(Int) /\ Len(t) = size
          /\ \A i \in 1 .. size : t[i] = ram[Byte(hi + (i - 1))]
        BY <1>1, RamBytesSeq
    <2> HIDE DEF s, t
    <2>4. size \in Nat /\ a \in Int /\ lo \in Int /\ hi \in Int
        BY <1>1, AddressIs DEF Width
    <2>5. result.bytes
            = [i \in 1 .. size |-> IF i <= size - al THEN s[al + i] ELSE t[al + i - size]]
        BY <1>1, <2>1, <2>2, <2>3, <2>4, ShiftIs
    <2>6. ASSUME NEW i \in 1 .. size
          PROVE  (IF i <= size - al THEN s[al + i] ELSE t[al + i - size])
                    = ram[Byte(Wrap(a + i - 1))]
        <3> DEFINE j == i - 1
        <3>1. j \in 0 .. size - 1 /\ a + i - 1 = a + j /\ (i <= size - al <=> j < size - al)
            BY <1>1, <2>4
        <3>2. CASE i <= size - al
            <4>1. Wrap(a + j) = lo + (al + j) /\ al + j \in 0 .. size - 1
                BY <1>1, <3>1, <3>2
            <4>2. al + i \in 1 .. size /\ (al + i) - 1 = al + j
                BY <1>1, <2>4, <3>1, <3>2
            <4>3. s[al + i] = ram[Byte(lo + ((al + i) - 1))]
                BY <2>2, <4>2
            <4> QED
                BY <3>1, <3>2, <4>1, <4>2, <4>3
        <3>3. CASE ~(i <= size - al)
            <4>1. Wrap(a + j) = hi + (al + j - size) /\ al + j - size \in 0 .. size - 1
                BY <1>1, <2>4, <3>1, <3>3
            <4>2. al + i - size \in 1 .. size /\ (al + i - size) - 1 = al + j - size
                BY <1>1, <2>4, <3>1, <3>3
            <4>3. t[al + i - size] = ram[Byte(hi + ((al + i - size) - 1))]
                BY <2>3, <4>2
            <4> QED
                BY <3>1, <3>3, <4>1, <4>2, <4>3
        <3> QED
            BY <3>2, <3>3
    <2> QED
        BY <2>5, <2>6
<1>6. Registers(lo, size) \cup Registers(hi, size) \subseteq Overlapped(a, size)
    BY <1>1, <1>2, RegistersIn DEF Overlapped
<1> QED
    BY <1>2, <1>3, <1>4, <1>5, <1>6 DEF LoadedBoth, Loaded

LEMMA LoadIs ==
    ASSUME map \in [VPage -> Map], ram \in [Ram -> Int], Current(readTlb, Readable),
           NEW a \in Address, NEW size \in Width
    PROVE  Loaded(Load(a, size), a, size)
<1>1. CASE a % size = 0
    <2>1. Load(a, size) = LoadAligned(readTlb, a, size)
        BY <1>1 DEF Load
    <2> QED
        BY <1>1, <2>1, LoadInBlock
<1>2. CASE a % size # 0 /\ size = 2
    <2>1. Load(a, size) = LoadBoth(readTlb, a, Wrap(a + 1), 1)
        BY <1>2 DEF Load
    <2> QED
        BY <1>2, <2>1, LoadOfTwo
<1>3. CASE a % size # 0 /\ size # 2
    <2> DEFINE al == a % size
    <2>1. Load(a, size)
            = Shift(LoadBoth(readTlb, a - al, Wrap(a - al + size), size), al, size)
        BY <1>3 DEF Load
    <2>2. Loaded(Shift(LoadBoth(readTlb, a - al, Wrap(a - al + size), size), al, size), a, size)
        BY <1>3, LoadOfBlocks
    <2> QED
        BY <2>1, <2>2
<1> QED
    BY <1>1, <1>2, <1>3

-----------------------------------------------------------------------------
(* Stores of one block.                                                    *)

IsResult(r) ==
    /\ r = [ok |-> r.ok, tval |-> r.tval, regs |-> r.regs, ram |-> r.ram, tlb |-> r.tlb]
    /\ r.ram \in [Ram -> Int]
    /\ Current(r.tlb, Writable)

\* What a store of one block leaves of what earlier parts left.
StoredBlock(result, was, a, bytes) ==
    /\ IsResult(result)
    /\ result.ok \in BOOLEAN
    /\ result.ok <=> map[PageOf(a)].w
    /\ ~result.ok => result.tval = a /\ result.ram = was.ram
    /\ result.regs \subseteq was.regs \cup Registers(a, Len(bytes))
    /\ result.ok =>
         \A p \in Ram :
            /\ \A i \in 1 .. Len(bytes) :
                  ToRam(a) /\ Byte(a) + (i - 1) = p => result.ram[p] = bytes[i]
            /\ (\A i \in 1 .. Len(bytes) : ~(ToRam(a) /\ Byte(a) + (i - 1) = p))
                  => result.ram[p] = was.ram[p]

LEMMA RamIs == \A p \in Ram : p \in Int
<1>1. ASSUME NEW f \in RamFrame, NEW i \in 0 .. PageSize - 1 PROVE (f * PageSize) + i \in Int
    BY MemAccessAssumption
<1> QED
    BY <1>1 DEF Ram

LEMMA ByteIs ==
    ASSUME map \in [VPage -> Map], NEW a \in Address
    PROVE  Byte(a) \in Int
<1>1. PageOf(a) \in VPage /\ PageSize \in Nat \ {0} /\ a % PageSize \in Int
    BY AddressIs, Sizes
<1> QED
    BY <1>1, MapIs DEF Byte, Physical

Wrote(after, memory, pa, bytes) ==
    /\ after \in [Ram -> Int]
    /\ \A p \in Ram :
          /\ \A i \in 1 .. Len(bytes) : pa + (i - 1) = p => after[p] = bytes[i]
          /\ (\A i \in 1 .. Len(bytes) : pa + (i - 1) # p) => after[p] = memory[p]

LEMMA WriteIs ==
    ASSUME NEW memory \in [Ram -> Int], NEW pa \in Int, NEW bytes \in Seq(Int)
    PROVE  Wrote(Write(memory, pa, bytes), memory, pa, bytes)
<1>1. Len(bytes) \in Nat /\ \A i \in 1 .. Len(bytes) : bytes[i] \in Int
    BY ElementOfSeq
<1>2. ASSUME NEW p \in Ram
      PROVE  /\ p \in Int
             /\ p - pa \in 0 .. Len(bytes) - 1
                  => p - pa + 1 \in 1 .. Len(bytes) /\ pa + ((p - pa + 1) - 1) = p
             /\ \A i \in 1 .. Len(bytes) :
                  pa + (i - 1) = p => p - pa \in 0 .. Len(bytes) - 1 /\ p - pa + 1 = i
    BY <1>1, RamIs
<1>3. Write(memory, pa, bytes)
        = [p \in Ram |-> IF p - pa \in 0 .. Len(bytes) - 1 THEN bytes[p - pa + 1] ELSE memory[p]]
    BY DEF Write
<1>4. Write(memory, pa, bytes) \in [Ram -> Int]
    BY <1>1, <1>2, <1>3
<1>5. ASSUME NEW p \in Ram, NEW i \in 1 .. Len(bytes), pa + (i - 1) = p
      PROVE  Write(memory, pa, bytes)[p] = bytes[i]
    BY <1>2, <1>3, <1>5
<1>6. ASSUME NEW p \in Ram, \A i \in 1 .. Len(bytes) : pa + (i - 1) # p
      PROVE  Write(memory, pa, bytes)[p] = memory[p]
    <2>1. ~(p - pa \in 0 .. Len(bytes) - 1)
        BY <1>2, <1>6
    <2> QED
        BY <1>3, <2>1
<1> QED
    BY <1>4, <1>5, <1>6 DEF Wrote

LEMMA StoreAlignedIs ==
    ASSUME map \in [VPage -> Map], NEW was, IsResult(was), was.ok = TRUE,
           NEW a \in Address, NEW bytes \in Seq(Int), Len(bytes) \in Width
    PROVE  StoredBlock(StoreAligned(was, a, bytes), was, a, bytes)
<1> DEFINE result == StoreAligned(was, a, bytes)
           size == Len(bytes)
<1> SUFFICES StoredBlock(result, was, a, bytes)
    OBVIOUS
<1>1. PageOf(a) \in VPage /\ map[PageOf(a)].w \in BOOLEAN
    BY AddressIs, MapIs
<1>2. /\ was.ram \in [Ram -> Int] /\ Current(was.tlb, Writable)
      /\ was = [ok |-> was.ok, tval |-> was.tval, regs |-> was.regs, ram |-> was.ram,
                tlb |-> was.tlb]
    BY DEF IsResult
<1> DEFINE after == Write(was.ram, Byte(a), bytes)
<1>3. /\ after \in [Ram -> Int]
      /\ \A p \in Ram :
            /\ \A i \in 1 .. Len(bytes) : Byte(a) + (i - 1) = p => after[p] = bytes[i]
            /\ (\A i \in 1 .. Len(bytes) : Byte(a) + (i - 1) # p) => after[p] = was.ram[p]
    <2> DEFINE memory == was.ram
               pa == Byte(a)
    <2>1. memory \in [Ram -> Int] /\ pa \in Int
        BY <1>2, ByteIs
    <2> HIDE DEF memory, pa
    <2>2. Wrote(Write(memory, pa, bytes), memory, pa, bytes)
        BY <2>1, WriteIs
    <2> QED
        BY <2>2 DEF Wrote, memory, pa
<1>4. CASE was.tlb[Index(a)].vaddr = Tag(a, size)
    <2>1. /\ PageOf(a) \in Writable /\ was.tlb[Index(a)].frame = map[PageOf(a)].frame
          /\ map[PageOf(a)].frame \in RamFrame
        BY <1>2, <1>4, HitIsTranslation DEF Writable
    <2>2. result = [was EXCEPT !.ram = after]
        BY <1>4, <2>1 DEF StoreAligned, Byte
    <2> HIDE DEF result, after
    <2>3. /\ result.ok = TRUE /\ result.tval = was.tval /\ result.regs = was.regs
          /\ result.ram = after /\ result.tlb = was.tlb
          /\ result = [ok |-> result.ok, tval |-> result.tval, regs |-> result.regs,
                       ram |-> result.ram, tlb |-> result.tlb]
        BY <1>2, <2>2
    <2>4. ToRam(a) /\ map[PageOf(a)].w
        BY <2>1 DEF ToRam, Writable
    <2> QED
        BY <1>2, <1>3, <2>3, <2>4 DEF StoredBlock, IsResult
<1>5. CASE was.tlb[Index(a)].vaddr # Tag(a, size) /\ ~map[PageOf(a)].w
    <2>1. result = [was EXCEPT !.ok = FALSE, !.tval = a]
        BY <1>5 DEF StoreAligned
    <2> HIDE DEF result, after
    <2>2. /\ result.ok = FALSE /\ result.tval = a /\ result.regs = was.regs
          /\ result.ram = was.ram /\ result.tlb = was.tlb
          /\ result = [ok |-> result.ok, tval |-> result.tval, regs |-> result.regs,
                       ram |-> result.ram, tlb |-> result.tlb]
        BY <1>2, <2>1
    <2> QED
        BY <1>2, <1>5, <2>2 DEF StoredBlock, IsResult
<1>6. CASE was.tlb[Index(a)].vaddr # Tag(a, size) /\ map[PageOf(a)].w
    <2>1. Current(FillTlb(was.tlb, a), Writable)
        BY <1>1, <1>2, <1>6, FillCurrent DEF Writable
    <2>2. CASE ToRam(a)
        <3>1. result = [was EXCEPT !.ram = after, !.tlb = FillTlb(was.tlb, a)]
            BY <1>6, <2>2 DEF StoreAligned, ToRam, Byte
        <3> HIDE DEF result, after
        <3>2. /\ result.ok = TRUE /\ result.tval = was.tval /\ result.regs = was.regs
              /\ result.ram = after /\ result.tlb = FillTlb(was.tlb, a)
              /\ result = [ok |-> result.ok, tval |-> result.tval, regs |-> result.regs,
                           ram |-> result.ram, tlb |-> result.tlb]
            BY <1>2, <3>1
        <3> QED
            BY <1>2, <1>3, <1>6, <2>1, <2>2, <3>2 DEF StoredBlock, IsResult
    <2>3. CASE ~ToRam(a)
        <3>1. \E regs \in {was.regs, was.regs \cup Registers(a, size)} :
                 result = [was EXCEPT !.regs = regs, !.tlb = FillTlb(was.tlb, a)]
            <4>1. CASE map[PageOf(a)].frame \in DevFrame
                BY <1>6, <2>3, <4>1 DEF StoreAligned, ToRam
            <4>2. CASE map[PageOf(a)].frame \notin DevFrame
                <5>1. result = [was EXCEPT !.tlb = FillTlb(was.tlb, a)]
                    BY <1>6, <2>3, <4>2 DEF StoreAligned, ToRam
                <5> HIDE DEF result
                <5>2. result = [was EXCEPT !.regs = was.regs, !.tlb = FillTlb(was.tlb, a)]
                    BY <1>2, <5>1
                <5> QED
                    BY <5>2
            <4> QED
                BY <4>1, <4>2
        <3> HIDE DEF result, after
        <3>2. /\ result.ok = TRUE /\ result.tval = was.tval
              /\ result.regs \subseteq was.regs \cup Registers(a, size)
              /\ result.ram = was.ram /\ result.tlb = FillTlb(was.tlb, a)
              /\ result = [ok |-> result.ok, tval |-> result.tval, regs |-> result.regs,
                           ram |-> result.ram, tlb |-> result.tlb]
            BY <1>2, <3>1
        <3> QED
            BY <1>2, <1>6, <2>1, <2>3, <3>2 DEF StoredBlock, IsResult
    <2> QED
        BY <2>2, <2>3
<1> QED
    BY <1>1, <1>4, <1>5, <1>6

-----------------------------------------------------------------------------
(* Stores: what every part of one leaves.                                  *)

LaneAddr(s, i) == Wrap(s.addr + i - 1)
Lane(s, i, p)  == ToRam(LaneAddr(s, i)) /\ Byte(LaneAddr(s, i)) = p

\* The memory new is old with these of a store's bytes written.
PutBy(new, old, s, lanes) ==
    /\ new \in [Ram -> Int]
    /\ \A p \in Ram :
          /\ \A i \in lanes : Lane(s, i, p) => new[p] = s.bytes[i]
          /\ (\A i \in lanes : ~Lane(s, i, p)) => new[p] = old[p]

\* A store has written its first k bytes.
StoredTo(result, s, k) ==
    /\ IsResult(result)
    /\ PutBy(result.ram, ram, s, 1 .. k)
    /\ \A i \in 1 .. k : map[PageOf(LaneAddr(s, i))].w
    /\ result.regs \subseteq Overlapped(s.addr, Len(s.bytes))

\* It has faulted at the next one.
FaultedAt(result, s, k) ==
    /\ StoredTo(result, s, k)
    /\ result.tval \in Address
    /\ PageOf(result.tval) = PageOf(LaneAddr(s, k + 1))
    /\ ~map[PageOf(LaneAddr(s, k + 1))].w

LEMMA StoreIs ==
    ASSUME NEW s \in Store
    PROVE  /\ s.addr \in Address /\ s.addr \in Int /\ s.bytes \in Seq(Int)
           /\ Len(s.bytes) \in Width /\ Len(s.bytes) \in 1 .. 8
           /\ \A i \in 1 .. Len(s.bytes) : LaneAddr(s, i) \in Address
           /\ s # NoStore
<1>1. s.addr \in Address /\ s.bytes \in Seq(Int) /\ Len(s.bytes) \in Width
    BY MemAccessAssumption
<1>2. s.addr \in Int /\ Len(s.bytes) \in 1 .. 8
    BY <1>1, AddressIs DEF Width
<1>3. ASSUME NEW i \in 1 .. Len(s.bytes) PROVE LaneAddr(s, i) \in Address
    <2>1. i - 1 \in 0 .. 8 /\ s.addr + i - 1 = s.addr + (i - 1)
        <3> DEFINE a == s.addr
                   n == Len(s.bytes)
        <3>1. a \in Int /\ n \in 1 .. 8 /\ i \in 1 .. n
            BY <1>2
        <3> HIDE DEF a, n
        <3>2. i - 1 \in 0 .. 8 /\ a + i - 1 = a + (i - 1)
            BY <3>1
        <3> QED
            BY <3>2 DEF a
    <2> QED
        BY <1>1, <2>1, WrapIs DEF LaneAddr
<1>4. s # NoStore
    <2>1. NoStore.bytes = <<>> /\ Len(<<>>) = 0
        BY DEF NoStore
    <2>2. Len(s.bytes) # 0
        BY <1>2
    <2> QED
        BY <2>1, <2>2
<1> QED
    BY <1>1, <1>2, <1>3, <1>4

LEMMA ModLessMultiple ==
    ASSUME NEW n \in Nat \ {0}, NEW b \in Int, NEW k \in Int
    PROVE  (b - n * k) % n = b % n
<1> DEFINE q == b \div n
           r == b % n
<1>1. b = n * q + r /\ q \in Int /\ r \in 0 .. n - 1
    BY DivMod
<1> HIDE DEF q, r
<1>2. b - n * k = n * (q - k) + r /\ q - k \in Int
    BY <1>1
<1>3. (n * (q - k) + r) % n = r
    BY <1>1, <1>2, DivModIs
<1> QED
    BY <1>2, <1>3 DEF r

\* Wrapping around keeps the offset in the page.
LEMMA WrapOffset ==
    ASSUME NEW a \in Address, NEW i \in 0 .. 8
    PROVE  Wrap(a + i) % PageSize = (a + i) % PageSize
<1>1. a \in Int /\ PageSize \in Nat \ {0} /\ Cardinality(VPage) \in Int
        /\ Space = PageSize * Cardinality(VPage) /\ Space \in Int
    BY AddressIs, Sizes
<1>2. Wrap(a + i) = a + i \/ Wrap(a + i) = (a + i) - Space
    <2>1. (a + i < Space \/ a + i >= Space) /\ a + i - Space = (a + i) - Space
        BY <1>1
    <2> QED
        BY <2>1, WrapIs
<1> DEFINE b == a + i
           k == Cardinality(VPage)
<1>3. b \in Int /\ k \in Int /\ b - Space = b - PageSize * k
    BY <1>1
<1> HIDE DEF b, k
<1>4. (b - PageSize * k) % PageSize = b % PageSize
    BY <1>1, <1>3, ModLessMultiple
<1>5. (b - Space) % PageSize = b % PageSize
    BY <1>3, <1>4
<1>6. Wrap(a + i) = b \/ Wrap(a + i) = b - Space
    BY <1>2 DEF b
<1>7. Wrap(a + i) % PageSize = b % PageSize
    BY <1>5, <1>6
<1> QED
    BY <1>7 DEF b

LEMMA NearOffsets ==
    ASSUME NEW n \in Nat, n >= 8, NEW b \in Int, NEW i \in 0 .. 7, NEW j \in 0 .. 7,
           (b + i) % n = (b + j) % n
    PROVE  i = j
<1> DEFINE q == (b + i) \div n
           p == (b + j) \div n
           r == (b + i) % n
<1>1. b + i = n * q + r /\ q \in Int /\ r \in Int
    BY DivMod
<1>2. b + j = n * p + r /\ p \in Int
    BY DivMod
<1> HIDE DEF q, p, r
<1>3. n * q < n * p + n /\ n * p < n * q + n
    BY <1>1, <1>2
<1>4. q < p + 1 /\ p < q + 1
    <2>1. n * q < n * (p + 1) /\ n * p < n * (q + 1) /\ p + 1 \in Int /\ q + 1 \in Int
        BY <1>1, <1>2, <1>3
    <2>2. n \in Nat \ {0}
        OBVIOUS
    <2> QED
        BY <1>1, <1>2, <2>1, <2>2, LessFactor
<1>5. q = p
    BY <1>1, <1>2, <1>4
<1> QED
    BY <1>1, <1>2, <1>5

\* Two bytes of a store are two bytes of RAM: even where two pages share a frame.
LEMMA LaneUnique ==
    ASSUME map \in [VPage -> Map], NEW s \in Store, NEW p,
           NEW i \in 1 .. Len(s.bytes), NEW j \in 1 .. Len(s.bytes), Lane(s, i, p), Lane(s, j, p)
    PROVE  i = j
<1> DEFINE a == LaneAddr(s, i)
           b == LaneAddr(s, j)
           ai == i - 1
           bj == j - 1
<1>1. a \in Address /\ b \in Address /\ s.addr \in Int /\ s.addr \in Address
        /\ ai \in 0 .. 7 /\ bj \in 0 .. 7 /\ PageSize \in Nat /\ PageSize >= 8
    <2>1. a \in Address /\ b \in Address /\ s.addr \in Int /\ s.addr \in Address
        BY StoreIs
    <2>2. ai \in 0 .. 7 /\ bj \in 0 .. 7
        <3> DEFINE n == Len(s.bytes)
        <3>1. n \in 1 .. 8 /\ i \in 1 .. n /\ j \in 1 .. n
            BY StoreIs
        <3> HIDE DEF n
        <3> QED
            BY <3>1
    <2> QED
        BY <2>1, <2>2, Sizes
<1>2. a % PageSize = (s.addr + ai) % PageSize /\ b % PageSize = (s.addr + bj) % PageSize
    <2>1. a = Wrap(s.addr + ai) /\ b = Wrap(s.addr + bj) /\ ai \in 0 .. 8 /\ bj \in 0 .. 8
        BY <1>1, StoreIs DEF LaneAddr
    <2> QED
        BY <1>1, <2>1, WrapOffset
<1>3. a % PageSize = b % PageSize
    <2> DEFINE f == map[PageOf(a)].frame
               g == map[PageOf(b)].frame
               x == a % PageSize
               y == b % PageSize
    <2>1. f * PageSize + x = g * PageSize + y
        BY DEF Lane, Byte, Physical
    <2>2. f \in Int /\ g \in Int /\ x \in 0 .. PageSize - 1 /\ y \in 0 .. PageSize - 1
        BY <1>1, AddressIs, MapIs
    <2> HIDE DEF f, g, x, y
    <2>3. PageSize \in Nat \ {0} /\ (PageSize * f + x) % PageSize = x
            /\ (PageSize * g + y) % PageSize = y
        BY <1>1, <2>2, DivModIs
    <2>4. x = y
        BY <1>1, <2>1, <2>2, <2>3
    <2> QED
        BY <2>4 DEF x, y
<1> HIDE DEF a, b
<1>4. ai = bj
    BY <1>1, <1>2, <1>3, NearOffsets
<1> QED
    BY <1>1, <1>4, StoreIs

\* One byte more.
LEMMA StoreOneByte ==
    ASSUME map \in [VPage -> Map], NEW s \in Store, NEW k \in 0 .. Len(s.bytes) - 1,
           NEW was, StoredTo(was, s, k), was.ok = TRUE,
           NEW result, result = StoreAligned(was, LaneAddr(s, k + 1), <<s.bytes[k + 1]>>)
    PROVE  /\ result.ok \in BOOLEAN
           /\ result.ok => StoredTo(result, s, k + 1)
           /\ ~result.ok => FaultedAt(result, s, k)
<1> DEFINE n == Len(s.bytes)
           i == k + 1
           b == LaneAddr(s, i)
           bytes == <<s.bytes[i]>>
<1>1. n \in 1 .. 8 /\ s.bytes \in Seq(Int) /\ \A j \in 1 .. n : LaneAddr(s, j) \in Address
    BY StoreIs
<1>2. k \in 0 .. n - 1
    OBVIOUS
<1> HIDE DEF n
<1>3. i \in 1 .. n /\ k \in Nat /\ 1 .. i = (1 .. k) \cup {i} /\ 1 .. k \subseteq 1 .. n
    BY <1>1, <1>2
<1>4. b \in Address /\ s.bytes[i] \in Int
    BY <1>1, <1>3, ElementOfSeq DEF n
<1>5. bytes \in Seq(Int) /\ Len(bytes) = 1 /\ bytes[1] = s.bytes[i] /\ 1 \in Width
    BY <1>4 DEF Width
<1>6. StoredBlock(result, was, b, bytes)
    BY <1>4, <1>5, StoreAlignedIs DEF StoredTo
<1> HIDE DEF bytes, b
<1>7. IsResult(result) /\ result.ok \in BOOLEAN /\ (result.ok <=> map[PageOf(b)].w)
        /\ (~result.ok => result.tval = b /\ result.ram = was.ram)
    BY <1>6 DEF StoredBlock
<1>8. result.regs \subseteq was.regs
    BY <1>5, <1>6 DEF StoredBlock, Registers, Size32
<1>9. ASSUME result.ok, NEW p \in Ram
      PROVE  /\ Lane(s, i, p) => result.ram[p] = s.bytes[i]
             /\ ~Lane(s, i, p) => result.ram[p] = was.ram[p]
    <2>1. Byte(b) \in Int /\ Byte(b) + (1 - 1) = Byte(b)
        BY <1>4, ByteIs
    <2>2. 1 .. Len(bytes) = {1}
        BY <1>5
    <2>3. /\ ToRam(b) /\ Byte(b) + (1 - 1) = p => result.ram[p] = bytes[1]
          /\ ~(ToRam(b) /\ Byte(b) + (1 - 1) = p) => result.ram[p] = was.ram[p]
        BY <1>6, <1>9, <2>2 DEF StoredBlock
    <2> QED
        BY <1>5, <2>1, <2>3 DEF Lane, b
<1>10. ASSUME result.ok PROVE StoredTo(result, s, i)
    <2>1. \A p \in Ram :
             /\ \A j \in 1 .. i : Lane(s, j, p) => result.ram[p] = s.bytes[j]
             /\ (\A j \in 1 .. i : ~Lane(s, j, p)) => result.ram[p] = ram[p]
        <3> TAKE p \in Ram
        <3>1. ASSUME NEW j \in 1 .. i, Lane(s, j, p) PROVE result.ram[p] = s.bytes[j]
            <4>1. CASE j = i
                BY <1>9, <1>10, <3>1, <4>1
            <4>2. CASE j # i
                <5>1. j \in 1 .. k /\ j \in 1 .. n /\ i \in 1 .. n
                    BY <1>3, <4>2
                <5>2. ~Lane(s, i, p)
                    BY <3>1, <4>2, <5>1, LaneUnique DEF n
                <5>3. was.ram[p] = s.bytes[j]
                    BY <3>1, <5>1 DEF StoredTo, PutBy
                <5> QED
                    BY <1>9, <1>10, <5>2, <5>3
            <4> QED
                BY <4>1, <4>2
        <3>2. ASSUME \A j \in 1 .. i : ~Lane(s, j, p) PROVE result.ram[p] = ram[p]
            <4>1. ~Lane(s, i, p) /\ \A j \in 1 .. k : ~Lane(s, j, p)
                BY <1>3, <3>2
            <4>2. was.ram[p] = ram[p]
                BY <4>1 DEF StoredTo, PutBy
            <4> QED
                BY <1>9, <1>10, <4>1, <4>2
        <3> QED
            BY <3>1, <3>2
    <2>2. PutBy(result.ram, ram, s, 1 .. i)
        BY <1>7, <2>1 DEF PutBy, IsResult
    <2>3. \A j \in 1 .. i : map[PageOf(LaneAddr(s, j))].w
        BY <1>3, <1>7, <1>10 DEF StoredTo, b
    <2> QED
        BY <1>7, <1>8, <2>2, <2>3 DEF StoredTo
<1>11. ASSUME ~result.ok PROVE FaultedAt(result, s, k)
    <2>1. StoredTo(result, s, k)
        BY <1>7, <1>8, <1>11 DEF StoredTo
    <2>2. result.tval = b /\ ~map[PageOf(b)].w
        BY <1>7, <1>11
    <2> QED
        BY <1>4, <2>1, <2>2 DEF FaultedAt, b
<1> QED
    BY <1>7, <1>10, <1>11

-----------------------------------------------------------------------------
(* Stores: the parts, one after the other.                                 *)

LEMMA LeastOf ==
    ASSUME NEW S, S \subseteq Nat, S # {}
    PROVE  \E least \in S : \A other \in S : least <= other
<1>1. PICK least \in S : \A other \in S : <<other, least>> \notin OpToRel(<, Nat)
    BY NatLessThanWellFounded, WFMin
<1>2. ASSUME NEW other \in S PROVE least <= other
    <2>1. <<other, least>> \notin {pair \in Nat \X Nat : pair[1] < pair[2]}
        BY <1>1 DEF OpToRel
    <2> QED
        BY <2>1
<1> QED
    BY <1>2

\* What the next part makes of the parts before it.
Part(s, i, was) ==
    IF ~was.ok THEN was ELSE StoreAligned(was, Wrap(s.addr + i - 1), <<s.bytes[i]>>)

Before == [ok |-> TRUE, tval |-> 0, regs |-> {}, ram |-> ram, tlb |-> writeTlb]

\* parts is the recursive function StoreResult defines, up to its m-th value.
ArePart(parts, s, m) ==
    parts = [i \in 0 .. m |-> IF i = 0 THEN Before ELSE Part(s, i, parts[i - 1])]

LEMMA PartsExist ==
    ASSUME NEW s, NEW n \in Nat
    PROVE  \E parts : ArePart(parts, s, n)
<1> SUFFICES ASSUME ~\E parts : ArePart(parts, s, n) PROVE FALSE
    OBVIOUS
<1> DEFINE Bad == {m \in Nat : ~\E parts : ArePart(parts, s, m)}
<1>1. PICK m \in Bad : \A other \in Bad : m <= other
    <2>1. Bad \subseteq Nat /\ Bad # {}
        OBVIOUS
    <2> HIDE DEF Bad
    <2> QED
        BY <2>1, LeastOf
<1>2. m \in Nat /\ ~\E parts : ArePart(parts, s, m)
    OBVIOUS
<1>3. CASE m = 0
    <2>1. ArePart([i \in 0 .. 0 |-> Before], s, 0)
        BY DEF ArePart
    <2> QED
        BY <1>2, <1>3, <2>1
<1>4. CASE m # 0
    <2>1. m - 1 \in Nat /\ m - 1 \notin Bad
        <3>1. m - 1 \in Nat /\ ~(m <= m - 1)
            BY <1>2, <1>4
        <3> HIDE DEF Bad
        <3> QED
            BY <1>1, <3>1
    <2>2. PICK parts : ArePart(parts, s, m - 1)
        BY <2>1
    <2> DEFINE longer == [i \in 0 .. m |-> IF i = m THEN Part(s, m, parts[m - 1]) ELSE parts[i]]
    <2>3. ASSUME NEW i \in 0 .. m
          PROVE  longer[i] = IF i = 0 THEN Before ELSE Part(s, i, longer[i - 1])
        <3>1. CASE i = m
            <4>1. i # 0 /\ m - 1 \in 0 .. m /\ m - 1 # m
                BY <1>2, <1>4, <3>1
            <4>2. longer[i] = Part(s, m, parts[m - 1]) /\ longer[m - 1] = parts[m - 1]
                BY <3>1, <4>1
            <4> QED
                BY <3>1, <4>1, <4>2
        <3>2. CASE i # m
            <4>1. i \in 0 .. m - 1 /\ (i # 0 => i - 1 \in 0 .. m /\ i - 1 # m)
                BY <1>2, <3>2
            <4>2. longer[i] = parts[i] /\ (i # 0 => longer[i - 1] = parts[i - 1])
                BY <3>2, <4>1
            <4>3. parts[i] = IF i = 0 THEN Before ELSE Part(s, i, parts[i - 1])
                BY <2>2, <4>1 DEF ArePart
            <4> QED
                BY <4>2, <4>3
        <3> QED
            BY <3>1, <3>2
    <2>4. ArePart(longer, s, m)
        BY <2>3 DEF ArePart
    <2> QED
        BY <1>2, <2>4
<1> QED
    BY <1>3, <1>4

LEMMA StoreResultIs ==
    ASSUME NEW s \in Store
    PROVE  \/ /\ s.addr % Len(s.bytes) = 0
              /\ StoreResult(s) = StoreAligned(Before, s.addr, s.bytes)
           \/ \E parts : /\ ArePart(parts, s, Len(s.bytes))
                         /\ StoreResult(s) = parts[Len(s.bytes)]
<1> DEFINE n == Len(s.bytes)
           upTo[i \in 0 .. n] ==
               IF i = 0 THEN Before
               ELSE IF ~upTo[i - 1].ok THEN upTo[i - 1]
               ELSE StoreAligned(upTo[i - 1], Wrap(s.addr + i - 1), <<s.bytes[i]>>)
<1>1. n \in Nat
    BY StoreIs
<1>2. StoreResult(s) = IF s.addr % n = 0 THEN StoreAligned(Before, s.addr, s.bytes)
                       ELSE upTo[n]
    BY DEF StoreResult, Before
<1>3. ArePart(upTo, s, n)
    <2>1. PICK parts : ArePart(parts, s, n)
        BY <1>1, PartsExist
    <2> QED
        BY <2>1 DEF ArePart, Part
<1> QED
    BY <1>2, <1>3

\* What a store leaves: all of its bytes, or those before the one it faulted at.
Finished(result, s) ==
    /\ result.ok \in BOOLEAN
    /\ result.ok => StoredTo(result, s, Len(s.bytes))
    /\ ~result.ok => \E k \in 0 .. Len(s.bytes) - 1 : FaultedAt(result, s, k)

LEMMA NothingStored ==
    ASSUME map \in [VPage -> Map], ram \in [Ram -> Int], Current(writeTlb, Writable), NEW s
    PROVE  IsResult(Before) /\ Before.ok = TRUE /\ StoredTo(Before, s, 0)
<1>1. /\ Before.ok = TRUE /\ Before.tval = 0 /\ Before.regs = {} /\ Before.ram = ram
      /\ Before.tlb = writeTlb
      /\ Before = [ok |-> Before.ok, tval |-> Before.tval, regs |-> Before.regs,
                   ram |-> Before.ram, tlb |-> Before.tlb]
    BY DEF Before
<1>2. 1 .. 0 = {}
    OBVIOUS
<1> QED
    BY <1>1, <1>2 DEF IsResult, StoredTo, PutBy

LEMMA StoreByBytes ==
    ASSUME map \in [VPage -> Map], ram \in [Ram -> Int], Current(writeTlb, Writable),
           NEW s \in Store, NEW parts, ArePart(parts, s, Len(s.bytes))
    PROVE  Finished(parts[Len(s.bytes)], s)
<1> DEFINE n == Len(s.bytes)
           Good(m) == /\ parts[m].ok \in BOOLEAN
                      /\ parts[m].ok => StoredTo(parts[m], s, m)
                      /\ ~parts[m].ok => \E k \in 0 .. n - 1 : FaultedAt(parts[m], s, k)
           Bad == {m \in 0 .. n : ~Good(m)}
<1>1. n \in Nat
    BY StoreIs
<1>2. \A i \in 0 .. n : parts[i] = IF i = 0 THEN Before ELSE Part(s, i, parts[i - 1])
    BY DEF ArePart
<1> SUFFICES ASSUME Bad # {} PROVE FALSE
    BY <1>1 DEF Finished
<1>3. PICK m \in Bad : \A other \in Bad : m <= other
    <2>1. Bad \subseteq Nat
        BY <1>1
    <2> HIDE DEF Bad
    <2> QED
        BY <2>1, LeastOf
<1>4. m \in 0 .. n /\ ~Good(m)
    OBVIOUS
<1>5. CASE m = 0
    <2>1. parts[0] = Before
        BY <1>1, <1>2
    <2> QED
        BY <1>4, <1>5, <2>1, NothingStored
<1>6. CASE m # 0
    <2> DEFINE k == m - 1
    <2>1. k \in 0 .. n /\ k \in 0 .. n - 1 /\ k + 1 = m /\ ~(m <= k)
        BY <1>1, <1>4, <1>6
    <2> HIDE DEF k
    <2>2. Good(k)
        <3>1. k \notin Bad
            <4> HIDE DEF Bad
            <4> QED
                BY <1>3, <2>1
        <3> QED
            BY <2>1, <3>1
    <2>3. parts[m] = Part(s, m, parts[k])
        BY <1>2, <1>4, <1>6 DEF k
    <2>4. CASE ~parts[k].ok
        BY <1>4, <2>2, <2>3, <2>4 DEF Part
    <2>5. CASE parts[k].ok
        <3>1. parts[m] = StoreAligned(parts[k], LaneAddr(s, k + 1), <<s.bytes[k + 1]>>)
            BY <2>1, <2>3, <2>5 DEF Part, LaneAddr
        <3>2. parts[k].ok = TRUE /\ StoredTo(parts[k], s, k)
            BY <2>2, <2>5
        <3> DEFINE was == parts[k]
                   result == parts[m]
        <3>3. was.ok = TRUE /\ StoredTo(was, s, k)
                /\ result = StoreAligned(was, LaneAddr(s, k + 1), <<s.bytes[k + 1]>>)
            BY <3>1, <3>2
        <3> HIDE DEF was, result
        <3>4. /\ result.ok \in BOOLEAN
              /\ result.ok => StoredTo(result, s, k + 1)
              /\ ~result.ok => FaultedAt(result, s, k)
            BY <2>1, <3>3, StoreOneByte
        <3>5. Good(m)
            BY <2>1, <3>4 DEF result
        <3> QED
            BY <1>4, <3>5
    <2> QED
        BY <2>2, <2>4, <2>5
<1> QED
    BY <1>5, <1>6

LEMMA StoreInBlock ==
    ASSUME map \in [VPage -> Map], ram \in [Ram -> Int], Current(writeTlb, Writable),
           NEW s \in Store, s.addr % Len(s.bytes) = 0
    PROVE  Finished(StoreAligned(Before, s.addr, s.bytes), s)
<1> DEFINE n == Len(s.bytes)
           a == s.addr
           result == StoreAligned(Before, a, s.bytes)
<1> SUFFICES Finished(result, s)
    OBVIOUS
<1>1. /\ n \in Width /\ n \in 1 .. 8 /\ a \in Address /\ a \in Int /\ s.bytes \in Seq(Int)
      /\ \A i \in 1 .. n : LaneAddr(s, i) \in Address
    BY StoreIs
<1>2. StoredBlock(result, Before, a, s.bytes)
    BY <1>1, NothingStored, StoreAlignedIs
<1> HIDE DEF result
<1>3. a % n = 0
    OBVIOUS
<1>4. ASSUME NEW i \in 1 .. n
      PROVE  /\ PageOf(LaneAddr(s, i)) = PageOf(a)
             /\ \A p : Lane(s, i, p) <=> ToRam(a) /\ Byte(a) + (i - 1) = p
    <2> HIDE DEF n, a
    <2>1. i - 1 \in 0 .. n - 1 /\ a + (i - 1) \in Int
        BY <1>1
    <2>2. LaneAddr(s, i) = Wrap(a + (i - 1))
        BY <1>1 DEF LaneAddr, a
    <2>3. /\ Wrap(a + (i - 1)) = a + (i - 1) /\ PageOf(a + (i - 1)) = PageOf(a)
          /\ ToRam(a + (i - 1)) <=> ToRam(a)
          /\ Byte(a + (i - 1)) = Byte(a) + (i - 1)
        BY <1>1, <1>3, <2>1, BlockIs
    <2> QED
        BY <2>2, <2>3 DEF Lane
<1>5. a \in Span(a, n) /\ Registers(a, n) \subseteq Overlapped(a, n)
    <2> HIDE DEF n, a
    <2>1. a \in Span(a, n)
        BY <1>1, <1>3, AlignedSpan
    <2> QED
        BY <1>1, <1>3, <2>1, RegistersIn DEF Overlapped
<1>6. ASSUME result.ok PROVE StoredTo(result, s, n)
    <2>1. ASSUME NEW p \in Ram
          PROVE  /\ \A i \in 1 .. n : Lane(s, i, p) => result.ram[p] = s.bytes[i]
                 /\ (\A i \in 1 .. n : ~Lane(s, i, p)) => result.ram[p] = ram[p]
        BY <1>2, <1>4, <1>6 DEF StoredBlock, Before
    <2>2. PutBy(result.ram, ram, s, 1 .. n)
        BY <1>2, <2>1 DEF PutBy, StoredBlock, IsResult
    <2>3. \A i \in 1 .. n : map[PageOf(LaneAddr(s, i))].w
        BY <1>2, <1>4, <1>6 DEF StoredBlock
    <2>4. result.regs \subseteq Overlapped(s.addr, Len(s.bytes))
        BY <1>2, <1>5 DEF StoredBlock, Before
    <2> QED
        BY <1>2, <2>2, <2>3, <2>4 DEF StoredTo, StoredBlock
<1>7. 0 \in 0 .. n - 1 /\ 0 + 1 \in 1 .. n
    <2>1. n \in 1 .. 8
        BY <1>1
    <2> HIDE DEF n
    <2> QED
        BY <2>1
<1>8. ASSUME ~result.ok PROVE FaultedAt(result, s, 0)
    <2>1. result.tval = a /\ result.ram = ram /\ IsResult(result)
            /\ result.regs \subseteq Overlapped(s.addr, Len(s.bytes))
        BY <1>2, <1>5, <1>8 DEF StoredBlock, Before
    <2>2. StoredTo(result, s, 0)
        <3>1. 1 .. 0 = {}
            OBVIOUS
        <3> QED
            BY <2>1, <3>1 DEF StoredTo, PutBy
    <2>3. PageOf(LaneAddr(s, 0 + 1)) = PageOf(a)
        BY <1>4, <1>7
    <2>4. ~map[PageOf(a)].w
        BY <1>2, <1>8 DEF StoredBlock
    <2> QED
        BY <1>1, <2>1, <2>2, <2>3, <2>4 DEF FaultedAt
<1>9. result.ok \in BOOLEAN
    BY <1>2 DEF StoredBlock
<1> QED
    BY <1>6, <1>7, <1>8, <1>9 DEF Finished

LEMMA StoreFinished ==
    ASSUME map \in [VPage -> Map], ram \in [Ram -> Int], Current(writeTlb, Writable),
           NEW s \in Store
    PROVE  Finished(StoreResult(s), s)
<1>1. CASE s.addr % Len(s.bytes) = 0 /\ StoreResult(s) = StoreAligned(Before, s.addr, s.bytes)
    BY <1>1, StoreInBlock
<1>2. ASSUME NEW parts, ArePart(parts, s, Len(s.bytes)), StoreResult(s) = parts[Len(s.bytes)]
      PROVE  Finished(StoreResult(s), s)
    BY <1>2, StoreByBytes
<1> QED
    BY <1>1, <1>2, StoreResultIs

-----------------------------------------------------------------------------
(* The invariant.  A store that faulted half way has written its first     *)
(* bytes, to pages that still are writable: executing it again writes at   *)
(* least as many.                                                          *)

HalfWritten ==
    \A s \in Store : pending = s =>
        \E k \in 0 .. Len(s.bytes) :
            /\ PutBy(ram, before, s, 1 .. k)
            /\ \A i \in 1 .. k : map[PageOf(LaneAddr(s, i))].w

AccInv ==
    /\ map \in [VPage -> Map]
    /\ ram \in [Ram -> Int]
    /\ Current(readTlb, Readable)
    /\ Current(writeTlb, Writable)
    /\ pending \in Store \cup {NoStore}
    /\ pending # NoStore => before \in [Ram -> Int]
    /\ HalfWritten

LEMMA AccInvTypes == AccInv => AccTypeOK
<1> SUFFICES ASSUME AccInv PROVE AccTypeOK
    OBVIOUS
<1>1. ASSUME NEW tlb, NEW pages \in SUBSET VPage, Current(tlb, pages), NEW i \in 0 .. TlbSize - 1
      PROVE  \/ tlb[i] = NoEntry
             \/ /\ tlb[i].frame \in RamFrame
                /\ tlb[i].vaddr \in {v * PageSize : v \in {v \in VPage : v % TlbSize = i}}
    <2>1. CASE tlb[i] = NoEntry
        BY <2>1
    <2>2. CASE tlb[i] # NoEntry
        <3>1. PICK v \in pages : v % TlbSize = i /\ map[v].frame \in RamFrame
                                   /\ tlb[i] = Translated(v)
            BY <1>1, <2>2 DEF Current
        <3>2. tlb[i].frame = map[v].frame /\ tlb[i].vaddr = v * PageSize /\ v \in VPage
            BY <3>1 DEF Translated
        <3> QED
            BY <3>1, <3>2
    <2> QED
        BY <2>1, <2>2
<1>2. Readable \in SUBSET VPage /\ Writable \in SUBSET VPage
    BY DEF Readable, Writable
<1> QED
    BY <1>1, <1>2 DEF AccInv, AccTypeOK

LEMMA AccInitInv == AccInit => AccInv
<1> SUFFICES ASSUME AccInit PROVE AccInv
    OBVIOUS
<1>1. map \in [VPage -> Map]
    BY MemAccessAssumption DEF AccInit
<1>2. ram \in [Ram -> Int]
    BY RamIs DEF AccInit
<1>3. Current(readTlb, Readable) /\ Current(writeTlb, Writable)
    BY DEF AccInit, Current, NoEntry, NoFrame
<1>4. pending = NoStore /\ \A s \in Store : s # NoStore
    BY StoreIs DEF AccInit
<1> QED
    BY <1>1, <1>2, <1>3, <1>4 DEF AccInv, HalfWritten

LEMMA FlushCurrent ==
    ASSUME Flush
    PROVE  Current(readTlb, Readable)' /\ Current(writeTlb, Writable)'
BY DEF Flush, Current, NoEntry, NoFrame

\* What was written before a fault is written again, and no byte is lost.
LEMMA PutAgain ==
    ASSUME NEW s \in Store, NEW old, NEW half, NEW new, NEW k \in Nat, NEW m \in Nat, k <= m,
           PutBy(half, old, s, 1 .. k), PutBy(new, half, s, 1 .. m)
    PROVE  PutBy(new, old, s, 1 .. m)
<1>1. \A i \in 1 .. k : i \in 1 .. m
    OBVIOUS
<1> QED
    BY <1>1 DEF PutBy

LEMMA StoreStep ==
    ASSUME AccInv, NEW s \in Store, ExecStore(s)
    PROVE  AccInv'
<1> DEFINE result == StoreResult(s)
           n == Len(s.bytes)
           old == IF pending = NoStore THEN ram ELSE before
<1>1. n \in Nat /\ s # NoStore
    BY StoreIs
<1>2. Finished(result, s)
    BY StoreFinished DEF AccInv
<1>3. /\ pending \in {NoStore, s} /\ ram' = result.ram /\ writeTlb' = result.tlb
      /\ pending' = (IF result.ok THEN NoStore ELSE s)
      /\ before' = (IF result.ok THEN <<>> ELSE old)
      /\ map' = map /\ readTlb' = readTlb
    BY DEF ExecStore
<1> HIDE DEF result
<1>4. IsResult(result) /\ result.ok \in BOOLEAN
    BY <1>2 DEF Finished, FaultedAt, StoredTo
<1>5. PICK k \in 0 .. n : PutBy(ram, old, s, 1 .. k)
                            /\ \A i \in 1 .. k : map[PageOf(LaneAddr(s, i))].w
    <2>1. CASE pending = NoStore
        <3>1. 0 \in 0 .. n /\ 1 .. 0 = {}
            BY <1>1
        <3> QED
            BY <2>1, <3>1 DEF PutBy, AccInv
    <2>2. CASE pending = s
        BY <1>1, <2>2 DEF AccInv, HalfWritten
    <2> QED
        BY <1>3, <2>1, <2>2
<1>6. old \in [Ram -> Int]
    BY DEF AccInv
<1>7. ~result.ok => HalfWritten'
    <2> SUFFICES ASSUME ~result.ok PROVE HalfWritten'
        OBVIOUS
    <2>1. PICK m \in 0 .. n - 1 : FaultedAt(result, s, m)
        BY <1>2 DEF Finished
    <2>2. /\ PutBy(ram', ram, s, 1 .. m) /\ \A i \in 1 .. m : map[PageOf(LaneAddr(s, i))].w
          /\ ~map[PageOf(LaneAddr(s, m + 1))].w
        BY <1>3, <2>1 DEF FaultedAt, StoredTo
    <2>3. k <= m
        <3>1. m + 1 \notin 1 .. k
            BY <1>5, <2>2
        <3> HIDE DEF n
        <3> QED
            BY <1>1, <3>1
    <2>4. m \in 0 .. n /\ k \in Nat /\ m \in Nat
        <3> HIDE DEF n
        <3> QED
            BY <1>1
    <2>5. PutBy(ram', old, s, 1 .. m)
        BY <1>5, <2>2, <2>3, <2>4, PutAgain
    <2>6. before' = old /\ pending' = s
        BY <1>3
    <2>7. PutBy(ram, before, s, 1 .. m)'
        BY <1>3, <2>5, <2>6 DEF PutBy, Lane, ToRam, Byte
    <2>8. \A i \in 1 .. m : map'[PageOf(LaneAddr(s, i))].w
        BY <1>3, <2>2
    <2> QED
        BY <2>4, <2>6, <2>7, <2>8 DEF HalfWritten
<1>8. result.ok => HalfWritten'
    BY <1>1, <1>3, StoreIs DEF HalfWritten
<1>9. Current(writeTlb, Writable)' /\ Current(readTlb, Readable)'
    BY <1>3, <1>4 DEF IsResult, Current, Writable, Readable, Translated, AccInv
<1>10. /\ map' \in [VPage -> Map] /\ ram' \in [Ram -> Int]
       /\ pending' \in Store \cup {NoStore}
       /\ pending' # NoStore => before' \in [Ram -> Int]
    BY <1>3, <1>4, <1>6 DEF IsResult, AccInv
<1> QED
    BY <1>4, <1>7, <1>8, <1>9, <1>10 DEF AccInv

LEMMA LoadStep ==
    ASSUME AccInv, NEW a \in Address, NEW size \in Width, ExecLoad(a, size)
    PROVE  AccInv'
<1>1. Loaded(Load(a, size), a, size)
    BY LoadIs DEF AccInv
<1>2. readTlb' = Load(a, size).tlb /\ UNCHANGED <<map, ram, writeTlb, pending, before>>
    BY DEF ExecLoad
<1>3. Current(readTlb, Readable)'
    BY <1>1, <1>2 DEF Loaded, Current, Readable, Translated
<1>4. Current(writeTlb, Writable)' /\ HalfWritten'
    BY <1>2 DEF AccInv, Current, Writable, Translated, HalfWritten, PutBy, Lane, ToRam, Byte
<1> QED
    BY <1>2, <1>3, <1>4 DEF AccInv

\* A page that a store waits for was not writable, so the bytes it has written are
\* elsewhere, and stay what they are.
LEMMA PageInStep ==
    ASSUME AccInv, pending # NoStore,
           NEW to \in Mapping[PageOf(StoreResult(pending).tval)], PageIn(to)
    PROVE  AccInv'
<1> DEFINE v == PageOf(StoreResult(pending).tval)
<1>1. pending \in Store
    BY DEF AccInv
<1>2. /\ ~map[v].w /\ map' = [map EXCEPT ![v] = to]
      /\ UNCHANGED <<ram, pending, before>>
    BY DEF PageIn
<1>3. Current(readTlb, Readable)' /\ Current(writeTlb, Writable)'
    BY FlushCurrent DEF PageIn
<1>4. ASSUME v \in VPage PROVE to \in Map
    BY <1>4, MemAccessAssumption
<1> HIDE DEF v
<1>5. map' \in [VPage -> Map] /\ \A u \in VPage : u # v => map'[u] = map[u]
    BY <1>2, <1>4 DEF AccInv
<1>6. PICK k \in 0 .. Len(pending.bytes) :
          /\ PutBy(ram, before, pending, 1 .. k)
          /\ \A i \in 1 .. k : map[PageOf(LaneAddr(pending, i))].w
    BY <1>1 DEF AccInv, HalfWritten
<1>7. ASSUME NEW i \in 1 .. k
      PROVE  map'[PageOf(LaneAddr(pending, i))] = map[PageOf(LaneAddr(pending, i))]
    <2>1. i \in 1 .. Len(pending.bytes)
        <3> DEFINE n == Len(pending.bytes)
        <3>1. n \in Nat /\ k \in 0 .. n
            BY <1>1, StoreIs
        <3> HIDE DEF n
        <3>2. i \in 1 .. n
            BY <3>1
        <3> QED
            BY <3>2 DEF n
    <2>2. PageOf(LaneAddr(pending, i)) \in VPage
        BY <1>1, <2>1, StoreIs, AddressIs
    <2> QED
        BY <1>2, <1>5, <1>6, <2>2
<1>8. HalfWritten'
    <2>1. PutBy(ram, before, pending, 1 .. k)'
        BY <1>2, <1>6, <1>7 DEF PutBy, Lane, ToRam, Byte
    <2>2. \A i \in 1 .. k : map'[PageOf(LaneAddr(pending, i))].w
        BY <1>6, <1>7
    <2> QED
        BY <1>2, <2>1, <2>2 DEF HalfWritten
<1> QED
    BY <1>2, <1>3, <1>5, <1>8 DEF AccInv

LEMMA RemapStep ==
    ASSUME AccInv, NEW v \in VPage, NEW to \in Mapping[v], Remap(v, to)
    PROVE  AccInv'
<1>1. map' = [map EXCEPT ![v] = to] /\ pending = NoStore /\ UNCHANGED <<ram, pending, before>>
    BY DEF Remap
<1>2. Current(readTlb, Readable)' /\ Current(writeTlb, Writable)'
    BY FlushCurrent DEF Remap
<1>3. to \in Map
    BY MemAccessAssumption
<1>4. \A s \in Store : s # NoStore
    BY StoreIs
<1> QED
    BY <1>1, <1>2, <1>3, <1>4 DEF AccInv, HalfWritten

LEMMA AccStepInv == AccInv /\ [AccNext]_accVars => AccInv'
<1> SUFFICES ASSUME AccInv, [AccNext]_accVars PROVE AccInv'
    OBVIOUS
<1>1. CASE UNCHANGED accVars
    <2>1. Current(readTlb, Readable)' /\ Current(writeTlb, Writable)'
        BY <1>1 DEF accVars, AccInv, Current, Readable, Writable, Translated
    <2>2. HalfWritten'
        BY <1>1 DEF accVars, AccInv, HalfWritten, PutBy, Lane, ToRam, Byte
    <2> QED
        BY <1>1, <2>1, <2>2 DEF accVars, AccInv
<1> QED
    BY <1>1, LoadStep, StoreStep, PageInStep, RemapStep DEF AccNext

LEMMA AccInvariant == AccSpec => []AccInv
BY AccInitInv, AccStepInv, PTL DEF AccSpec

-----------------------------------------------------------------------------
(* The theorems.                                                           *)

\* A TLB entry is of its page and leads to RAM.
THEOREM AccessTypes == AccSpec => []AccTypeOK
BY AccInvariant, AccInvTypes, PTL

\* A load yields the bytes its addresses stand for, for pages and TLBs of any size.
THEOREM LoadsReadTheirBytes == AccSpec => []LoadIsBytes
<1>1. AccInv => LoadIsBytes
    <2> SUFFICES ASSUME AccInv, NEW a \in Address, NEW size \in Width,
                        \A b \in Span(a, size) : map[PageOf(b)].r /\ ToRam(b)
                 PROVE  /\ Load(a, size).ok
                        /\ Load(a, size).bytes
                             = [i \in 1 .. size |-> ram[Byte(Wrap(a + i - 1))]]
        BY DEF LoadIsBytes
    <2>1. Loaded(Load(a, size), a, size)
        BY LoadIs DEF AccInv
    <2> QED
        BY <2>1 DEF Loaded
<1> QED
    BY <1>1, AccInvariant, PTL

\* An access faults exactly if a byte of it may not be accessed, and says where.
THEOREM FaultsAreJustified == AccSpec => []FaultJustified
<1>1. ASSUME AccInv, NEW a \in Address, NEW size \in Width,
             NEW denied, denied = {b \in Span(a, size) : ~map[PageOf(b)].r},
             NEW result, result = Load(a, size)
      PROVE  IF result.ok THEN denied = {}
             ELSE PageOf(result.tval) \in {PageOf(b) : b \in denied}
    <2>1. Loaded(result, a, size)
        BY <1>1, LoadIs DEF AccInv
    <2> QED
        BY <1>1, <2>1 DEF Loaded
<1>2. ASSUME AccInv, NEW s \in Store,
             NEW denied,
             denied = {b \in Span(s.addr, Len(s.bytes)) : ~map[PageOf(b)].w},
             NEW result, result = StoreResult(s)
      PROVE  IF result.ok THEN denied = {}
             ELSE PageOf(result.tval) \in {PageOf(b) : b \in denied}
    <2> DEFINE n == Len(s.bytes)
               a == s.addr
    <2>1. n \in 1 .. 8 /\ a \in Int
        BY StoreIs
    <2>2. Span(a, n) = {LaneAddr(s, i) : i \in 1 .. n}
        <3>1. \A i \in 1 .. n : i - 1 \in 0 .. n - 1 /\ Wrap(a + (i - 1)) = LaneAddr(s, i)
            <4>1. \A i \in 1 .. n : Wrap(a + (i - 1)) = LaneAddr(s, i)
                BY DEF LaneAddr
            <4> HIDE DEF n
            <4> QED
                BY <2>1, <4>1
        <3>2. \A j \in 0 .. n - 1 : j + 1 \in 1 .. n /\ Wrap(a + j) = LaneAddr(s, j + 1)
            <4> HIDE DEF n, a
            <4>1. \A j \in 0 .. n - 1 : j + 1 \in 1 .. n /\ (j + 1) - 1 = j
                BY <2>1
            <4> QED
                BY <3>1, <4>1
        <3> HIDE DEF n, a
        <3> QED
            BY <3>1, <3>2 DEF Span
    <2>3. Finished(result, s)
        BY <1>2, StoreFinished DEF AccInv
    <2>4. CASE result.ok
        BY <1>2, <2>2, <2>3, <2>4 DEF Finished, StoredTo
    <2>5. CASE ~result.ok
        <3>1. PICK k \in 0 .. n - 1 : FaultedAt(result, s, k)
            BY <2>3, <2>5 DEF Finished
        <3>2. k + 1 \in 1 .. n
            <4> HIDE DEF n
            <4> QED
                BY <2>1
        <3> QED
            BY <1>2, <2>2, <2>5, <3>1, <3>2 DEF FaultedAt
    <2> QED
        BY <2>4, <2>5
<1>3. AccInv => FaultJustified
    BY <1>1, <1>2 DEF FaultJustified
<1> QED
    BY <1>3, AccInvariant, PTL

\* Splitting and emulating reaches no register outside the blocks it must.
THEOREM DevicesAreAddressed == AccSpec => []DeviceAddressed
<1>1. ASSUME AccInv, NEW a \in Address, NEW size \in Width
      PROVE  Load(a, size).regs \subseteq Overlapped(a, size)
    BY <1>1, LoadIs DEF AccInv, Loaded
<1>2. ASSUME AccInv, NEW s \in Store
      PROVE  StoreResult(s).regs \subseteq Overlapped(s.addr, Len(s.bytes))
    <2>1. Finished(StoreResult(s), s)
        BY <1>2, StoreFinished DEF AccInv
    <2> QED
        BY <2>1 DEF Finished, FaultedAt, StoredTo
<1>3. AccInv => DeviceAddressed
    BY <1>1, <1>2 DEF DeviceAddressed, Overlapped
<1> QED
    BY <1>3, AccInvariant, PTL

\* All bytes written are what a store that is done at once leaves.
LEMMA PutIsStored ==
    ASSUME map \in [VPage -> Map], NEW s \in Store, NEW old, NEW new,
           PutBy(new, old, s, 1 .. Len(s.bytes))
    PROVE  new = Stored(old, s)
<1> DEFINE n == Len(s.bytes)
           lanes(p) == {i \in DOMAIN s.bytes : LET a == Wrap(s.addr + i - 1)
                                               IN ToRam(a) /\ Byte(a) = p}
<1>1. DOMAIN s.bytes = 1 .. n
    BY StoreIs
<1>2. \A p : lanes(p) = {i \in 1 .. n : Lane(s, i, p)}
    BY <1>1 DEF Lane, LaneAddr
<1>3. Stored(old, s)
        = [p \in Ram |-> IF lanes(p) = {} THEN old[p] ELSE s.bytes[CHOOSE i \in lanes(p) : TRUE]]
    BY DEF Stored
<1> HIDE DEF lanes
<1>4. ASSUME NEW p \in Ram
      PROVE  new[p] = IF lanes(p) = {} THEN old[p] ELSE s.bytes[CHOOSE i \in lanes(p) : TRUE]
    <2>1. CASE lanes(p) = {}
        BY <1>2, <2>1 DEF PutBy
    <2>2. CASE lanes(p) # {}
        <3>1. (CHOOSE i \in lanes(p) : TRUE) \in lanes(p)
            BY <2>2
        <3> QED
            BY <1>2, <2>2, <3>1 DEF PutBy
    <2> QED
        BY <2>1, <2>2
<1>5. new = [p \in Ram |-> new[p]]
    BY DEF PutBy
<1> QED
    BY <1>3, <1>4, <1>5

\* A store that is executed again after a fault half way leaves what it would have
\* left if it had been done at once, wherever it faulted and whatever was paged in.
THEOREM StoresRestart == AccSpec => StoreRestarts
<1>1. ASSUME AccInv, NEW s \in Store, ExecStore(s), StoreResult(s).ok
      PROVE  ram' = Stored(IF pending = NoStore THEN ram ELSE before, s)
    <2> DEFINE result == StoreResult(s)
               n == Len(s.bytes)
               old == IF pending = NoStore THEN ram ELSE before
    <2>1. n \in Nat
        BY StoreIs
    <2>2. Finished(result, s)
        BY <1>1, StoreFinished DEF AccInv
    <2>3. PutBy(ram', ram, s, 1 .. n)
        BY <1>1, <2>2 DEF Finished, StoredTo, ExecStore
    <2>4. CASE pending = NoStore
        BY <1>1, <2>3, <2>4, PutIsStored DEF AccInv
    <2>5. CASE pending = s
        <3>1. PICK k \in 0 .. n : PutBy(ram, before, s, 1 .. k)
            BY <1>1, <2>5 DEF AccInv, HalfWritten
        <3>2. k \in Nat /\ k <= n
            <4> HIDE DEF n
            <4> QED
                BY <2>1
        <3>3. PutBy(ram', before, s, 1 .. n)
            BY <2>1, <2>3, <3>1, <3>2, PutAgain
        <3>4. old = before
            BY <2>5, StoreIs
        <3> QED
            BY <1>1, <3>3, <3>4, PutIsStored DEF AccInv
    <2>6. pending \in {NoStore, s}
        BY <1>1 DEF ExecStore
    <2> QED
        BY <2>4, <2>5, <2>6
<1>2. AccInv /\ [AccNext]_accVars
        => [\A s \in Store :
               ExecStore(s) /\ StoreResult(s).ok
                   => ram' = Stored(IF pending = NoStore THEN ram ELSE before, s)]_accVars
    BY <1>1
<1> QED
    BY <1>2, AccInvariant, PTL DEF AccSpec, StoreRestarts

-----------------------------------------------------------------------------
(* LR/SC is atomic when the kernel switches with a dummy LR.  The          *)
(* invariant: the reservation names the counter only for the running       *)
(* thread, and then the value it loaded is still the counter.              *)

ReservationHeld ==
    loadRes = "counter" /\ running \in reserved
        => loaded[running] = mem["counter"] /\ running \notin written

\* A thread between its LR and its SC still has an addition to make.
AdditionDue == \A t \in reserved : done[t] < Adds

LrScIInv == TypeOK /\ NoLostUpdate /\ ReservationHeld /\ AdditionDue

LEMMA LrScInitInv == Init => LrScIInv
BY LrScAssumption
   DEF Init, LrScIInv, TypeOK, NoLostUpdate, ReservationHeld, AdditionDue, Addr, None

LEMMA LrScStepInv == SwitchWith = "lr" /\ LrScIInv /\ [Next]_vars => LrScIInv'
<1> SUFFICES ASSUME SwitchWith = "lr", LrScIInv, [Next]_vars PROVE LrScIInv'
    OBVIOUS
<1> USE DEF LrScIInv, TypeOK, NoLostUpdate, ReservationHeld, AdditionDue
<1>1. ASSUME NEW t \in Thread, Lr(t) PROVE LrScIInv'
    BY <1>1 DEF Lr, Addr
<1>2. ASSUME NEW t \in Thread, Sc(t) PROVE LrScIInv'
    <2>1. CASE loadRes = "counter"
        <3>1. mem' = [mem EXCEPT !["counter"] = mem["counter"] + 1]
            BY <1>2, <2>1 DEF Sc, Put
        <3>2. written' = Thread /\ reserved' = reserved \ {t} /\ running' = t
            BY <1>2, <2>1 DEF Sc, Put
        <3>3. done' = [done EXCEPT ![t] = @ + 1] /\ added' = added + 1
            BY <1>2, <2>1 DEF Sc, Added
        <3>4. done[t] < Adds
            BY <1>2 DEF Sc
        <3> QED
            BY <1>2, <3>1, <3>2, <3>3, <3>4, LrScAssumption DEF Sc, Addr
    <2>2. CASE loadRes # "counter"
        BY <1>2, <2>2 DEF Sc
    <2> QED
        BY <2>1, <2>2
<1>3. ASSUME NEW t \in Thread, AmoAdd(t) PROVE LrScIInv'
    BY <1>3, LrScAssumption DEF AmoAdd, Put, Added, Addr
<1>4. ASSUME NEW t \in Thread, Switch(t) PROVE LrScIInv'
    BY <1>4 DEF Switch, Addr
<1>5. CASE UNCHANGED vars
    BY <1>5 DEF vars
<1> QED
    BY <1>1, <1>2, <1>3, <1>4, <1>5 DEF Next

\* With a dummy LR on every switch, no addition is ever lost, whatever number of
\* threads the kernel interleaves and however.
THEOREM AtomicWithDummyLr == SwitchWith = "lr" => (Spec => []NoLostUpdate)
<1> SUFFICES ASSUME SwitchWith = "lr" PROVE Spec => []NoLostUpdate
    OBVIOUS
<1>1. LrScIInv /\ [Next]_vars => LrScIInv'
    BY LrScStepInv
<1>2. LrScIInv => NoLostUpdate
    BY DEF LrScIInv
<1> QED
    BY <1>1, <1>2, LrScInitInv, PTL DEF Spec

\* And an SC then succeeds only on the value its own LR read.
THEOREM ScIsExclusive == SwitchWith = "lr" => (Spec => ScSeesOwnLoad)
<1> SUFFICES ASSUME SwitchWith = "lr" PROVE Spec => ScSeesOwnLoad
    OBVIOUS
<1>1. LrScIInv /\ [Next]_vars => LrScIInv'
    BY LrScStepInv
<1>2. LrScIInv /\ [Next]_vars
        => [\A t \in Thread : Sc(t) /\ done'[t] # done[t] => t \notin written]_vars
    BY DEF LrScIInv, TypeOK, ReservationHeld, Sc
<1> QED
    BY <1>1, <1>2, LrScInitInv, PTL DEF Spec, ScSeesOwnLoad

-----------------------------------------------------------------------------
(* Dirty-page tracking implements the write log.                           *)

RamIInv == RamTypeOK /\ CachedIsDirty /\ DirtyIsStored

LEMMA RamInitInv == RamInit => RamIInv
BY DEF RamInit, RamIInv, RamTypeOK, CachedIsDirty, DirtyIsStored, DirtyBits

LEMMA RamStepInv == RamIInv /\ [RamNext]_ramVars => RamIInv'
<1> SUFFICES ASSUME RamIInv, [RamNext]_ramVars PROVE RamIInv'
    OBVIOUS
<1> USE DEF RamIInv, RamTypeOK, CachedIsDirty, DirtyIsStored, DirtyBits
<1>1. ASSUME NEW p \in Page, StoreHit(p) PROVE RamIInv'
    BY <1>1 DEF StoreHit
<1>2. ASSUME NEW p \in Page, NEW marked \in OneOrNone, StoreMiss(p, marked) PROVE RamIInv'
    <2>1. marked \subseteq Page
        BY DEF OneOrNone
    <2> QED
        BY <1>2, <2>1 DEF StoreMiss, SetDirtyBit, Mark
<1>3. ASSUME NEW p \in Page, Walk(p) PROVE RamIInv'
    BY <1>3 DEF Walk, Mark
<1>4. ASSUME NEW p \in Page, HostWrite(p) PROVE RamIInv'
    BY <1>4 DEF HostWrite, SetDirtyBit
<1>5. ASSUME NEW p \in Page, ResetDirtyBit(p) PROVE RamIInv'
    BY <1>5 DEF ResetDirtyBit, FlushWrite
<1>6. ASSUME NEW pages \in SUBSET Page, Evict(pages) PROVE RamIInv'
    BY <1>6 DEF Evict, FlushWrite
<1>7. CASE GetDirtyBits
    BY <1>7 DEF GetDirtyBits, FlushWrite
<1>8. ASSUME NEW enable \in BOOLEAN, NEW moved \in BOOLEAN, SetAddr(enable, moved)
      PROVE  RamIInv'
    BY <1>8 DEF SetAddr, FlushWrite
<1>9. CASE UNCHANGED ramVars
    BY <1>9 DEF ramVars
<1> QED
    BY <1>1, <1>2, <1>3, <1>4, <1>5, <1>6, <1>7, <1>8, <1>9 DEF RamNext

\* The dirty bits are the pages stored to, though most stores never look at the bits:
\* only pages already dirty are in the write TLB.  Stores of instructions and writes of
\* the host are meant; the A and D bits that page walks set leave no trace in the bits.
THEOREM DirtyBitsExact == RamSpec => [](CachedIsDirty /\ DirtyIsStored)
<1>1. RamIInv => CachedIsDirty /\ DirtyIsStored
    BY DEF RamIInv
<1> QED
    BY <1>1, RamInitInv, RamStepInv, PTL DEF RamSpec

\* Every step of the tracking is a step of the log or a stutter: a report has every
\* page stored to since the one before, and no page that only walks have marked.
THEOREM ImplementsLog == RamSpec => LogSpec
<1>1. RamInit => Log!Init
    BY DEF RamInit, Log!Init
<1>2. RamIInv /\ [RamNext]_ramVars => [Log!Next]_(Log!vars)
    <2> SUFFICES ASSUME RamIInv, [RamNext]_ramVars PROVE [Log!Next]_(Log!vars)
        OBVIOUS
    <2> USE DEF RamIInv, RamTypeOK, CachedIsDirty, DirtyIsStored, DirtyBits,
                Log!Next, Log!vars
    <2>1. ASSUME NEW p \in Page, StoreHit(p) \/ HostWrite(p)
          PROVE  Log!Write(p, {})
        BY <2>1 DEF StoreHit, HostWrite, SetDirtyBit, Log!Write, Log!Mark
    <2>2. ASSUME NEW p \in Page, NEW marked \in OneOrNone, StoreMiss(p, marked)
          PROVE  Log!Write(p, marked) /\ marked \in SUBSET Page
        BY <2>2 DEF StoreMiss, OneOrNone, SetDirtyBit, Mark, Log!Write, Log!Mark
    <2>3. ASSUME NEW p \in Page, Walk(p) PROVE Log!Walk(p)
        BY <2>3 DEF Walk, Mark, Log!Walk, Log!Mark
    <2>4. ASSUME NEW p \in Page, ResetDirtyBit(p) PROVE Log!Forget(p)
        BY <2>4 DEF ResetDirtyBit, Log!Forget
    <2>5. ASSUME GetDirtyBits PROVE Log!Collect
        BY <2>5 DEF GetDirtyBits, Log!Collect
    <2>6. ASSUME \/ \E pages \in SUBSET Page : Evict(pages)
                 \/ \E enable \in BOOLEAN, moved \in BOOLEAN : SetAddr(enable, moved)
                 \/ UNCHANGED ramVars
          PROVE  UNCHANGED Log!vars
        BY <2>6 DEF Evict, SetAddr, ramVars
    <2> QED
        BY <2>1, <2>2, <2>3, <2>4, <2>5, <2>6 DEF RamNext
<1> QED
    BY <1>1, <1>2, RamInitInv, RamStepInv, PTL DEF RamSpec, LogSpec, Log!Spec
=============================================================================
