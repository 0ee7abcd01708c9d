--------------------------- MODULE BasicGcProofs ---------------------------
(***************************************************************************)
(* Proofs about the collector (module BasicGc), for any number of lists    *)
(* and variables, any threshold, and lists of any length: what a variable  *)
(* can reach is never freed, and between statements no list is forgotten.  *)
(*                                                                         *)
(* The invariant keeps the books of a set H of lists that is closed under  *)
(* elements and holds the roots.  A list is backed if more references are  *)
(* counted than variables, the running statement, the intermediate value   *)
(* and the lists in H account for: the references nobody gives back are    *)
(* the difference, and make it that no _unref of a statement is the last.  *)
(* A list that is not backed is the intermediate value, just made.  And    *)
(* what loses a reference is noted: every set that is closed and contains  *)
(* the roots, the tables and the intermediate value contains all lists.    *)
(***************************************************************************)
EXTENDS BasicGc, FiniteSetTheorems, SequenceTheorems, WellFoundedInduction, TLAPS

-----------------------------------------------------------------------------
(* Steps up to a bound, as in a recursive function.                        *)

\* A set of numbers has a least one.
LEMMA LeastOf ==
    ASSUME NEW S, S \subseteq Nat, S # {}
    PROVE  \E least \in S : \A other \in S : least <= other
<1>1. PICK least \in S : \A other \in S : <<other, least>> \notin OpToRel(<, Nat)
  BY NatLessThanWellFounded, WFMin
<1>2. ASSUME NEW other \in S PROVE least <= other
  <2>1. <<other, least>> \notin {pair \in Nat \X Nat : pair[1] < pair[2]}
    BY <1>1 DEF OpToRel
  <2> QED BY <2>1
<1> QED BY <1>2

\* Induction up to a bound, on a set.
LEMMA UpTo ==
    ASSUME NEW n \in Nat, NEW P, 0 \in P, \A k \in 0..(n - 1) : k \in P => k + 1 \in P
    PROVE  \A k \in 0..n : k \in P
<1> DEFINE Bad == {k \in 0..n : k \notin P}
<1> SUFFICES ASSUME Bad # {} PROVE FALSE
  OBVIOUS
<1>1. PICK m \in Bad : \A other \in Bad : m <= other
  <2>1. Bad \subseteq Nat
    OBVIOUS
  <2> HIDE DEF Bad
  <2> QED BY <2>1, LeastOf
<1>2. m \in 1..n
  OBVIOUS
<1>3. m - 1 \notin Bad
  <2>1. ~(m <= m - 1)
    BY <1>2
  <2> HIDE DEF Bad
  <2> QED BY <1>1, <2>1
<1>4. m - 1 \in P /\ m - 1 \in 0..(n - 1) /\ m - 1 + 1 = m
  BY <1>2, <1>3
<1> QED BY <1>4

-----------------------------------------------------------------------------
(* What can be reached.                                                    *)

\* A set of lists that contains their elements.
Closed(m, X) == \A o \in X : ToSet(m.elems[o]) \subseteq X

AreWithin(f, m, S, n) ==
    f = [k \in 0..n |-> IF k = 0 THEN S ELSE f[k - 1] \cup ElementsOf(m, f[k - 1])]

\* The function in Closure exists.
LEMMA WithinExist ==
    ASSUME NEW m, NEW S, NEW n \in Nat
    PROVE  \E f : AreWithin(f, m, S, n)
<1> DEFINE P == {k \in Nat : \E f : AreWithin(f, m, S, k)}
<1>1. 0 \in P
  <2>1. AreWithin([k \in 0..0 |-> S], m, S, 0)
    BY DEF AreWithin
  <2> QED BY <2>1
<1>2. ASSUME NEW j \in 0..(n - 1), j \in P PROVE j + 1 \in P
  <2>1. PICK f : AreWithin(f, m, S, j)
    BY <1>2
  <2> DEFINE g == [k \in 0..j + 1 |-> IF k = j + 1 THEN f[j] \cup ElementsOf(m, f[j]) ELSE f[k]]
  <2>2. ASSUME NEW k \in 0..j + 1
        PROVE  g[k] = IF k = 0 THEN S ELSE g[k - 1] \cup ElementsOf(m, g[k - 1])
    <3>1. CASE k = j + 1
      <4>1. k # 0 /\ k - 1 = j /\ j \in 0..j + 1 /\ j # j + 1
        BY <3>1
      <4> QED BY <3>1, <4>1
    <3>2. CASE k # j + 1
      <4>1. k \in 0..j /\ (k # 0 => k - 1 \in 0..j + 1 /\ k - 1 # j + 1)
        BY <3>2
      <4>2. g[k] = f[k] /\ (k # 0 => g[k - 1] = f[k - 1])
        BY <3>2, <4>1
      <4> QED BY <2>1, <4>1, <4>2 DEF AreWithin
    <3> QED BY <3>1, <3>2
  <2>3. AreWithin(g, m, S, j + 1)
    BY <2>2 DEF AreWithin
  <2> QED BY <2>3
<1> HIDE DEF P
<1>3. n \in P
  BY <1>1, <1>2, UpTo
<1> QED BY <1>3 DEF P

\* One step of the closure.
LEMMA WithinStep ==
    ASSUME NEW f, NEW m, NEW S, NEW n \in Nat, AreWithin(f, m, S, n), NEW k \in 0..(n - 1)
    PROVE  f[k + 1] = f[k] \cup ElementsOf(m, f[k])
<1>1. PICK j \in 0..n : j = k + 1
  OBVIOUS
<1>2. j # 0 /\ j - 1 = k
  BY <1>1
<1>3. f[j] = f[j - 1] \cup ElementsOf(m, f[j - 1])
  BY <1>2 DEF AreWithin
<1> QED BY <1>1, <1>2, <1>3

\* There are finitely many lists.
LEMMA ObjCount == Cardinality(Obj) \in Nat
    BY FiniteAssumption, FS_CardinalityType

\* Closure is the last of its steps.
LEMMA ClosureIsLast ==
    ASSUME NEW m, NEW S
    PROVE  \E f : AreWithin(f, m, S, Cardinality(Obj)) /\ Closure(m, S) = f[Cardinality(Obj)]
<1> DEFINE n == Cardinality(Obj)
           within[k \in 0..n] ==
               IF k = 0 THEN S ELSE within[k - 1] \cup ElementsOf(m, within[k - 1])
<1>1. Closure(m, S) = within[n]
  BY DEF Closure
<1>2. AreWithin(within, m, S, n)
  <2>1. PICK f : AreWithin(f, m, S, n)
    BY WithinExist, ObjCount
  <2> QED BY <2>1 DEF AreWithin
<1> QED BY <1>1, <1>2

\* A closed set that contains S contains its closure.
LEMMA ClosureLeast ==
    ASSUME NEW m, NEW S, NEW X, S \subseteq X, Closed(m, X)
    PROVE  Closure(m, S) \subseteq X
<1> DEFINE n == Cardinality(Obj)
<1>1. PICK f : AreWithin(f, m, S, n) /\ Closure(m, S) = f[n]
  BY ClosureIsLast
<1>2. n \in Nat
  BY ObjCount
<1> HIDE DEF n
<1> DEFINE P == {k \in Nat : k <= n => f[k] \subseteq X}
<1>3. 0 \in P
  BY <1>1, <1>2 DEF AreWithin
<1>4. ASSUME NEW k \in 0..(n - 1), k \in P PROVE k + 1 \in P
  <2>1. f[k] \subseteq X
    BY <1>4, <1>2
  <2>2. f[k + 1] = f[k] \cup ElementsOf(m, f[k])
    BY <1>1, <1>2, WithinStep
  <2>3. ElementsOf(m, f[k]) \subseteq X
    BY <2>1 DEF ElementsOf, Closed
  <2>4. f[k + 1] \subseteq X
    BY <2>1, <2>2, <2>3
  <2> QED BY <2>4, <1>2
<1>5. n \in P
  <2> HIDE DEF P
  <2> QED BY <1>2, <1>3, <1>4, UpTo
<1> QED BY <1>1, <1>2, <1>5

\* The closure of a set is closed: as long as it is not, a step adds a list, and there
\* are as many steps as lists.
LEMMA ClosureIsClosed ==
    ASSUME NEW m \in Memory, NEW S \in SUBSET Obj
    PROVE  S \subseteq Closure(m, S) /\ Closure(m, S) \subseteq Obj /\ Closed(m, Closure(m, S))
<1> DEFINE n == Cardinality(Obj)
<1>1. PICK f : AreWithin(f, m, S, n) /\ Closure(m, S) = f[n]
  BY ClosureIsLast
<1>2. n \in Nat
  BY ObjCount
<1> DEFINE P == {k \in Nat : k <= n => /\ S \subseteq f[k] /\ f[k] \subseteq Obj
                                       /\ Closed(m, f[k]) \/ Cardinality(f[k]) >= k}
<1>3. ASSUME NEW X, X \subseteq Obj PROVE ElementsOf(m, X) \subseteq Obj
  BY <1>3 DEF ElementsOf, Memory, ToSet
<1>4. ASSUME NEW X, X \subseteq Obj PROVE IsFiniteSet(X) /\ Cardinality(X) \in Nat /\ Cardinality(X) <= n
  BY <1>4, FiniteAssumption, FS_Subset, FS_CardinalityType
<1>5. 0 \in P
  <2>1. f[0] = S
    BY <1>1, <1>2 DEF AreWithin
  <2>2. Cardinality(f[0]) \in Nat
    BY <2>1, <1>4
  <2> HIDE DEF n
  <2> QED BY <2>1, <2>2
<1>6. ASSUME NEW k \in 0..(n - 1), k \in P PROVE k + 1 \in P
  <2> HIDE DEF n
  <2>1. S \subseteq f[k] /\ f[k] \subseteq Obj /\ (Closed(m, f[k]) \/ Cardinality(f[k]) >= k)
    BY <1>6, <1>2
  <2>2. f[k + 1] = f[k] \cup ElementsOf(m, f[k])
    BY <1>1, <1>2, WithinStep
  <2>3. S \subseteq f[k + 1] /\ f[k + 1] \subseteq Obj
    BY <2>1, <2>2, <1>3
  <2>4. CASE Closed(m, f[k])
    <3>1. f[k + 1] = f[k]
      BY <2>2, <2>4 DEF Closed, ElementsOf
    <3> QED BY <3>1, <2>3, <2>4
  <2>5. CASE ~Closed(m, f[k])
    <3>1. f[k] # f[k + 1] /\ f[k] \subseteq f[k + 1]
      BY <2>2, <2>5 DEF Closed, ElementsOf
    <3>2. IsFiniteSet(f[k + 1]) /\ Cardinality(f[k]) \in Nat /\ Cardinality(f[k + 1]) \in Nat
      BY <2>1, <2>3, <1>4
    <3>3. Cardinality(f[k]) <= Cardinality(f[k + 1]) /\ Cardinality(f[k]) # Cardinality(f[k + 1])
      BY <3>1, <3>2, FS_Subset
    <3>4. Cardinality(f[k + 1]) >= k + 1
      BY <3>2, <3>3, <2>1, <2>5
    <3> QED BY <3>4, <2>3
  <2> QED BY <2>4, <2>5
<1>7. n \in P
  <2> HIDE DEF P, n
  <2> QED BY <1>2, <1>5, <1>6, UpTo
<1>8. S \subseteq f[n] /\ f[n] \subseteq Obj /\ (Closed(m, f[n]) \/ Cardinality(f[n]) >= n)
  BY <1>7, <1>2
<1>9. ASSUME Cardinality(f[n]) >= n PROVE Closed(m, f[n])
  <2>1. Cardinality(f[n]) = n
    <3> HIDE DEF n
    <3> QED BY <1>8, <1>4, <1>9, <1>2
  <2>2. f[n] = Obj
    BY <2>1, <1>8, FiniteAssumption, FS_Subset
  <2> QED BY <2>2 DEF Closed, Memory, ToSet
<1> QED BY <1>1, <1>8, <1>9

-----------------------------------------------------------------------------
(* What the steps of the collector's memory leave and change.              *)

\* A counter changes, and no other.
LEMMA PlusIs ==
    ASSUME NEW f \in [Obj -> Int], NEW o \in Obj, NEW k \in Int
    PROVE  /\ Plus(f, o, k) \in [Obj -> Int] /\ Plus(f, o, k)[o] = f[o] + k
           /\ \A p \in Obj \ {o} : Plus(f, o, k)[p] = f[p]
    BY DEF Plus

\* A value is replaced, and no other.
LEMMA PutIs ==
    ASSUME NEW R, NEW f \in [Obj -> R], NEW o \in Obj, NEW e \in R
    PROVE  /\ Put(f, o, e) \in [Obj -> R] /\ Put(f, o, e)[o] = e
           /\ \A p \in Obj \ {o} : Put(f, o, e)[p] = f[p]
    BY DEF Put

\* The same where the values are sequences of lists.
LEMMA PutList ==
    ASSUME NEW f \in [Obj -> Seq(Obj)], NEW o \in Obj, NEW e \in Seq(Obj)
    PROVE  /\ Put(f, o, e) \in [Obj -> Seq(Obj)] /\ Put(f, o, e)[o] = e
           /\ \A p \in Obj \ {o} : Put(f, o, e)[p] = f[p]
    BY DEF Put

SameLists(m, n) == n.alive = m.alive /\ n.elems = m.elems
SameTables(m, n) == n.table = m.table /\ n.recursive = m.recursive /\ n.collected = m.collected
SameStatus(m, n) == n.valid = m.valid /\ n.collecting = m.collecting /\ n.reused = m.reused

\* _ref counts one reference more and leaves the rest.
LEMMA RefIs ==
    ASSUME NEW m \in Memory, NEW o \in Obj
    PROVE  LET n == Ref(m, o)
           IN  /\ n \in Memory /\ SameLists(m, n) /\ SameTables(m, n) /\ SameStatus(m, n)
               /\ n.inter = m.inter /\ n.count = Plus(m.count, o, 1)
<1>1. Plus(m.count, o, 1) \in [Obj -> Int] /\ (m.broken \/ o \notin m.alive) \in BOOLEAN
  BY PlusIs DEF Memory
<1> QED BY <1>1 DEF Ref, Memory, SameLists, SameTables, SameStatus

Updated(m, S, tab) == (tab \ S) \cup {o \in S : m.count[o] > 0 /\ o \notin m.valid}

\* _gc_add changes the table in use and forgets that a list there was collected.
LEMMA NotedIs ==
    ASSUME NEW m \in Memory, NEW S \in SUBSET Obj
    PROVE  LET n == Noted(m, S)
           IN  /\ n \in Memory /\ SameLists(m, n) /\ SameStatus(m, n)
               /\ n.inter = m.inter /\ n.count = m.count /\ n.collected = m.collected \ S
               /\ n.table = IF m.collecting THEN m.table ELSE Updated(m, S, m.table)
               /\ n.recursive = IF m.collecting THEN Updated(m, S, m.recursive) ELSE m.recursive
<1> DEFINE tab == IF m.collecting THEN m.table ELSE Updated(m, S, m.table)
           rec == IF m.collecting THEN Updated(m, S, m.recursive) ELSE m.recursive
           col == m.collected \ S
           bro == m.broken \/ ~(S \subseteq m.alive)
<1>1. tab \in SUBSET Obj /\ rec \in SUBSET Obj /\ col \in SUBSET Obj /\ bro \in BOOLEAN
  BY DEF Memory, Updated
<1>2. Noted(m, S) = [m EXCEPT !.collected = col, !.table = tab, !.recursive = rec, !.broken = bro]
  BY DEF Noted, Updated
<1> HIDE DEF tab, rec, col, bro
<1>3. LET n == Noted(m, S)
      IN  /\ n \in Memory /\ SameLists(m, n) /\ SameStatus(m, n)
          /\ n.inter = m.inter /\ n.count = m.count /\ n.collected = col
          /\ n.table = tab /\ n.recursive = rec
  BY <1>1, <1>2 DEF Memory, SameLists, SameStatus
<1> QED BY <1>3 DEF tab, rec, col

\* _unref until the list is freed: a reference less, and the list noted.
LEMMA LostIs ==
    ASSUME NEW m \in Memory, NEW o \in Obj
    PROVE  LET n == Lost(m, o)
               put == IF m.count[o] > 1 /\ o \notin m.valid THEN {o} ELSE {}
           IN  /\ n \in Memory /\ SameLists(m, n) /\ SameStatus(m, n)
               /\ n.inter = IF m.count[o] > 1 \/ m.inter # o THEN m.inter ELSE Nil
               /\ n.count = Plus(m.count, o, -1) /\ n.collected = m.collected \ {o}
               /\ n.table = IF m.collecting THEN m.table ELSE (m.table \ {o}) \cup put
               /\ n.recursive = IF m.collecting THEN (m.recursive \ {o}) \cup put ELSE m.recursive
<1> DEFINE c == Plus(m.count, o, -1)
           k == [m EXCEPT !.count = c]
           less == Noted(k, {o})
           put == IF m.count[o] > 1 /\ o \notin m.valid THEN {o} ELSE {}
<1>1. c \in [Obj -> Int] /\ c[o] = m.count[o] - 1 /\ m.count[o] \in Int
  <2>1. m.count \in [Obj -> Int] /\ -1 \in Int
    BY DEF Memory
  <2>2. c \in [Obj -> Int] /\ c[o] = m.count[o] + (-1)
    BY <2>1, PlusIs
  <2>3. m.count[o] \in Int
    BY <2>1
  <2> HIDE DEF c
  <2> QED BY <2>2, <2>3
<1>2. /\ k \in Memory /\ SameLists(m, k) /\ SameStatus(m, k) /\ SameTables(m, k)
      /\ k.inter = m.inter /\ k.count = c
  <2> HIDE DEF c
  <2> QED BY <1>1 DEF Memory, SameLists, SameStatus, SameTables
<1>3. Lost(m, o) = IF m.count[o] > 1 \/ m.inter # o THEN less ELSE [less EXCEPT !.inter = Nil]
  BY DEF Lost
<1> HIDE DEF c, k
<1>4. /\ less \in Memory /\ SameLists(k, less) /\ SameStatus(k, less)
      /\ less.inter = k.inter /\ less.count = k.count /\ less.collected = k.collected \ {o}
      /\ less.table = IF k.collecting THEN k.table ELSE Updated(k, {o}, k.table)
      /\ less.recursive = IF k.collecting THEN Updated(k, {o}, k.recursive) ELSE k.recursive
  BY <1>2, NotedIs
<1> HIDE DEF less
<1>5. \A tab : Updated(k, {o}, tab) = (tab \ {o}) \cup put
  <2>1. {p \in {o} : k.count[p] > 0 /\ p \notin k.valid} = put
    BY <1>1, <1>2 DEF SameStatus
  <2> QED BY <2>1 DEF Updated
<1> HIDE DEF put
<1>6. /\ SameLists(m, less) /\ SameStatus(m, less)
      /\ less.inter = m.inter /\ less.count = c /\ less.collected = m.collected \ {o}
      /\ less.table = IF m.collecting THEN m.table ELSE (m.table \ {o}) \cup put
      /\ less.recursive = IF m.collecting THEN (m.recursive \ {o}) \cup put ELSE m.recursive
  BY <1>2, <1>4, <1>5 DEF SameLists, SameStatus, SameTables
<1>7. LET n == [less EXCEPT !.inter = Nil]
      IN  /\ n \in Memory /\ SameLists(less, n) /\ SameStatus(less, n) /\ SameTables(less, n)
          /\ n.inter = Nil /\ n.count = less.count
  BY <1>4 DEF Memory, SameLists, SameStatus, SameTables
<1>8. CASE m.count[o] > 1 \/ m.inter # o
  BY <1>3, <1>4, <1>6, <1>8 DEF c, put
<1>9. CASE ~(m.count[o] > 1 \/ m.inter # o)
  BY <1>3, <1>6, <1>7, <1>9 DEF c, put, SameLists, SameStatus, SameTables
<1> QED BY <1>8, <1>9

\* A list that is freed leaves everything but the table of the other pass.
LEMMA FreedIs ==
    ASSUME NEW m \in Memory, NEW o \in Obj
    PROVE  LET n == Freed(m, o)
           IN  /\ n \in Memory /\ SameStatus(m, n) /\ n.alive = m.alive \ {o}
               /\ n.elems = Put(m.elems, o, <<>>) /\ n.count = Put(m.count, o, 0)
               /\ n.inter = m.inter /\ n.collected = m.collected \cup {o}
               /\ n.table = IF m.collecting THEN m.table ELSE m.table \ {o}
               /\ n.recursive = IF m.collecting THEN m.recursive \ {o} ELSE m.recursive
<1> DEFINE tab == IF m.collecting THEN m.table ELSE m.table \ {o}
           rec == IF m.collecting THEN m.recursive \ {o} ELSE m.recursive
           els == Put(m.elems, o, <<>>)
           cnt == Put(m.count, o, 0)
           col == m.collected \cup {o}
           ali == m.alive \ {o}
<1>1. /\ tab \in SUBSET Obj /\ rec \in SUBSET Obj /\ col \in SUBSET Obj /\ ali \in SUBSET Obj
      /\ els \in [Obj -> Seq(Obj)] /\ cnt \in [Obj -> Int]
  <2>1. <<>> \in Seq(Obj) /\ m.elems \in [Obj -> Seq(Obj)] /\ m.count \in [Obj -> Int] /\ 0 \in Int
    BY DEF Memory
  <2>2. els \in [Obj -> Seq(Obj)] /\ cnt \in [Obj -> Int]
    BY <2>1, PutIs
  <2> QED BY <2>2 DEF Memory
<1>2. Freed(m, o) = [m EXCEPT !.alive = ali, !.count = cnt, !.elems = els, !.table = tab,
                              !.recursive = rec, !.collected = col]
  BY DEF Freed
<1> HIDE DEF tab, rec, col, els, cnt, ali
<1>3. LET n == Freed(m, o)
      IN  /\ n \in Memory /\ SameStatus(m, n) /\ n.alive = ali /\ n.elems = els /\ n.count = cnt
          /\ n.inter = m.inter /\ n.collected = col /\ n.table = tab /\ n.recursive = rec
  BY <1>1, <1>2 DEF Memory, SameStatus
<1> QED BY <1>3 DEF tab, rec, col, els, cnt, ali

-----------------------------------------------------------------------------
(* The calls of _unref.                                                    *)

AreRuns(f, m, s, n) ==
    f = [k \in 0..n |-> IF k = 0 THEN [mem |-> m, stack |-> UnrefCalls(s)]
                                 ELSE UnrefStep(f[k - 1])]

\* The function in UnrefEach exists.
LEMMA RunsExist ==
    ASSUME NEW m, NEW s, NEW n \in Nat
    PROVE  \E f : AreRuns(f, m, s, n)
<1> DEFINE P == {k \in Nat : \E f : AreRuns(f, m, s, k)}
<1>1. 0 \in P
  <2>1. AreRuns([k \in 0..0 |-> [mem |-> m, stack |-> UnrefCalls(s)]], m, s, 0)
    BY DEF AreRuns
  <2> QED BY <2>1
<1>2. ASSUME NEW j \in 0..(n - 1), j \in P PROVE j + 1 \in P
  <2>1. PICK f : AreRuns(f, m, s, j)
    BY <1>2
  <2> DEFINE g == [k \in 0..j + 1 |-> IF k = j + 1 THEN UnrefStep(f[j]) ELSE f[k]]
  <2>2. ASSUME NEW k \in 0..j + 1
        PROVE  g[k] = IF k = 0 THEN [mem |-> m, stack |-> UnrefCalls(s)] ELSE UnrefStep(g[k - 1])
    <3>1. CASE k = j + 1
      <4>1. k # 0 /\ k - 1 = j /\ j \in 0..j + 1 /\ j # j + 1
        BY <3>1
      <4> QED BY <3>1, <4>1
    <3>2. CASE k # j + 1
      <4>1. k \in 0..j /\ (k # 0 => k - 1 \in 0..j + 1 /\ k - 1 # j + 1)
        BY <3>2
      <4>2. g[k] = f[k] /\ (k # 0 => g[k - 1] = f[k - 1])
        BY <3>2, <4>1
      <4> QED BY <2>1, <4>1, <4>2 DEF AreRuns
    <3> QED BY <3>1, <3>2
  <2>3. AreRuns(g, m, s, j + 1)
    BY <2>2 DEF AreRuns
  <2> QED BY <2>3
<1> HIDE DEF P
<1>3. n \in P
  BY <1>1, <1>2, UpTo
<1> QED BY <1>3 DEF P

\* The calls under way, one step after the other.
LEMMA RunsStep ==
    ASSUME NEW f, NEW m, NEW s, NEW n \in Nat, AreRuns(f, m, s, n)
    PROVE  /\ f[0] = [mem |-> m, stack |-> UnrefCalls(s)]
           /\ \A k \in 0..(n - 1) : f[k + 1] = UnrefStep(f[k])
<1>1. f[0] = [mem |-> m, stack |-> UnrefCalls(s)]
  BY DEF AreRuns
<1>2. ASSUME NEW k \in 0..(n - 1) PROVE f[k + 1] = UnrefStep(f[k])
  <2>1. PICK j \in 0..n : j = k + 1
    OBVIOUS
  <2>2. j # 0 /\ j - 1 = k
    BY <2>1
  <2>3. f[j] = UnrefStep(f[j - 1])
    BY <2>2 DEF AreRuns
  <2> QED BY <2>1, <2>2, <2>3
<1> QED BY <1>1, <1>2

Calls(s) == Len(s) + Cardinality(Obj) * (MaxLen + 2)

\* What UnrefEach leaves is the memory after the last step.
LEMMA UnrefEachIsLast ==
    ASSUME NEW m, NEW s
    PROVE  Calls(s) \in Nat =>
               \E f : AreRuns(f, m, s, Calls(s)) /\ UnrefEach(m, s) = f[Calls(s)].mem
<1> DEFINE n == Calls(s)
           run[k \in 0..n] ==
               IF k = 0 THEN [mem |-> m, stack |-> UnrefCalls(s)] ELSE UnrefStep(run[k - 1])
<1>1. UnrefEach(m, s) = run[n].mem
  BY DEF UnrefEach, Calls
<1>2. ASSUME n \in Nat PROVE AreRuns(run, m, s, n)
  <2>1. PICK f : AreRuns(f, m, s, n)
    BY <1>2, RunsExist
  <2> QED BY <2>1 DEF AreRuns
<1> QED BY <1>1, <1>2

\* When no call is left, nothing happens any more.
LEMMA UnrefEnds ==
    ASSUME NEW m, NEW s, Calls(s) \in Nat, NEW k \in 0..Calls(s),
           \A f : AreRuns(f, m, s, Calls(s)) => f[k].stack = <<>>
    PROVE  \E f : AreRuns(f, m, s, Calls(s)) /\ UnrefEach(m, s) = f[k].mem
<1>1. PICK f : AreRuns(f, m, s, Calls(s)) /\ UnrefEach(m, s) = f[Calls(s)].mem
  BY UnrefEachIsLast
<1> DEFINE n == Calls(s)
           P == {j \in Nat : j >= k /\ j <= n => f[j] = f[k]}
<1> HIDE DEF n
<1>2. f[k].stack = <<>> /\ n \in Nat /\ k \in 0..n /\ AreRuns(f, m, s, n)
  BY <1>1 DEF n
<1>3. 0 \in P
  BY <1>2
<1>4. ASSUME NEW j \in 0..(n - 1), j \in P PROVE j + 1 \in P
  <2>1. CASE j >= k
    <3>1. f[j + 1] = UnrefStep(f[j])
      BY <1>2, RunsStep
    <3>2. f[j] = f[k]
      BY <1>2, <1>4, <2>1
    <3>3. f[j + 1] = f[k]
      BY <3>1, <3>2, <1>2 DEF UnrefStep
    <3> QED BY <3>3
  <2>2. CASE j < k
    <3>1. j + 1 >= k => j + 1 = k
      BY <2>2
    <3> QED BY <3>1
  <2> QED BY <2>1, <2>2, <1>2
<1>5. n \in P
  <2>1. n \in Nat
    BY <1>2
  <2> HIDE DEF P
  <2>2. \A j \in 0..(n - 1) : j \in P => j + 1 \in P
    BY <1>4
  <2>3. \A j \in 0..n : j \in P
    BY <2>1, <1>3, <2>2, UpTo
  <2> QED BY <2>1, <2>3
<1>6. f[n] = f[k]
  BY <1>5, <1>2
<1> QED BY <1>1, <1>6 DEF n

\* There are steps enough for the calls on the lists of s.
LEMMA CallsEnough ==
    ASSUME NEW s \in Seq(Obj)
    PROVE  Calls(s) \in Nat /\ Len(s) =< Calls(s) /\ (s # <<>> => Len(s) + 2 =< Calls(s))
<1>1. Cardinality(Obj) \in Nat /\ MaxLen \in Nat /\ Len(s) \in Nat
  BY ObjCount, BoundAssumption
<1>2. s # <<>> => Cardinality(Obj) >= 1
  <2>1. s # <<>> => s[1] \in Obj
    OBVIOUS
  <2>2. Cardinality(Obj) = 0 <=> Obj = {}
    BY FiniteAssumption, FS_EmptySet
  <2> QED BY <2>1, <2>2, <1>1
<1>3. \A a, b \in Nat : a * (b + 2) \in Nat /\ (a >= 1 => a * (b + 2) >= 2)
  <2> SUFFICES ASSUME NEW a \in Nat, NEW b \in Nat
               PROVE  a * (b + 2) \in Nat /\ (a >= 1 => a * (b + 2) >= 2)
    OBVIOUS
  <2>1. a * (b + 2) = a * b + a * 2 /\ a * b \in Nat
    OBVIOUS
  <2> QED BY <2>1
<1> HIDE DEF Cardinality
<1>4. PICK p \in Nat : p = Cardinality(Obj) * (MaxLen + 2) /\ (s # <<>> => p >= 2)
  BY <1>1, <1>2, <1>3
<1>5. Calls(s) = Len(s) + p
  BY <1>4 DEF Calls
<1> QED BY <1>1, <1>4, <1>5

Call == [list : Obj, returns : BOOLEAN]

\* A call on a list: the reference goes, and with the last one the list, after its elements.
LEMMA StepIs ==
    ASSUME NEW m, NEW stack \in Seq(Call), stack # <<>>
    PROVE  LET o == stack[1].list
               next == UnrefStep([mem |-> m, stack |-> stack])
           IN  /\ stack[1].returns => next = [mem |-> Freed(m, o), stack |-> Tail(stack)]
               /\ ~stack[1].returns /\ o \notin m.alive =>
                      next = [mem |-> [m EXCEPT !.broken = TRUE], stack |-> Tail(stack)]
               /\ ~stack[1].returns /\ o \in m.alive =>
                      next = [mem |-> Lost(m, o),
                              stack |-> IF m.count[o] > 1 THEN Tail(stack)
                                        ELSE UnrefCalls(m.elems[o]) \o <<UnrefReturn(o)>>
                                             \o Tail(stack)]
<1>1. Head(stack) = stack[1] /\ stack[1] \in Call
  OBVIOUS
<1>2. stack[1].returns \in BOOLEAN
  BY <1>1 DEF Call
<1> QED BY <1>1, <1>2 DEF UnrefStep

\* References that are not the last ones go one by one, or were lists already freed: J[k]
\* holds the memories there can be after k of them.
LEMMA EachDropped ==
    ASSUME NEW m \in Memory, NEW s \in Seq(Obj), NEW J, m \in J[0],
           \A k \in 0..(Len(s) - 1) : \A x \in J[k] :
               IF s[k + 1] \in x.alive
               THEN x.count[s[k + 1]] > 1 /\ Lost(x, s[k + 1]) \in J[k + 1]
               ELSE [x EXCEPT !.broken = TRUE] \in J[k + 1]
    PROVE  UnrefEach(m, s) \in J[Len(s)]
<1> DEFINE n == Len(s)
           Left(t, k) == /\ t \in Seq(Call) /\ Len(t) = n - k
                         /\ \A i \in 1..(n - k) : t[i] = UnrefCall(s[k + i])
           After(f, k) == f[k] = [mem |-> f[k].mem, stack |-> f[k].stack]
                          /\ f[k].mem \in J[k] /\ Left(f[k].stack, k)
<1>1. n \in Nat /\ Calls(s) \in Nat /\ n =< Calls(s)
  BY CallsEnough
<1> SUFFICES ASSUME NEW f, AreRuns(f, m, s, Calls(s)) PROVE After(f, n)
  <2>1. ASSUME NEW f, After(f, n) PROVE f[n].stack = <<>>
    BY <2>1, <1>1
  <2>2. n \in 0..Calls(s)
    BY <1>1
  <2>3. \A f : AreRuns(f, m, s, Calls(s)) => f[n].stack = <<>> /\ f[n].mem \in J[n]
    BY <2>1
  <2> HIDE DEF n
  <2>4. \A f : AreRuns(f, m, s, Calls(s)) => f[n].stack = <<>>
    BY <2>3
  <2>5. Calls(s) \in Nat
    BY <1>1
  <2>6. PICK f : AreRuns(f, m, s, Calls(s)) /\ UnrefEach(m, s) = f[n].mem
    BY <2>2, <2>4, <2>5, UnrefEnds
  <2> QED BY <2>3, <2>6 DEF n
<1>2. /\ f[0] = [mem |-> m, stack |-> UnrefCalls(s)]
      /\ \A k \in 0..(Calls(s) - 1) : f[k + 1] = UnrefStep(f[k])
  BY <1>1, RunsStep
<1>3. \A k \in 0..(n - 1) : f[k + 1] = UnrefStep(f[k])
  <2> HIDE DEF n
  <2> QED BY <1>1, <1>2
<1>4. After(f, 0)
  <2>1. UnrefCalls(s) \in Seq(Call) /\ Len(UnrefCalls(s)) = n
        /\ \A i \in 1..n : UnrefCalls(s)[i] = UnrefCall(s[i])
    BY DEF UnrefCalls, UnrefCall, Call
  <2>2. n - 0 = n /\ \A i \in 1..n : 0 + i = i
    BY <1>1
  <2> HIDE DEF n
  <2> QED BY <1>2, <2>1, <2>2
<1>5. ASSUME NEW k \in 0..(n - 1), After(f, k) PROVE After(f, k + 1)
  <2> DEFINE x == f[k].mem
             t == f[k].stack
             o == s[k + 1]
  <2>1. k + 1 \in 1..n /\ n - k >= 1 /\ n - (k + 1) = (n - k) - 1 /\ k \in Nat /\ n - k \in Nat
    BY <1>1
  <2>2. x \in J[k] /\ t \in Seq(Call) /\ Len(t) = n - k /\ \A i \in 1..(n - k) : t[i] = UnrefCall(s[k + i])
    BY <1>5
  <2>3. t # <<>> /\ t[1] = [list |-> o, returns |-> FALSE]
    <3>1. t[1] = UnrefCall(s[k + 1])
      BY <2>1, <2>2
    <3> QED BY <3>1, <2>1, <2>2 DEF UnrefCall
  <2>4. Left(Tail(t), k + 1)
    <3>1. Tail(t) \in Seq(Call) /\ Len(Tail(t)) = Len(t) - 1 /\ \A i \in 1..(Len(t) - 1) : Tail(t)[i] = t[i + 1]
      BY <2>2, <2>3
    <3> HIDE DEF n, t
    <3>2. ASSUME NEW i \in 1..(n - (k + 1)) PROVE Tail(t)[i] = UnrefCall(s[(k + 1) + i])
      <4>1. i \in 1..(Len(t) - 1) /\ i + 1 \in 1..(n - k) /\ k + (i + 1) = (k + 1) + i
        <5>1. n - (k + 1) = Len(t) - 1 /\ Len(t) = n - k /\ Len(t) \in Nat /\ k \in Nat
          BY <2>1, <2>2
        <5>2. i \in 1..(Len(t) - 1)
          BY <5>1
        <5>3. i + 1 \in 1..Len(t) /\ k + (i + 1) = (k + 1) + i
          BY <5>1, <5>2
        <5> QED BY <5>1, <5>2, <5>3
      <4>2. Tail(t)[i] = t[i + 1] /\ t[i + 1] = UnrefCall(s[k + (i + 1)])
        BY <4>1, <3>1, <2>2
      <4> QED BY <4>1, <4>2
    <3> QED BY <3>1, <3>2, <2>1, <2>2
  <2>5. f[k + 1] = UnrefStep([mem |-> x, stack |-> t])
    BY <1>3, <1>5
  <2>6. IF o \in x.alive THEN x.count[o] > 1 /\ Lost(x, o) \in J[k + 1]
                         ELSE [x EXCEPT !.broken = TRUE] \in J[k + 1]
    BY <2>2
  <2>7. f[k + 1] = IF o \in x.alive THEN [mem |-> Lost(x, o), stack |-> Tail(t)]
                   ELSE [mem |-> [x EXCEPT !.broken = TRUE], stack |-> Tail(t)]
    <3> HIDE DEF t, x, o
    <3>1. t[1].list = o /\ ~t[1].returns /\ t \in Seq(Call) /\ t # <<>>
      BY <2>2, <2>3
    <3>2. CASE o \notin x.alive
      BY <2>5, <3>1, <3>2, StepIs
    <3>3. CASE o \in x.alive
      BY <2>5, <2>6, <3>1, <3>3, StepIs
    <3> QED BY <3>2, <3>3
  <2>8. PICK y : y \in J[k + 1] /\ f[k + 1] = [mem |-> y, stack |-> Tail(t)]
    <3> HIDE DEF x, t, o, n
    <3> QED BY <2>6, <2>7
  <2>9. f[k + 1].mem = y /\ f[k + 1].stack = Tail(t)
    <3> HIDE DEF t
    <3> QED BY <2>8
  <2> HIDE DEF x, t, o, Left, n
  <2> QED BY <2>4, <2>8, <2>9
<1> DEFINE P == {k \in Nat : k =< n => After(f, k)}
<1>6. 0 \in P
  BY <1>4
<1>7. \A k \in 0..(n - 1) : k \in P => k + 1 \in P
  <2> SUFFICES ASSUME NEW k \in 0..(n - 1), k \in P PROVE k + 1 \in P
    OBVIOUS
  <2> HIDE DEF After, n
  <2>1. k =< n /\ k + 1 \in Nat
    BY <1>1
  <2>2. After(f, k)
    BY <2>1
  <2>3. After(f, k + 1)
    BY <2>2, <1>5
  <2> QED BY <2>1, <2>3
<1>8. n \in P
  <2> HIDE DEF P, n
  <2>1. \A k \in 0..n : k \in P
    BY <1>1, <1>6, <1>7, UpTo
  <2> QED BY <2>1, <1>1
<1> HIDE DEF After
<1> QED BY <1>8, <1>1

\* A call on a list that is there takes a reference.
LEMMA StepLost ==
    ASSUME NEW m, NEW o, NEW rest, NEW stack \in Seq(Call), stack # <<>>,
           stack[1] = UnrefCall(o), Tail(stack) = rest, o \in m.alive
    PROVE  UnrefStep([mem |-> m, stack |-> stack]) =
               [mem |-> Lost(m, o),
                stack |-> IF m.count[o] > 1 THEN rest
                          ELSE UnrefCalls(m.elems[o]) \o <<UnrefReturn(o)>> \o rest]
<1>1. stack[1].list = o /\ ~stack[1].returns
  BY DEF UnrefCall
<1> QED BY <1>1, StepIs

\* The last call on a list frees it.
LEMMA StepFreed ==
    ASSUME NEW m, NEW o, NEW rest, NEW stack \in Seq(Call), stack # <<>>,
           stack[1] = UnrefReturn(o), Tail(stack) = rest
    PROVE  UnrefStep([mem |-> m, stack |-> stack]) = [mem |-> Freed(m, o), stack |-> rest]
<1>1. stack[1].list = o /\ stack[1].returns
  BY DEF UnrefReturn
<1> QED BY <1>1, StepIs

\* The stacks of calls that one list of at most one element leads to.
LEMMA StacksAre ==
    ASSUME NEW o \in Obj, NEW e \in Obj
    PROVE  /\ UnrefCalls(<<>>) \o <<UnrefReturn(o)>> \o <<>> = <<UnrefReturn(o)>>
           /\ UnrefCalls(<<e>>) \o <<UnrefReturn(o)>> \o <<>> = <<UnrefCall(e), UnrefReturn(o)>>
           /\ <<UnrefCall(o)>> \in Seq(Call) /\ Tail(<<UnrefCall(o)>>) = <<>>
           /\ <<UnrefReturn(o)>> \in Seq(Call) /\ Tail(<<UnrefReturn(o)>>) = <<>>
           /\ <<UnrefCall(e), UnrefReturn(o)>> \in Seq(Call)
           /\ Tail(<<UnrefCall(e), UnrefReturn(o)>>) = <<UnrefReturn(o)>>
<1>1. UnrefCall(o) \in Call /\ UnrefCall(e) \in Call /\ UnrefReturn(o) \in Call
  BY DEF Call, UnrefCall, UnrefReturn
<1>2. UnrefCalls(<<>>) = <<>> /\ UnrefCalls(<<e>>) = <<UnrefCall(e)>>
  BY DEF UnrefCalls
<1>3. \A a, b \in Call : /\ <<>> \o <<b>> \o <<>> = <<b>> /\ <<a>> \o <<b>> \o <<>> = <<a, b>>
                         /\ <<a>> \in Seq(Call) /\ Tail(<<a>>) = <<>>
                         /\ <<a, b>> \in Seq(Call) /\ Tail(<<a, b>>) = <<b>>
  <2> HIDE DEF Call
  <2> SUFFICES ASSUME NEW a \in Call, NEW b \in Call
               PROVE  /\ <<>> \o <<b>> \o <<>> = <<b>> /\ <<a>> \o <<b>> \o <<>> = <<a, b>>
                      /\ <<a>> \in Seq(Call) /\ Tail(<<a>>) = <<>>
                      /\ <<a, b>> \in Seq(Call) /\ Tail(<<a, b>>) = <<b>>
    OBVIOUS
  <2>1. <<>> \o <<b>> \o <<>> = <<b>>
    OBVIOUS
  <2>2. <<a>> \o <<b>> \o <<>> = <<a, b>>
    <3>1. <<a>> \o <<b>> = <<a, b>>
      <4>1. <<a>> \in Seq(Call) /\ <<b>> \in Seq(Call) /\ Len(<<a>>) = 1 /\ Len(<<b>>) = 1
        OBVIOUS
      <4>2. <<a>> \o <<b>> \in Seq(Call) /\ Len(<<a>> \o <<b>>) = 2
            /\ (<<a>> \o <<b>>)[1] = a /\ (<<a>> \o <<b>>)[2] = b
        BY <4>1
      <4>3. <<a, b>> \in Seq(Call) /\ Len(<<a, b>>) = 2 /\ <<a, b>>[1] = a /\ <<a, b>>[2] = b
        OBVIOUS
      <4> DEFINE u == <<a>> \o <<b>>
                 v == <<a, b>>
      <4>4. u \in Seq(Call) /\ v \in Seq(Call) /\ Len(u) = 2 /\ Len(v) = 2 /\ u[1] = v[1] /\ u[2] = v[2]
        BY <4>2, <4>3
      <4> HIDE DEF u, v
      <4>5. u = v
        BY <4>4, SeqEqual
      <4> QED BY <4>5 DEF u, v
    <3>2. <<a, b>> \o <<>> = <<a, b>>
      OBVIOUS
    <3> QED BY <3>1, <3>2
  <2>3. <<a>> \in Seq(Call) /\ Tail(<<a>>) = <<>>
    OBVIOUS
  <2>4. <<a, b>> \in Seq(Call) /\ Tail(<<a, b>>) = <<b>>
    OBVIOUS
  <2> QED BY <2>1, <2>2, <2>3, <2>4
<1> QED BY <1>1, <1>2, <1>3

\* The last reference to a list: its elements go, and then the list.
LEMMA StepLast ==
    ASSUME NEW m \in Memory, NEW o \in m.alive, ~(m.count[o] > 1)
    PROVE  UnrefStep([mem |-> m, stack |-> <<UnrefCall(o)>>]) =
               [mem |-> Lost(m, o), stack |-> UnrefCalls(m.elems[o]) \o <<UnrefReturn(o)>> \o <<>>]
<1> DEFINE first == <<UnrefCall(o)>>
<1>1. first \in Seq(Call) /\ first # <<>> /\ first[1] = UnrefCall(o) /\ Tail(first) = <<>>
  BY StacksAre DEF Memory
<1> HIDE DEF first
<1>2. UnrefStep([mem |-> m, stack |-> first])
        = [mem |-> Lost(m, o), stack |-> IF m.count[o] > 1 THEN <<>>
             ELSE UnrefCalls(m.elems[o]) \o <<UnrefReturn(o)>> \o <<>>]
  BY <1>1, StepLost
<1> QED BY <1>2 DEF first

\* A reference that is not the last one.
LEMMA UnrefPlain ==
    ASSUME NEW m \in Memory, NEW o \in m.alive, m.count[o] > 1
    PROVE  Unref(m, o) = Lost(m, o)
<1> DEFINE s == <<o>>
           J == [k \in {0, 1} |-> IF k = 0 THEN {m} ELSE {Lost(m, o)}]
<1>1. o \in Obj
  BY DEF Memory
<1>2. s \in Seq(Obj) /\ Len(s) = 1 /\ s[1] = o
  BY <1>1
<1>3. J[0] = {m} /\ J[1] = {Lost(m, o)}
  OBVIOUS
<1> HIDE DEF s, J
<1>4. ASSUME NEW k \in 0..(Len(s) - 1), NEW x \in J[k]
      PROVE  IF s[k + 1] \in x.alive
             THEN x.count[s[k + 1]] > 1 /\ Lost(x, s[k + 1]) \in J[k + 1]
             ELSE [x EXCEPT !.broken = TRUE] \in J[k + 1]
  <2>1. k = 0 /\ k + 1 = 1
    BY <1>2
  <2> QED BY <2>1, <1>2, <1>3
<1>5. UnrefEach(m, s) \in J[Len(s)]
  <2>1. m \in J[0]
    BY <1>3
  <2> QED BY <2>1, <1>2, <1>4, EachDropped
<1> QED BY <1>2, <1>3, <1>5 DEF Unref, s

\* The calls of _unref on one list, as far as they matter below.
LEMMA UnrefRuns ==
    ASSUME NEW m \in Memory, NEW o \in Obj, NEW k \in 1..3,
           \A f : /\ f[0] = [mem |-> m, stack |-> <<UnrefCall(o)>>]
                  /\ \A j \in 0..(k - 1) : f[j + 1] = UnrefStep(f[j])
                  => f[k].stack = <<>>
    PROVE  \E f : /\ f[0] = [mem |-> m, stack |-> <<UnrefCall(o)>>]
                  /\ \A j \in 0..(k - 1) : f[j + 1] = UnrefStep(f[j])
                  /\ Unref(m, o) = f[k].mem
<1> DEFINE s == <<o>>
<1>1. s \in Seq(Obj) /\ Len(s) = 1 /\ s # <<>>
  OBVIOUS
<1>2. UnrefCalls(s) = <<UnrefCall(o)>>
  BY DEF UnrefCalls
<1> HIDE DEF s
<1>3. Calls(s) \in Nat /\ 3 =< Calls(s)
  BY <1>1, CallsEnough
<1>4. \A f : AreRuns(f, m, s, Calls(s)) =>
                /\ f[0] = [mem |-> m, stack |-> <<UnrefCall(o)>>]
                /\ \A j \in 0..(k - 1) : f[j + 1] = UnrefStep(f[j])
  <2> SUFFICES ASSUME NEW f, AreRuns(f, m, s, Calls(s))
               PROVE  /\ f[0] = [mem |-> m, stack |-> <<UnrefCall(o)>>]
                      /\ \A j \in 0..(k - 1) : f[j + 1] = UnrefStep(f[j])
    OBVIOUS
  <2>1. Calls(s) \in Nat
    BY <1>3
  <2>2. /\ f[0] = [mem |-> m, stack |-> UnrefCalls(s)]
        /\ \A j \in 0..(Calls(s) - 1) : f[j + 1] = UnrefStep(f[j])
    BY <2>1, RunsStep
  <2>3. \A j \in 0..(k - 1) : j \in 0..(Calls(s) - 1)
    BY <1>3
  <2> QED BY <2>2, <2>3, <1>2
<1>5. \A f : AreRuns(f, m, s, Calls(s)) => f[k].stack = <<>>
  BY <1>4
<1>6. k \in 0..Calls(s) /\ Calls(s) \in Nat
  BY <1>3
<1>7. PICK f : AreRuns(f, m, s, Calls(s)) /\ UnrefEach(m, s) = f[k].mem
  BY <1>5, <1>6, UnrefEnds
<1> QED BY <1>4, <1>7 DEF Unref, s

\* The last reference to an empty list.
LEMMA UnrefEmpty ==
    ASSUME NEW m \in Memory, NEW o \in m.alive, ~(m.count[o] > 1), m.elems[o] = <<>>
    PROVE  Unref(m, o) = Freed(Lost(m, o), o)
<1> DEFINE Starts(f) == /\ f[0] = [mem |-> m, stack |-> <<UnrefCall(o)>>]
                        /\ \A j \in 0..1 : f[j + 1] = UnrefStep(f[j])
<1>1. o \in Obj
  BY DEF Memory
<1>2. ASSUME NEW f, Starts(f)
      PROVE  f[2] = [mem |-> Freed(Lost(m, o), o), stack |-> <<>>]
  <2>1. f[1] = UnrefStep([mem |-> m, stack |-> <<UnrefCall(o)>>]) /\ f[2] = UnrefStep(f[1])
    <3>1. f[0 + 1] = UnrefStep(f[0]) /\ f[1 + 1] = UnrefStep(f[1])
      BY <1>2
    <3> QED BY <3>1, <1>2
  <2> DEFINE first == <<UnrefCall(o)>>
             second == <<UnrefReturn(o)>>
  <2>2. /\ first \in Seq(Call) /\ first # <<>> /\ first[1] = UnrefCall(o) /\ Tail(first) = <<>>
        /\ second \in Seq(Call) /\ second # <<>> /\ second[1] = UnrefReturn(o) /\ Tail(second) = <<>>
    BY <1>1, StacksAre
  <2>3. UnrefCalls(m.elems[o]) \o <<UnrefReturn(o)>> \o <<>> = second
    BY <1>1, StacksAre
  <2> HIDE DEF first, second
  <2>4. f[1] = [mem |-> Lost(m, o), stack |-> second]
    BY <2>1, <2>3, StepLast
  <2>5. UnrefStep([mem |-> Lost(m, o), stack |-> second]) = [mem |-> Freed(Lost(m, o), o), stack |-> <<>>]
    BY <2>2, StepFreed
  <2> QED BY <2>1, <2>4, <2>5
<1>3. \A f : Starts(f) => f[2].stack = <<>>
  BY <1>2
<1>4. PICK f : Starts(f) /\ Unref(m, o) = f[2].mem
  <2>1. 2 \in 1..3 /\ 2 - 1 = 1
    OBVIOUS
  <2> QED BY <2>1, <1>1, <1>3, UnrefRuns
<1> QED BY <1>2, <1>4

\* The last reference to a list of one element, which loses one as well.
LEMMA UnrefOne ==
    ASSUME NEW m \in Memory, NEW o \in m.alive, ~(m.count[o] > 1), NEW e \in Obj,
           m.elems[o] = <<e>>, e \in Lost(m, o).alive, Lost(m, o).count[e] > 1
    PROVE  Unref(m, o) = Freed(Lost(Lost(m, o), e), o)
<1> DEFINE Starts(f) == /\ f[0] = [mem |-> m, stack |-> <<UnrefCall(o)>>]
                        /\ \A j \in 0..2 : f[j + 1] = UnrefStep(f[j])
<1>1. o \in Obj
  BY DEF Memory
<1>2. ASSUME NEW f, Starts(f)
      PROVE  f[3] = [mem |-> Freed(Lost(Lost(m, o), e), o), stack |-> <<>>]
  <2>1. /\ f[1] = UnrefStep([mem |-> m, stack |-> <<UnrefCall(o)>>])
        /\ f[2] = UnrefStep(f[1]) /\ f[3] = UnrefStep(f[2])
    <3>1. f[0 + 1] = UnrefStep(f[0]) /\ f[1 + 1] = UnrefStep(f[1]) /\ f[2 + 1] = UnrefStep(f[2])
      BY <1>2
    <3> QED BY <3>1, <1>2
  <2> DEFINE first == <<UnrefCall(o)>>
             second == <<UnrefCall(e), UnrefReturn(o)>>
             third == <<UnrefReturn(o)>>
             less == Lost(m, o)
  <2>2. /\ first \in Seq(Call) /\ first # <<>> /\ first[1] = UnrefCall(o) /\ Tail(first) = <<>>
        /\ second \in Seq(Call) /\ second # <<>> /\ second[1] = UnrefCall(e) /\ Tail(second) = third
        /\ third \in Seq(Call) /\ third # <<>> /\ third[1] = UnrefReturn(o) /\ Tail(third) = <<>>
    BY <1>1, StacksAre
  <2>3. UnrefCalls(m.elems[o]) \o <<UnrefReturn(o)>> \o <<>> = second
    BY <1>1, StacksAre
  <2> HIDE DEF first, second, third
  <2>4. f[1] = [mem |-> less, stack |-> second]
    BY <2>1, <2>3, StepLast
  <2>5. f[2] = [mem |-> Lost(less, e), stack |-> third]
    <3> DEFINE other == UnrefCalls(less.elems[e]) \o <<UnrefReturn(e)>> \o third
    <3>1. UnrefStep([mem |-> less, stack |-> second])
            = [mem |-> Lost(less, e), stack |-> IF less.count[e] > 1 THEN third ELSE other]
      BY <2>2, StepLost
    <3> HIDE DEF other
    <3> QED BY <2>1, <2>4, <3>1
  <2>6. UnrefStep([mem |-> Lost(less, e), stack |-> third])
          = [mem |-> Freed(Lost(less, e), o), stack |-> <<>>]
    BY <2>2, StepFreed
  <2> QED BY <2>1, <2>5, <2>6
<1>3. \A f : Starts(f) => f[3].stack = <<>>
  BY <1>2
<1>4. PICK f : Starts(f) /\ Unref(m, o) = f[3].mem
  <2>1. 3 \in 1..3 /\ 3 - 1 = 2
    OBVIOUS
  <2> QED BY <2>1, <1>1, <1>3, UnrefRuns
<1> QED BY <1>2, <1>4

-----------------------------------------------------------------------------
(* The invariant.                                                          *)

\* The places of a list that hold o, and all places of the lists in H that do.
Places(s, o) == {i \in DOMAIN s : s[i] = o}
HeldBy(H, m, o) == UNION {{c} \X Places(m.elems[c], o) : c \in H}

\* More references are counted than the program's own (owe), the intermediate value and
\* the lists in H account for.
Intermediate(m, o) == IF m.inter = o THEN 1 ELSE 0
Backed(m, H, owe, o) ==
    m.count[o] > owe[o] + Intermediate(m, o) + Cardinality(HeldBy(H, m, o))

\* A list a statement made, and nobody took.
Temporary(m, H, owe, o) ==
    /\ m.inter = o /\ o \in H
    /\ m.count[o] = 1 /\ owe[o] = 0 /\ HeldBy(H, m, o) = {}
    /\ Len(m.elems[o]) =< 1

Ledger(m, H, owe, S) ==
    /\ H \subseteq m.alive /\ Closed(m, H)
    /\ \A o \in Obj : IsFiniteSet(HeldBy(H, m, o))
    /\ \A o \in m.alive \ S : Backed(m, H, owe, o) \/ Temporary(m, H, owe, o)

Tidy(m) ==
    /\ m.inter \in m.alive \cup {Nil}
    /\ \A o \in Obj \ m.alive : m.elems[o] = <<>> /\ m.count[o] = 0
    /\ m.table \cup m.recursive \subseteq m.alive \ m.collected
    /\ m.reused \/ m.collected \cap m.alive = {}

Sources(m, T) == T \cup m.table \cup m.recursive \cup ({m.inter} \ {Nil})
KnownFrom(m, T) ==
    m.reused \/ \A X \in SUBSET Obj : Closed(m, X) /\ Sources(m, T) \subseteq X => m.alive \subseteq X

Idle(m) == ~m.collecting /\ m.valid = {} /\ m.recursive = {}

Typed(m, owe, T) == m \in Memory /\ owe \in [Obj -> Nat] /\ T \subseteq Obj
SoundBut(m, H, owe, T, S) ==
    Typed(m, owe, T) /\ Idle(m) /\ Tidy(m) /\ Ledger(m, H, owe, S) /\ KnownFrom(m, T)
Sound(m, H, owe, T) == SoundBut(m, H, owe, T, {})

-----------------------------------------------------------------------------
(* Counting.                                                               *)

\* The places of a list in another can be counted.
LEMMA PlacesFinite ==
    ASSUME NEW s \in Seq(Obj), NEW o
    PROVE  IsFiniteSet(Places(s, o)) /\ Cardinality(Places(s, o)) \in Nat
<1>1. Places(s, o) \subseteq 1..Len(s) /\ Len(s) \in Int
  BY DEF Places
<1>2. IsFiniteSet(1..Len(s))
  BY <1>1, FS_Interval
<1> QED BY <1>1, <1>2, FS_Subset, FS_CardinalityType

\* One place more, if it is o that is appended.
LEMMA PlacesAppend ==
    ASSUME NEW s \in Seq(Obj), NEW e \in Obj, NEW o \in Obj
    PROVE  Cardinality(Places(Append(s, e), o))
               = Cardinality(Places(s, o)) + IF e = o THEN 1 ELSE 0
<1> DEFINE t == Append(s, e)
           n == Len(s)
<1>1. n \in Nat /\ DOMAIN t = 1..(n + 1) /\ DOMAIN s = 1..n
      /\ t[n + 1] = e /\ \A i \in 1..n : t[i] = s[i]
  OBVIOUS
<1> HIDE DEF t, n
<1>2. n + 1 \notin Places(s, o) /\ 1..(n + 1) = (1..n) \cup {n + 1}
  BY <1>1 DEF Places
<1>3. e = o => Places(t, o) = Places(s, o) \cup {n + 1}
  BY <1>1, <1>2 DEF Places
<1>4. e # o => Places(t, o) = Places(s, o)
  BY <1>1, <1>2 DEF Places
<1>5. IsFiniteSet(Places(s, o)) /\ Cardinality(Places(s, o)) \in Nat
  BY PlacesFinite
<1>6. Cardinality(Places(s, o) \cup {n + 1}) = Cardinality(Places(s, o)) + 1
  BY <1>2, <1>5, FS_AddElement
<1>7. Cardinality(Places(t, o)) = Cardinality(Places(s, o)) + IF e = o THEN 1 ELSE 0
  <2>1. CASE e = o
    BY <2>1, <1>3, <1>6
  <2>2. CASE e # o
    BY <2>2, <1>4, <1>5
  <2> QED BY <2>1, <2>2
<1> QED BY <1>7 DEF t

\* In no list, one or two.
LEMMA PlacesFew ==
    ASSUME NEW o \in Obj
    PROVE  /\ Places(<<>>, o) = {} /\ Cardinality(Places(<<>>, o)) = 0
           /\ \A e \in Obj : Cardinality(Places(<<e>>, o)) = IF e = o THEN 1 ELSE 0
           /\ \A e, c \in Obj : Cardinality(Places(<<e, c>>, o))
                                  = (IF e = o THEN 1 ELSE 0) + IF c = o THEN 1 ELSE 0
<1>1. Places(<<>>, o) = {} /\ Cardinality(Places(<<>>, o)) = 0
  BY FS_EmptySet DEF Places
<1>2. ASSUME NEW e \in Obj PROVE Cardinality(Places(<<e>>, o)) = IF e = o THEN 1 ELSE 0
  <2>1. <<e>> = Append(<<>>, e) /\ <<>> \in Seq(Obj)
    OBVIOUS
  <2>2. Cardinality(Places(Append(<<>>, e), o)) = 0 + IF e = o THEN 1 ELSE 0
    BY <1>1, <2>1, PlacesAppend
  <2> QED BY <2>1, <2>2
<1>3. ASSUME NEW e \in Obj, NEW c \in Obj
      PROVE Cardinality(Places(<<e, c>>, o)) = (IF e = o THEN 1 ELSE 0) + IF c = o THEN 1 ELSE 0
  <2>1. <<e, c>> = Append(<<e>>, c) /\ <<e>> \in Seq(Obj)
    OBVIOUS
  <2>2. Cardinality(Places(Append(<<e>>, c), o)) = Cardinality(Places(<<e>>, o)) + IF c = o THEN 1 ELSE 0
    BY <2>1, PlacesAppend
  <2> QED BY <1>2, <2>1, <2>2
<1> QED BY <1>1, <1>2, <1>3

\* The last place of a list.
LEMMA PlacesFront ==
    ASSUME NEW s \in Seq(Obj), s # <<>>, NEW o \in Obj
    PROVE  /\ Front(s) \in Seq(Obj) /\ Last(s) \in Obj /\ ToSet(s) = ToSet(Front(s)) \cup {Last(s)}
           /\ Cardinality(Places(s, o)) = Cardinality(Places(Front(s), o)) + IF Last(s) = o THEN 1 ELSE 0
<1> DEFINE n == Len(s)
           t == SubSeq(s, 1, n - 1)
           e == s[n]
<1>1. n \in Nat /\ n >= 1 /\ DOMAIN s = 1..n
  OBVIOUS
<1>2. Front(s) = t /\ Last(s) = e
  BY DEF Front, Last
<1>3. t \in Seq(Obj) /\ Len(t) = n - 1 /\ e \in Obj /\ \A i \in 1..(n - 1) : t[i] = s[i]
  BY <1>1
<1>4. s = Append(t, e)
  <2> DEFINE u == Append(t, e)
  <2>1. u \in Seq(Obj) /\ Len(u) = n /\ u[n] = e /\ \A i \in 1..(n - 1) : u[i] = t[i]
    <3> HIDE DEF t, e, n
    <3> QED BY <1>1, <1>3
  <2> HIDE DEF u, t
  <2>2. \A i \in 1..Len(s) : s[i] = u[i]
    BY <1>1, <1>3, <2>1
  <2>3. s = u
    BY <2>1, <2>2, SeqEqual
  <2> QED BY <2>3 DEF u
<1>5. ToSet(s) = ToSet(t) \cup {e}
  <2>1. DOMAIN t = 1..(n - 1) /\ 1..n = (1..(n - 1)) \cup {n}
    <3> HIDE DEF t
    <3> QED BY <1>1, <1>3
  <2> HIDE DEF t
  <2> QED BY <1>1, <1>3, <2>1 DEF ToSet
<1>6. Cardinality(Places(Append(t, e), o)) = Cardinality(Places(t, o)) + IF e = o THEN 1 ELSE 0
  <2> HIDE DEF t, e
  <2> QED BY <1>3, PlacesAppend
<1> HIDE DEF t, e, n
<1>7. Cardinality(Places(s, o)) = Cardinality(Places(t, o)) + IF e = o THEN 1 ELSE 0
  BY <1>4, <1>6
<1> QED BY <1>2, <1>3, <1>5, <1>7

\* What is held, by element.
LEMMA HeldByIs ==
    ASSUME NEW H, NEW m, NEW o
    PROVE  \A p : p \in HeldBy(H, m, o) <=> \E c \in H : \E i \in Places(m.elems[c], o) : p = <<c, i>>
    BY DEF HeldBy

\* Fewer lists hold no more.
LEMMA HeldBySmaller ==
    ASSUME NEW H, NEW m, NEW o, IsFiniteSet(HeldBy(H, m, o)),
           NEW K, K \subseteq H, NEW n, \A c \in K : n.elems[c] = m.elems[c]
    PROVE  /\ HeldBy(K, n, o) \subseteq HeldBy(H, m, o) /\ IsFiniteSet(HeldBy(K, n, o))
           /\ Cardinality(HeldBy(K, n, o)) \in Nat /\ Cardinality(HeldBy(H, m, o)) \in Nat
           /\ Cardinality(HeldBy(K, n, o)) =< Cardinality(HeldBy(H, m, o))
<1>1. HeldBy(K, n, o) \subseteq HeldBy(H, m, o)
  BY HeldByIs
<1> QED BY <1>1, FS_Subset, FS_CardinalityType

\* What a list more holds.
LEMMA HeldByMore ==
    ASSUME NEW A, NEW m, NEW o, IsFiniteSet(HeldBy(A, m, o)), NEW c, c \notin A,
           m.elems[c] \in Seq(Obj)
    PROVE  /\ IsFiniteSet(HeldBy(A \cup {c}, m, o)) /\ Cardinality(HeldBy(A, m, o)) \in Nat
           /\ Cardinality(HeldBy(A \cup {c}, m, o))
                  = Cardinality(HeldBy(A, m, o)) + Cardinality(Places(m.elems[c], o))
<1> DEFINE P == Places(m.elems[c], o)
           C == {c} \X P
<1>1. HeldBy(A \cup {c}, m, o) = HeldBy(A, m, o) \cup C
  BY DEF HeldBy
<1>2. HeldBy(A, m, o) \cap C = {}
  BY HeldByIs
<1>3. IsFiniteSet(P) /\ Cardinality(P) \in Nat
  BY PlacesFinite
<1>4. IsFiniteSet(C) /\ Cardinality(C) = Cardinality(P)
  <2>1. IsFiniteSet({c}) /\ Cardinality({c}) = 1
    BY FS_Singleton
  <2> HIDE DEF P
  <2>2. IsFiniteSet({c} \X P) /\ Cardinality({c} \X P) = Cardinality({c}) * Cardinality(P)
    BY <1>3, <2>1, FS_Product
  <2> QED BY <1>3, <2>1, <2>2
<1>5. Cardinality(HeldBy(A, m, o)) \in Nat
  BY FS_CardinalityType
<1> HIDE DEF C, P
<1>6. /\ IsFiniteSet(HeldBy(A, m, o) \cup C)
      /\ Cardinality(HeldBy(A, m, o) \cup C) = Cardinality(HeldBy(A, m, o)) + Cardinality(C) - Cardinality({})
  BY <1>2, <1>4, FS_Union
<1>7. Cardinality({}) = 0
  BY FS_EmptySet
<1>8. Cardinality(HeldBy(A, m, o) \cup C) = Cardinality(HeldBy(A, m, o)) + Cardinality(P)
  BY <1>3, <1>4, <1>5, <1>6, <1>7
<1>9. /\ IsFiniteSet(HeldBy(A \cup {c}, m, o))
      /\ Cardinality(HeldBy(A \cup {c}, m, o)) = Cardinality(HeldBy(A, m, o)) + Cardinality(P)
  BY <1>1, <1>6, <1>8
<1> QED BY <1>5, <1>9 DEF P

\* What the lists hold when one has other elements.
LEMMA HeldByRelisted ==
    ASSUME NEW H \in SUBSET Obj, NEW m \in Memory, NEW o, IsFiniteSet(HeldBy(H, m, o)),
           NEW c \in H, NEW t \in Seq(Obj), NEW n, n.elems = Put(m.elems, c, t)
    PROVE  /\ IsFiniteSet(HeldBy(H, n, o))
           /\ Cardinality(HeldBy(H, n, o)) \in Nat /\ Cardinality(HeldBy(H, m, o)) \in Nat
           /\ Cardinality(HeldBy(H, n, o)) + Cardinality(Places(m.elems[c], o))
                  = Cardinality(HeldBy(H, m, o)) + Cardinality(Places(t, o))
<1> DEFINE A == H \ {c}
<1>1. m.elems \in [Obj -> Seq(Obj)]
  BY DEF Memory
<1>2. n.elems[c] = t /\ \A p \in Obj \ {c} : n.elems[p] = m.elems[p]
  BY <1>1, PutList
<1>3. \A p \in A : p \in Obj \ {c}
  OBVIOUS
<1>4. IsFiniteSet(HeldBy(A, m, o)) /\ IsFiniteSet(HeldBy(A, n, o))
  <2>1. A \subseteq H /\ (\A p \in A : m.elems[p] = m.elems[p]) /\ \A p \in A : n.elems[p] = m.elems[p]
    BY <1>2, <1>3
  <2> HIDE DEF A
  <2>2. IsFiniteSet(HeldBy(A, m, o))
    BY <2>1, HeldBySmaller
  <2>3. IsFiniteSet(HeldBy(A, n, o))
    BY <2>1, HeldBySmaller
  <2> QED BY <2>2, <2>3
<1>5. HeldBy(A, n, o) = HeldBy(A, m, o)
  BY <1>2, <1>3 DEF HeldBy
<1>6. A \cup {c} = H /\ c \notin A /\ m.elems[c] \in Seq(Obj) /\ n.elems[c] \in Seq(Obj)
  BY <1>1, <1>2
<1> HIDE DEF A
<1>7. /\ IsFiniteSet(HeldBy(H, n, o)) /\ Cardinality(HeldBy(A, n, o)) \in Nat
      /\ Cardinality(HeldBy(H, n, o)) = Cardinality(HeldBy(A, n, o)) + Cardinality(Places(t, o))
  BY <1>2, <1>4, <1>6, HeldByMore
<1>8. Cardinality(HeldBy(H, m, o)) = Cardinality(HeldBy(A, m, o)) + Cardinality(Places(m.elems[c], o))
  BY <1>4, <1>6, HeldByMore
<1>9. Cardinality(Places(t, o)) \in Nat /\ Cardinality(Places(m.elems[c], o)) \in Nat
  BY <1>6, PlacesFinite
<1> QED BY <1>5, <1>7, <1>8, <1>9

\* An element is held, and what is not held is no element.
LEMMA ElementHeld ==
    ASSUME NEW H, NEW m \in Memory, NEW o, IsFiniteSet(HeldBy(H, m, o)), NEW c \in H, c \in Obj
    PROVE  /\ o \in ToSet(m.elems[c]) => HeldBy(H, m, o) # {} /\ Cardinality(HeldBy(H, m, o)) >= 1
           /\ HeldBy(H, m, o) = {} => Places(m.elems[c], o) = {}
<1>1. ASSUME o \in ToSet(m.elems[c]) PROVE Places(m.elems[c], o) # {}
  BY <1>1 DEF ToSet, Places
<1>2. ASSUME NEW i \in Places(m.elems[c], o) PROVE <<c, i>> \in HeldBy(H, m, o)
  BY HeldByIs
<1>3. HeldBy(H, m, o) # {} => Cardinality(HeldBy(H, m, o)) >= 1
  BY FS_CardinalityType, FS_EmptySet
<1> QED BY <1>1, <1>2, <1>3

-----------------------------------------------------------------------------
(* What is known.                                                          *)

\* What was known stays known, if the elements of what was freed and what elements and
\* sources are no longer there can still be reached.
LostNothing(m, T, n, U, gone, B) ==
    /\ m.reused => n.reused
    /\ \A o \in Obj \ m.alive : m.elems[o] = <<>>
    /\ n.alive \cap gone = {} /\ n.alive \subseteq m.alive \cup B
    /\ n.reused \/ \A X \in SUBSET Obj : Closed(n, X) /\ Sources(n, U) \subseteq X => B \subseteq X
    /\ n.reused \/ Sources(m, T) \cap m.alive \subseteq B \cup gone
    /\ n.reused \/ \A o \in m.alive \ gone :
           ToSet(m.elems[o]) \cap m.alive \subseteq ToSet(n.elems[o]) \cup B \cup gone
    /\ n.reused \/ \A o \in gone : ToSet(m.elems[o]) \cap m.alive \subseteq B \cup gone

\* With X closed under the new elements, X and what is gone are closed under the old ones.
LEMMA KnownStep ==
    ASSUME NEW m \in Memory, NEW n \in Memory, NEW T \in SUBSET Obj, NEW U \in SUBSET Obj,
           KnownFrom(m, T), NEW gone \in SUBSET Obj, NEW B \in SUBSET Obj,
           LostNothing(m, T, n, U, gone, B)
    PROVE  KnownFrom(n, U)
<1> SUFFICES ASSUME ~n.reused, NEW X \in SUBSET Obj, Closed(n, X), Sources(n, U) \subseteq X
             PROVE  n.alive \subseteq X
  BY DEF KnownFrom
<1> DEFINE Y == X \cup gone \cup (Obj \ m.alive)
<1>1. B \subseteq X
  BY DEF LostNothing
<1>2. ASSUME NEW o \in Y PROVE ToSet(m.elems[o]) \subseteq Y
  <2>1. ToSet(m.elems[o]) \subseteq Obj
    BY DEF Memory, ToSet
  <2>2. CASE o \notin m.alive
    <3>1. m.elems[o] = <<>> /\ ToSet(<<>>) = {}
      BY <2>2 DEF ToSet, LostNothing
    <3> QED BY <3>1
  <2>3. CASE o \in gone
    BY <2>1, <2>3, <1>1 DEF LostNothing
  <2>4. CASE o \in X /\ o \in m.alive /\ o \notin gone
    <3>1. ToSet(n.elems[o]) \subseteq X
      BY <2>4 DEF Closed
    <3> QED BY <3>1, <2>1, <2>4, <1>1 DEF LostNothing
  <2> QED BY <2>2, <2>3, <2>4
<1>3. Closed(m, Y)
  BY <1>2 DEF Closed
<1>4. Sources(m, T) \subseteq Y
  <2>1. Sources(m, T) \subseteq Obj
    BY DEF Sources, Memory
  <2> QED BY <1>1, <2>1 DEF LostNothing
<1>5. m.alive \subseteq Y
  BY <1>3, <1>4 DEF KnownFrom, LostNothing
<1> QED BY <1>1, <1>5 DEF LostNothing

\* The same where no list and no element changes.
LEMMA KnownSame ==
    ASSUME NEW m \in Memory, NEW n \in Memory, NEW T \in SUBSET Obj, NEW U \in SUBSET Obj,
           KnownFrom(m, T), SameLists(m, n), m.reused => n.reused,
           \A o \in Obj \ m.alive : m.elems[o] = <<>>,
           Sources(m, T) \cap m.alive \subseteq Sources(n, U)
    PROVE  KnownFrom(n, U)
<1> DEFINE B == Sources(n, U)
           gone == {}
<1>1. B \in SUBSET Obj
  BY DEF Sources, Memory
<1>2. n.alive = m.alive /\ n.elems = m.elems
  BY DEF SameLists
<1>3. gone \in SUBSET Obj /\ LostNothing(m, T, n, U, gone, B)
  BY <1>2 DEF LostNothing
<1> HIDE DEF B, gone
<1> QED BY <1>1, <1>3, KnownStep

-----------------------------------------------------------------------------
(* The steps of statements keep the books.                                 *)

\* A counter of the program stays a number.
LEMMA PlusNat ==
    ASSUME NEW owe \in [Obj -> Nat], NEW o \in Obj, NEW k \in Int, owe[o] + k >= 0
    PROVE  /\ Plus(owe, o, k) \in [Obj -> Nat] /\ Plus(owe, o, k)[o] = owe[o] + k
           /\ \A p \in Obj \ {o} : Plus(owe, o, k)[p] = owe[p]
    BY DEF Plus

\* The references to a list that the books do not explain, but for the lists that hold it.
Margin(m, owe, o) == m.count[o] - owe[o] - Intermediate(m, o)

\* A list is backed if its margin exceeds what the lists in H hold, and then is not temporary.
LEMMA BackedIs ==
    ASSUME NEW m \in Memory, NEW H, NEW owe \in [Obj -> Nat], NEW o \in Obj,
           IsFiniteSet(HeldBy(H, m, o))
    PROVE  /\ Backed(m, H, owe, o) <=> Margin(m, owe, o) > Cardinality(HeldBy(H, m, o))
           /\ Cardinality(HeldBy(H, m, o)) \in Nat /\ Margin(m, owe, o) \in Int
           /\ Backed(m, H, owe, o) => m.count[o] > owe[o] /\ ~Temporary(m, H, owe, o)
<1>1. m.count[o] \in Int /\ owe[o] \in Nat /\ Intermediate(m, o) \in {0, 1}
  BY DEF Memory, Intermediate
<1>2. Cardinality(HeldBy(H, m, o)) \in Nat
  BY FS_CardinalityType
<1>3. Temporary(m, H, owe, o) => m.count[o] = 1 /\ Intermediate(m, o) = 1
  BY DEF Temporary, Intermediate
<1> QED BY <1>1, <1>2, <1>3 DEF Backed, Margin

\* The same lists and elements, and no margin smaller.
LEMMA LedgerSame ==
    ASSUME NEW m \in Memory, NEW n \in Memory, SameLists(m, n), NEW H \in SUBSET Obj, NEW S,
           NEW owe \in [Obj -> Nat], NEW due \in [Obj -> Nat], Ledger(m, H, owe, S),
           \A g \in m.alive : Margin(n, due, g) >= Margin(m, owe, g),
           \A g \in m.alive : Temporary(m, H, owe, g) =>
               \/ n.inter = g /\ n.count[g] = 1 /\ due[g] = 0
               \/ Backed(n, H, due, g)
    PROVE  Ledger(n, H, due, S) /\ \A g \in m.alive : Backed(m, H, owe, g) => Backed(n, H, due, g)
<1>1. n.alive = m.alive /\ n.elems = m.elems /\ m.alive \subseteq Obj
  BY DEF SameLists, Memory
<1>2. \A g : HeldBy(H, n, g) = HeldBy(H, m, g)
  BY <1>1 DEF HeldBy
<1>3. \A g \in Obj : IsFiniteSet(HeldBy(H, m, g))
  BY DEF Ledger
<1>4. ASSUME NEW g \in m.alive, Backed(m, H, owe, g) PROVE Backed(n, H, due, g)
  <2>1. g \in Obj /\ IsFiniteSet(HeldBy(H, n, g)) /\ IsFiniteSet(HeldBy(H, m, g))
    BY <1>1, <1>2, <1>3
  <2>2. Margin(m, owe, g) > Cardinality(HeldBy(H, m, g)) /\ Margin(m, owe, g) \in Int
        /\ Cardinality(HeldBy(H, m, g)) \in Nat
    BY <2>1, <1>4, BackedIs
  <2>3. Margin(n, due, g) > Cardinality(HeldBy(H, n, g)) <=> Backed(n, H, due, g)
    BY <2>1, BackedIs
  <2>4. Margin(n, due, g) \in Int /\ Margin(n, due, g) >= Margin(m, owe, g)
    BY <2>1, BackedIs
  <2> QED BY <2>2, <2>3, <2>4, <1>2
<1>5. ASSUME NEW g \in n.alive \ S PROVE Backed(n, H, due, g) \/ Temporary(n, H, due, g)
  <2>1. Backed(m, H, owe, g) \/ Temporary(m, H, owe, g)
    BY <1>1, <1>5 DEF Ledger
  <2>2. CASE Temporary(m, H, owe, g)
    BY <2>2, <1>1, <1>2 DEF Temporary
  <2> QED BY <2>1, <2>2, <1>1, <1>4
<1>6. H \subseteq n.alive /\ Closed(n, H) /\ \A g \in Obj : IsFiniteSet(HeldBy(H, n, g))
  BY <1>1, <1>2, <1>3 DEF Ledger, Closed
<1> QED BY <1>4, <1>5, <1>6 DEF Ledger

\* What the program refers to is backed.
LEMMA OwedIsBacked ==
    ASSUME NEW m, NEW H, NEW owe, NEW T, Sound(m, H, owe, T), NEW o \in m.alive, owe[o] >= 1
    PROVE  Backed(m, H, owe, o)
<1>1. owe[o] # 0
  BY DEF Sound, SoundBut, Typed, Memory
<1> QED BY <1>1 DEF Sound, SoundBut, Ledger, Temporary

\* And so is every element.
LEMMA ElementIsBacked ==
    ASSUME NEW m, NEW H, NEW owe, NEW T, Sound(m, H, owe, T), NEW c \in H,
           NEW e \in ToSet(m.elems[c])
    PROVE  e \in H /\ e \in m.alive /\ e \in Obj /\ Backed(m, H, owe, e)
<1>1. e \in H /\ e \in m.alive
  BY DEF Sound, SoundBut, Ledger, Closed
<1>2. e \in Obj /\ c \in Obj /\ m \in Memory
  BY <1>1 DEF Sound, SoundBut, Ledger, Typed, Memory
<1>3. HeldBy(H, m, e) # {}
  BY <1>2, ElementHeld DEF Sound, SoundBut, Ledger
<1> QED BY <1>1, <1>2, <1>3 DEF Sound, SoundBut, Ledger, Temporary

\* A smaller account, and more sources, are as good.
LEMMA SoundWiden ==
    ASSUME NEW m, NEW H, NEW owe, NEW T, Sound(m, H, owe, T),
           NEW due \in [Obj -> Nat], \A g \in Obj : due[g] =< owe[g],
           NEW U \in SUBSET Obj, T \cap m.alive \subseteq Sources(m, U)
    PROVE  Sound(m, H, due, U) /\ \A g \in m.alive : Backed(m, H, owe, g) => Backed(m, H, due, g)
<1>1. m \in Memory /\ owe \in [Obj -> Nat] /\ H \in SUBSET Obj /\ T \in SUBSET Obj /\ m.alive \subseteq Obj
  BY DEF Sound, SoundBut, Typed, Ledger, Memory
<1>2. SameLists(m, m) /\ Ledger(m, H, owe, {})
  BY DEF SameLists, Sound, SoundBut
<1>3. \A g \in m.alive : Margin(m, due, g) >= Margin(m, owe, g)
  <2> SUFFICES ASSUME NEW g \in m.alive PROVE Margin(m, due, g) >= Margin(m, owe, g)
    OBVIOUS
  <2>1. m.count[g] \in Int /\ owe[g] \in Nat /\ due[g] \in Nat /\ Intermediate(m, g) \in {0, 1} /\ due[g] =< owe[g]
    BY <1>1 DEF Memory, Intermediate
  <2> QED BY <2>1 DEF Margin
<1>4. \A g \in m.alive : Temporary(m, H, owe, g) => m.inter = g /\ m.count[g] = 1 /\ due[g] = 0
  <2> SUFFICES ASSUME NEW g \in m.alive, Temporary(m, H, owe, g) PROVE due[g] = 0 /\ m.inter = g /\ m.count[g] = 1
    OBVIOUS
  <2>1. owe[g] = 0 /\ due[g] \in Nat /\ due[g] =< owe[g]
    BY <1>1 DEF Temporary
  <2> QED BY <2>1 DEF Temporary
<1>5. Ledger(m, H, due, {}) /\ \A g \in m.alive : Backed(m, H, owe, g) => Backed(m, H, due, g)
  BY <1>1, <1>2, <1>3, <1>4, LedgerSame
<1>6. KnownFrom(m, U)
  <2>1. KnownFrom(m, T) /\ \A g \in Obj \ m.alive : m.elems[g] = <<>>
    BY DEF Sound, SoundBut, Tidy
  <2>2. Sources(m, T) \cap m.alive \subseteq Sources(m, U)
    BY DEF Sources
  <2> QED BY <1>1, <1>2, <2>1, <2>2, KnownSame
<1> QED BY <1>1, <1>5, <1>6 DEF Sound, SoundBut, Typed

\* What a step that changes no list leaves.
Alike(m, H, owe, n, due) ==
    SameLists(m, n) /\ \A g \in m.alive : Backed(m, H, owe, g) => Backed(n, H, due, g)

\* _ref of a backed list.
LEMMA SoundRef ==
    ASSUME NEW m, NEW H, NEW owe, NEW T, Sound(m, H, owe, T), NEW o \in m.alive, Backed(m, H, owe, o)
    PROVE  /\ Sound(Ref(m, o), H, Plus(owe, o, 1), T) /\ Ref(m, o).inter = m.inter
           /\ Alike(m, H, owe, Ref(m, o), Plus(owe, o, 1))
<1> DEFINE n == Ref(m, o)
           due == Plus(owe, o, 1)
<1>1. m \in Memory /\ owe \in [Obj -> Nat] /\ H \in SUBSET Obj /\ T \in SUBSET Obj /\ o \in Obj /\ m.alive \subseteq Obj
  BY DEF Sound, SoundBut, Typed, Ledger, Memory
<1>2. n \in Memory /\ SameLists(m, n) /\ SameTables(m, n) /\ SameStatus(m, n)
      /\ n.inter = m.inter /\ n.count = Plus(m.count, o, 1)
  BY <1>1, RefIs
<1>3. due \in [Obj -> Nat] /\ due[o] = owe[o] + 1 /\ \A p \in Obj \ {o} : due[p] = owe[p]
  BY <1>1, PlusNat
<1>4. m.count \in [Obj -> Int]
  BY <1>1 DEF Memory
<1>5. n.count[o] = m.count[o] + 1 /\ \A p \in Obj \ {o} : n.count[p] = m.count[p]
  <2>1. Plus(m.count, o, 1)[o] = m.count[o] + 1 /\ \A p \in Obj \ {o} : Plus(m.count, o, 1)[p] = m.count[p]
    <3>1. 1 \in Int
      OBVIOUS
    <3> QED BY <1>1, <1>4, <3>1, PlusIs
  <2> HIDE DEF n
  <2> QED BY <1>2, <2>1
<1> HIDE DEF n, due
<1>6. ASSUME NEW g \in m.alive PROVE Margin(n, due, g) >= Margin(m, owe, g)
  <2>1. m.count[g] \in Int /\ owe[g] \in Nat /\ Intermediate(m, g) \in {0, 1} /\ Intermediate(n, g) = Intermediate(m, g)
    BY <1>1, <1>2, <1>4 DEF Intermediate
  <2>2. (n.count[g] = m.count[g] + 1 /\ due[g] = owe[g] + 1) \/ (n.count[g] = m.count[g] /\ due[g] = owe[g])
    BY <1>1, <1>3, <1>5
  <2> QED BY <2>1, <2>2 DEF Margin
<1>7. ASSUME NEW g \in m.alive, Temporary(m, H, owe, g) PROVE n.inter = g /\ n.count[g] = 1 /\ due[g] = 0
  <2>1. IsFiniteSet(HeldBy(H, m, o))
    BY <1>1 DEF Sound, SoundBut, Ledger
  <2>2. ~Temporary(m, H, owe, o)
    BY <1>1, <2>1, BackedIs
  <2>3. g # o /\ g \in Obj
    BY <1>7, <2>2, <1>1
  <2> QED BY <1>7, <2>3, <1>2, <1>3, <1>5 DEF Temporary
<1>8. Ledger(n, H, due, {}) /\ \A g \in m.alive : Backed(m, H, owe, g) => Backed(n, H, due, g)
  <2>1. Ledger(m, H, owe, {})
    BY DEF Sound, SoundBut
  <2> QED BY <1>1, <1>2, <1>3, <1>6, <1>7, <2>1, LedgerSame
<1>9. Tidy(n) /\ Idle(n)
  <2>1. Tidy(m) /\ Idle(m)
    BY DEF Sound, SoundBut
  <2>2. \A g \in Obj \ m.alive : n.count[g] = m.count[g]
    BY <1>5
  <2> QED BY <2>1, <2>2, <1>2 DEF Tidy, Idle, SameLists, SameTables, SameStatus
<1>10. KnownFrom(n, T)
  <2>1. KnownFrom(m, T) /\ (\A g \in Obj \ m.alive : m.elems[g] = <<>>) /\ (m.reused => n.reused)
    BY <1>2 DEF Sound, SoundBut, Tidy, SameStatus
  <2>2. Sources(m, T) \cap m.alive \subseteq Sources(n, T)
    BY <1>2 DEF Sources, SameTables
  <2> QED BY <1>1, <1>2, <2>1, <2>2, KnownSame
<1> QED BY <1>1, <1>2, <1>3, <1>8, <1>9, <1>10 DEF Sound, SoundBut, Typed, Alike, n, due

\* Another intermediate value changes nothing else.
LEMMA InterIs ==
    ASSUME NEW m \in Memory, NEW i \in Obj \cup {Nil}
    PROVE  LET n == [m EXCEPT !.inter = i]
           IN  /\ n \in Memory /\ SameLists(m, n) /\ SameTables(m, n) /\ SameStatus(m, n)
               /\ n.inter = i /\ n.count = m.count
    BY DEF Memory, SameLists, SameTables, SameStatus

\* A reference goes that is not the last one: one of the program, or that of the
\* intermediate value, which is none any more.
GivenBack(m, o, owe, n, due) ==
    \/ n = Lost(m, o) /\ due = Plus(owe, o, -1) /\ owe[o] >= 1
    \/ n = [Lost(m, o) EXCEPT !.inter = Nil] /\ due = owe /\ m.inter = o

\* The list is noted.
LEMMA LostKeeps ==
    ASSUME NEW m, NEW H, NEW owe, NEW T, NEW S, SoundBut(m, H, owe, T, S),
           NEW o \in m.alive, Backed(m, H, owe, o), m.count[o] > 1,
           NEW U \in SUBSET Obj, T \subseteq U \cup {o}, NEW n, NEW due, GivenBack(m, o, owe, n, due)
    PROVE  /\ SoundBut(n, H, due, U, S) /\ Alike(m, H, owe, n, due)
           /\ n = Lost(m, o) => n.inter = m.inter
           /\ o \in n.table /\ \A g \in m.alive : g # o => n.count[g] = m.count[g]
<1>1. m \in Memory /\ owe \in [Obj -> Nat] /\ H \in SUBSET Obj /\ T \in SUBSET Obj /\ o \in Obj /\ m.alive \subseteq Obj
  BY DEF SoundBut, Typed, Ledger, Memory
<1>2. m.count \in [Obj -> Int] /\ ~m.collecting /\ m.valid = {} /\ m.recursive = {}
  BY <1>1 DEF Memory, SoundBut, Idle
<1>3. ~Temporary(m, H, owe, o)
  <2>1. IsFiniteSet(HeldBy(H, m, o))
    BY <1>1 DEF SoundBut, Ledger
  <2> QED BY <1>1, <2>1, BackedIs
<1> DEFINE l == Lost(m, o)
<1>4. /\ l \in Memory /\ SameLists(m, l) /\ SameStatus(m, l) /\ l.inter = m.inter
      /\ l.count = Plus(m.count, o, -1) /\ l.collected = m.collected \ {o}
      /\ l.table = m.table \cup {o} /\ l.recursive = {}
  <2>1. /\ l \in Memory /\ SameLists(m, l) /\ SameStatus(m, l) /\ l.inter = m.inter
        /\ l.count = Plus(m.count, o, -1) /\ l.collected = m.collected \ {o}
    BY <1>1, LostIs
  <2>2. l.table = (m.table \ {o}) \cup {o} /\ l.recursive = m.recursive
    BY <1>1, <1>2, LostIs
  <2> QED BY <1>2, <2>1, <2>2
<1> HIDE DEF l
<1>5. /\ n \in Memory /\ SameLists(m, n) /\ SameStatus(m, n)
      /\ n.count = Plus(m.count, o, -1) /\ n.collected = m.collected \ {o}
      /\ n.table = m.table \cup {o} /\ n.recursive = {}
      /\ \/ n = l /\ n.inter = m.inter /\ due = Plus(owe, o, -1) /\ owe[o] >= 1
         \/ n.inter = Nil /\ due = owe /\ m.inter = o
  <2>1. CASE n = l /\ due = Plus(owe, o, -1) /\ owe[o] >= 1
    BY <1>4, <2>1
  <2>2. CASE n = [l EXCEPT !.inter = Nil] /\ due = owe /\ m.inter = o
    <3>1. n \in Memory /\ SameLists(l, n) /\ SameTables(l, n) /\ SameStatus(l, n) /\ n.inter = Nil /\ n.count = l.count
      BY <1>4, <2>2, InterIs
    <3> QED BY <1>4, <2>2, <3>1 DEF SameLists, SameTables, SameStatus
  <2> QED BY <2>1, <2>2 DEF GivenBack, l
<1>6. due \in [Obj -> Nat] /\ \A p \in Obj \ {o} : due[p] = owe[p]
  <2>1. CASE due = Plus(owe, o, -1) /\ owe[o] >= 1
    <3>1. -1 \in Int /\ owe[o] \in Nat /\ owe[o] + (-1) >= 0
      BY <1>1, <2>1
    <3> QED BY <1>1, <2>1, <3>1, PlusNat
  <2> QED BY <1>1, <1>5, <2>1
<1>7. n.count[o] = m.count[o] - 1 /\ \A p \in Obj \ {o} : n.count[p] = m.count[p]
  <2>1. -1 \in Int /\ m.count[o] \in Int
    BY <1>1, <1>2
  <2>2. /\ Plus(m.count, o, -1)[o] = m.count[o] + (-1)
        /\ \A p \in Obj \ {o} : Plus(m.count, o, -1)[p] = m.count[p]
    BY <1>1, <1>2, <2>1, PlusIs
  <2> QED BY <1>5, <2>1, <2>2
<1>8. (due[o] = owe[o] - 1 /\ Intermediate(n, o) = Intermediate(m, o))
      \/ (due[o] = owe[o] /\ Intermediate(n, o) = Intermediate(m, o) - 1)
  <2>1. CASE due = Plus(owe, o, -1) /\ owe[o] >= 1 /\ n.inter = m.inter
    <3>1. -1 \in Int /\ owe[o] \in Nat /\ owe[o] + (-1) >= 0
      BY <1>1, <2>1
    <3>2. due[o] = owe[o] + (-1)
      BY <1>1, <2>1, <3>1, PlusNat
    <3> QED BY <2>1, <3>1, <3>2 DEF Intermediate
  <2>2. CASE due = owe /\ m.inter = o /\ n.inter = Nil
    <3>1. o # Nil
      BY <1>1, ThresholdAssumption
    <3> QED BY <2>2, <3>1 DEF Intermediate
  <2> QED BY <1>5, <2>1, <2>2
<1>9. ASSUME NEW g \in m.alive PROVE Margin(n, due, g) >= Margin(m, owe, g)
  <2>1. g \in Obj /\ m.count[g] \in Int /\ owe[g] \in Nat /\ Intermediate(m, g) \in {0, 1}
    BY <1>1, <1>2 DEF Intermediate
  <2>2. CASE g = o
    BY <2>1, <2>2, <1>7, <1>8 DEF Margin
  <2>3. CASE g # o
    <3>1. Intermediate(n, g) = Intermediate(m, g)
      BY <1>5, <2>1, <2>3, ThresholdAssumption DEF Intermediate
    <3> QED BY <2>1, <2>3, <3>1, <1>6, <1>7 DEF Margin
  <2> QED BY <2>2, <2>3
<1>10. ASSUME NEW g \in m.alive, Temporary(m, H, owe, g) PROVE n.inter = g /\ n.count[g] = 1 /\ due[g] = 0
  <2>1. g # o /\ g \in Obj /\ m.inter = g
    BY <1>10, <1>3, <1>1 DEF Temporary
  <2> QED BY <1>10, <2>1, <1>5, <1>6, <1>7 DEF Temporary
<1>11. Ledger(n, H, due, S) /\ \A g \in m.alive : Backed(m, H, owe, g) => Backed(n, H, due, g)
  <2>1. Ledger(m, H, owe, S)
    BY DEF SoundBut
  <2> QED BY <1>1, <1>5, <1>6, <1>9, <1>10, <2>1, LedgerSame
<1>12. Tidy(n) /\ Idle(n)
  <2>1. Tidy(m)
    BY DEF SoundBut
  <2>2. \A g \in Obj \ m.alive : n.count[g] = m.count[g]
    BY <1>7
  <2>3. n.alive = m.alive /\ n.elems = m.elems /\ n.valid = {} /\ ~n.collecting /\ (m.reused => n.reused)
    BY <1>2, <1>5 DEF SameLists, SameStatus
  <2>4. n.table \cup n.recursive \subseteq n.alive \ n.collected /\ n.inter \in n.alive \cup {Nil}
    BY <2>1, <2>3, <1>5 DEF Tidy
  <2>5. n.reused \/ n.collected \cap n.alive = {}
    BY <2>1, <2>3, <1>5 DEF Tidy
  <2> QED BY <2>1, <2>2, <2>3, <2>4, <2>5, <1>5 DEF Tidy, Idle
<1>13. KnownFrom(n, U)
  <2>1. KnownFrom(m, T) /\ (\A g \in Obj \ m.alive : m.elems[g] = <<>>) /\ (m.reused => n.reused)
    BY <1>5 DEF SoundBut, Tidy, SameStatus
  <2>2. Sources(m, T) \cap m.alive \subseteq Sources(n, U)
    BY <1>2, <1>5 DEF Sources
  <2> QED BY <1>1, <1>5, <2>1, <2>2, KnownSame
<1>14. /\ n = Lost(m, o) => n.inter = m.inter
       /\ o \in n.table /\ \A g \in m.alive : g # o => n.count[g] = m.count[g]
  BY <1>1, <1>4, <1>5, <1>7 DEF l
<1> QED BY <1>1, <1>5, <1>6, <1>11, <1>12, <1>13, <1>14 DEF SoundBut, Typed, Alike

\* _unref of a list the program refers to.
LEMMA SoundLost ==
    ASSUME NEW m, NEW H, NEW owe, NEW T, Sound(m, H, owe, T), NEW o \in m.alive, owe[o] >= 1,
           NEW U \in SUBSET Obj, T \subseteq U \cup {o}
    PROVE  /\ m.count[o] > 1 /\ Lost(m, o).inter = m.inter
           /\ Sound(Lost(m, o), H, Plus(owe, o, -1), U) /\ Alike(m, H, owe, Lost(m, o), Plus(owe, o, -1))
<1>1. m \in Memory /\ owe \in [Obj -> Nat] /\ o \in Obj /\ IsFiniteSet(HeldBy(H, m, o))
  BY DEF Sound, SoundBut, Typed, Ledger, Memory
<1>2. Backed(m, H, owe, o)
  BY OwedIsBacked
<1>3. m.count[o] > 1
  <2>1. m.count[o] > owe[o]
    BY <1>1, <1>2, BackedIs
  <2>2. m.count[o] \in Int /\ owe[o] \in Nat
    BY <1>1 DEF Memory
  <2> QED BY <2>1, <2>2
<1> DEFINE n == Lost(m, o)
           due == Plus(owe, o, -1)
<1>4. GivenBack(m, o, owe, n, due) /\ SoundBut(m, H, owe, T, {})
  BY DEF GivenBack, Sound
<1> HIDE DEF n, due
<1>5. SoundBut(n, H, due, U, {}) /\ Alike(m, H, owe, n, due) /\ (n = Lost(m, o) => n.inter = m.inter)
  BY <1>2, <1>3, <1>4, LostKeeps
<1> QED BY <1>3, <1>5 DEF Sound, n, due

\* The same of _unref as a whole.
LEMMA SoundUnref ==
    ASSUME NEW m, NEW H, NEW owe, NEW T, Sound(m, H, owe, T), NEW o \in m.alive, owe[o] >= 1,
           NEW U \in SUBSET Obj, T \subseteq U \cup {o}
    PROVE  /\ Unref(m, o).inter = m.inter
           /\ Sound(Unref(m, o), H, Plus(owe, o, -1), U) /\ Alike(m, H, owe, Unref(m, o), Plus(owe, o, -1))
<1>1. m.count[o] > 1 /\ m \in Memory
  BY SoundLost DEF Sound, SoundBut, Typed
<1>2. Unref(m, o) = Lost(m, o)
  BY <1>1, UnrefPlain
<1> QED BY <1>2, SoundLost

\* A list of at most one element.
LEMMA FewElements ==
    ASSUME NEW s \in Seq(Obj), Len(s) =< 1
    PROVE  s = <<>> \/ \E e \in Obj : s = <<e>> /\ ToSet(s) = {e}
<1>1. Len(s) \in Nat /\ DOMAIN s = 1..Len(s)
  OBVIOUS
<1>2. CASE Len(s) = 0
  BY <1>2
<1>3. CASE Len(s) = 1
  <2>1. s[1] \in Obj
    BY <1>3
  <2> DEFINE t == <<s[1]>>
  <2>2. t \in Seq(Obj) /\ Len(t) = 1 /\ t[1] = s[1]
    BY <2>1
  <2> HIDE DEF t
  <2>3. s = t
    BY <1>3, <2>2, SeqEqual
  <2>4. ToSet(s) = {s[1]}
    <3>1. DOMAIN s = {1}
      BY <1>1, <1>3
    <3> QED BY <3>1 DEF ToSet
  <2> QED BY <2>1, <2>3, <2>4 DEF t
<1> QED BY <1>1, <1>2, <1>3

-----------------------------------------------------------------------------
(* The intermediate value is given back, and another put down.             *)

\* What is left when a list goes for which nobody but the intermediate value held a
\* reference: its element has lost one and is noted.
LeftBehind(m, o, n) ==
    /\ n \in Memory /\ SameStatus(m, n) /\ n.inter = Nil /\ n.recursive = {}
    /\ n.alive = m.alive \ {o} /\ n.elems = Put(m.elems, o, <<>>)
    /\ n.table = (m.table \cup ToSet(m.elems[o])) \ {o}
    /\ n.collected = (m.collected \ ToSet(m.elems[o])) \cup {o}
    /\ n.count[o] = 0
    /\ \A g \in Obj \ {o} : n.count[g] = m.count[g] - Cardinality(Places(m.elems[o], g))

\* The last reference to the intermediate value.
LEMMA LostInter ==
    ASSUME NEW m \in Memory, NEW o \in Obj, ~(m.count[o] > 1), m.inter = o,
           ~m.collecting, m.recursive = {}
    PROVE  LET l == Lost(m, o)
           IN  /\ l \in Memory /\ SameLists(m, l) /\ SameStatus(m, l) /\ l.inter = Nil
               /\ l.count = Plus(m.count, o, -1) /\ l.collected = m.collected \ {o}
               /\ l.table = m.table \ {o} /\ l.recursive = {}
<1> DEFINE l == Lost(m, o)
<1>1. l \in Memory /\ SameLists(m, l) /\ SameStatus(m, l)
  BY LostIs
<1>2. l.inter = Nil /\ l.count = Plus(m.count, o, -1)
  BY LostIs
<1>3. l.collected = m.collected \ {o} /\ l.recursive = {}
  BY LostIs
<1>4. l.table = m.table \ {o}
  <2> DEFINE put == IF m.count[o] > 1 /\ o \notin m.valid THEN {o} ELSE {}
  <2>1. l.table = IF m.collecting THEN m.table ELSE (m.table \ {o}) \cup put
    BY LostIs
  <2>2. put = {}
    OBVIOUS
  <2> HIDE DEF l, put
  <2> QED BY <2>1, <2>2
<1> HIDE DEF l
<1>5. /\ l \in Memory /\ SameLists(m, l) /\ SameStatus(m, l) /\ l.inter = Nil
      /\ l.count = Plus(m.count, o, -1) /\ l.collected = m.collected \ {o}
      /\ l.table = m.table \ {o} /\ l.recursive = {}
  BY <1>1, <1>2, <1>3, <1>4
<1> QED BY <1>5 DEF l

\* _unref of a temporary list leaves the table with its element.
LEMMA UnrefLeaves ==
    ASSUME NEW m \in Memory, Idle(m), NEW o \in m.alive, m.inter = o, m.count[o] = 1,
           Len(m.elems[o]) =< 1,
           \A e \in ToSet(m.elems[o]) : e # o /\ e \in m.alive /\ m.count[e] > 1
    PROVE  LeftBehind(m, o, Unref(m, o))
<1>1. /\ o \in Obj /\ m.count \in [Obj -> Int] /\ m.elems[o] \in Seq(Obj) /\ ~(m.count[o] > 1)
      /\ ~m.collecting /\ m.valid = {} /\ m.recursive = {}
  BY DEF Memory, Idle
<1> DEFINE l == Lost(m, o)
<1>2. /\ l \in Memory /\ SameLists(m, l) /\ SameStatus(m, l) /\ l.inter = Nil
      /\ l.count = Plus(m.count, o, -1) /\ l.collected = m.collected \ {o}
      /\ l.table = m.table \ {o} /\ l.recursive = {}
  <2> HIDE DEF l
  <2> QED BY <1>1, LostInter DEF l
<1>3. \A g \in Obj \ {o} : l.count[g] = m.count[g]
  <2>1. -1 \in Int
    OBVIOUS
  <2>2. \A g \in Obj \ {o} : Plus(m.count, o, -1)[g] = m.count[g]
    BY <1>1, <2>1, PlusIs
  <2> HIDE DEF l
  <2> QED BY <1>2, <2>2
<1>4. ASSUME NEW k \in Memory
      PROVE  LET n == Freed(k, o)
             IN  /\ n \in Memory /\ SameStatus(k, n) /\ n.alive = k.alive \ {o}
                 /\ n.elems = Put(k.elems, o, <<>>) /\ n.count = Put(k.count, o, 0)
                 /\ n.inter = k.inter /\ n.collected = k.collected \cup {o}
                 /\ ~k.collecting => n.table = k.table \ {o} /\ n.recursive = k.recursive
                 /\ n.count[o] = 0 /\ \A g \in Obj \ {o} : n.count[g] = k.count[g]
  <2> DEFINE n == Freed(k, o)
  <2>1. /\ n \in Memory /\ SameStatus(k, n) /\ n.alive = k.alive \ {o}
        /\ n.elems = Put(k.elems, o, <<>>) /\ n.count = Put(k.count, o, 0)
        /\ n.inter = k.inter /\ n.collected = k.collected \cup {o}
        /\ ~k.collecting => n.table = k.table \ {o} /\ n.recursive = k.recursive
    BY <1>1, FreedIs
  <2>2. Put(k.count, o, 0)[o] = 0 /\ \A g \in Obj \ {o} : Put(k.count, o, 0)[g] = k.count[g]
    <3>1. k.count \in [Obj -> Int]
      BY DEF Memory
    <3> QED BY <1>1, <3>1 DEF Put
  <2> HIDE DEF n
  <2>3. n.count[o] = 0 /\ \A g \in Obj \ {o} : n.count[g] = k.count[g]
    BY <2>1, <2>2
  <2>4. /\ n \in Memory /\ SameStatus(k, n) /\ n.alive = k.alive \ {o}
        /\ n.elems = Put(k.elems, o, <<>>) /\ n.count = Put(k.count, o, 0)
        /\ n.inter = k.inter /\ n.collected = k.collected \cup {o}
        /\ ~k.collecting => n.table = k.table \ {o} /\ n.recursive = k.recursive
        /\ n.count[o] = 0 /\ \A g \in Obj \ {o} : n.count[g] = k.count[g]
    BY <2>1, <2>3
  <2> QED BY <2>4 DEF n
<1>5. CASE m.elems[o] = <<>>
  <2> DEFINE n == Freed(l, o)
  <2>1. Unref(m, o) = n
    BY <1>1, <1>5, UnrefEmpty
  <2>2. /\ n \in Memory /\ SameStatus(l, n) /\ n.alive = l.alive \ {o}
        /\ n.elems = Put(l.elems, o, <<>>)
        /\ n.inter = l.inter /\ n.collected = l.collected \cup {o}
        /\ ~l.collecting => n.table = l.table \ {o} /\ n.recursive = l.recursive
        /\ n.count[o] = 0 /\ \A g \in Obj \ {o} : n.count[g] = l.count[g]
    <3> HIDE DEF l
    <3> QED BY <1>2, <1>4
  <2>3. ToSet(m.elems[o]) = {} /\ \A g \in Obj : Cardinality(Places(m.elems[o], g)) = 0
    BY <1>5, PlacesFew DEF ToSet
  <2> HIDE DEF n, l
  <2>4. \A g \in Obj \ {o} : n.count[g] = m.count[g] - Cardinality(Places(m.elems[o], g))
    <3> SUFFICES ASSUME NEW g \in Obj \ {o} PROVE n.count[g] = m.count[g] - Cardinality(Places(m.elems[o], g))
      OBVIOUS
    <3>1. Cardinality(Places(m.elems[o], g)) = 0 /\ n.count[g] = m.count[g] /\ m.count[g] \in Int
      BY <1>1, <1>3, <2>2, <2>3
    <3> QED BY <3>1
  <2>5. LeftBehind(m, o, n)
    BY <1>1, <1>2, <2>2, <2>3, <2>4 DEF LeftBehind, SameLists, SameStatus
  <2> QED BY <2>1, <2>5
<1>6. ASSUME NEW e \in Obj, m.elems[o] = <<e>>, ToSet(m.elems[o]) = {e} PROVE LeftBehind(m, o, Unref(m, o))
  <2>1. e # o /\ e \in m.alive /\ m.count[e] > 1
    BY <1>6
  <2>2. e \in l.alive /\ l.count[e] > 1
    <3> HIDE DEF l
    <3> QED BY <1>2, <1>3, <1>6, <2>1 DEF SameLists
  <2> DEFINE k == Lost(l, e)
             n == Freed(k, o)
  <2>3. Unref(m, o) = n
    BY <1>1, <1>6, <2>2, UnrefOne
  <2>4. l \in Memory /\ ~l.collecting /\ l.valid = {}
    BY <1>1, <1>2 DEF SameStatus
  <2> HIDE DEF l
  <2>5. /\ k \in Memory /\ SameLists(l, k) /\ SameStatus(l, k) /\ k.inter = l.inter
        /\ k.count = Plus(l.count, e, -1) /\ k.collected = l.collected \ {e}
        /\ k.table = (l.table \ {e}) \cup {e} /\ k.recursive = l.recursive
    <3>1. /\ k \in Memory /\ SameLists(l, k) /\ SameStatus(l, k) /\ k.inter = l.inter
          /\ k.count = Plus(l.count, e, -1) /\ k.collected = l.collected \ {e}
      BY <2>2, <2>4, LostIs
    <3>2. k.table = (l.table \ {e}) \cup {e} /\ k.recursive = l.recursive
      BY <2>2, <2>4, LostIs
    <3> QED BY <3>1, <3>2
  <2> HIDE DEF k
  <2>6. k.count[e] = l.count[e] - 1 /\ \A g \in Obj \ {e} : k.count[g] = l.count[g]
    <3>1. -1 \in Int /\ l.count \in [Obj -> Int] /\ l.count[e] \in Int
      BY <2>4 DEF Memory
    <3>2. Plus(l.count, e, -1)[e] = l.count[e] + (-1) /\ \A g \in Obj \ {e} : Plus(l.count, e, -1)[g] = l.count[g]
      BY <3>1, PlusIs
    <3> QED BY <2>5, <3>1, <3>2
  <2>7. /\ n \in Memory /\ SameStatus(k, n) /\ n.alive = k.alive \ {o}
        /\ n.elems = Put(k.elems, o, <<>>)
        /\ n.inter = k.inter /\ n.collected = k.collected \cup {o}
        /\ ~k.collecting => n.table = k.table \ {o} /\ n.recursive = k.recursive
        /\ n.count[o] = 0 /\ \A g \in Obj \ {o} : n.count[g] = k.count[g]
    BY <2>5, <1>4
  <2> HIDE DEF n
  <2>8. \A g \in Obj \ {o} : n.count[g] = m.count[g] - Cardinality(Places(m.elems[o], g))
    <3> SUFFICES ASSUME NEW g \in Obj \ {o} PROVE n.count[g] = m.count[g] - Cardinality(Places(m.elems[o], g))
      OBVIOUS
    <3>1. Cardinality(Places(m.elems[o], g)) = IF e = g THEN 1 ELSE 0
      BY <1>6, PlacesFew
    <3>2. m.count[g] \in Int /\ n.count[g] = k.count[g] /\ l.count[g] = m.count[g]
      BY <1>1, <1>3, <2>7
    <3>3. CASE e = g
      BY <3>1, <3>2, <3>3, <2>6
    <3>4. CASE e # g
      BY <3>1, <3>2, <3>4, <2>6
    <3> QED BY <3>3, <3>4
  <2>9. n.table = (m.table \cup {e}) \ {o} /\ n.collected = (m.collected \ {e}) \cup {o} /\ n.recursive = {}
    BY <1>1, <1>2, <2>1, <2>4, <2>5, <2>7 DEF SameStatus
  <2>10. LeftBehind(m, o, n)
    BY <1>2, <1>6, <2>5, <2>7, <2>8, <2>9 DEF LeftBehind, SameLists, SameStatus
  <2> QED BY <2>3, <2>10
<1>7. m.elems[o] = <<>> \/ \E e \in Obj : m.elems[o] = <<e>> /\ ToSet(m.elems[o]) = {e}
  BY <1>1, FewElements
<1> QED BY <1>5, <1>6, <1>7

\* What is left of the books when the intermediate value is given back.
Survives(m, H, owe, S, z, K) ==
    /\ K \subseteq H /\ z.inter = Nil
    /\ z.alive \subseteq m.alive /\ \A g \in z.alive : z.elems[g] = m.elems[g]
    /\ \A g \in m.alive : Backed(m, H, owe, g) => g \in z.alive /\ Backed(z, K, owe, g)
    /\ \A g \in H : Backed(m, H, owe, g) => g \in K
    /\ \A g \in S \cap m.alive : g \in z.alive /\ z.count[g] = m.count[g]

\* A temporary list is gone, and the books of all others are kept.
LEMMA TemporaryGone ==
    ASSUME NEW m, NEW H, NEW owe, NEW T, NEW S, SoundBut(m, H, owe, T, S), S \cap H = {},
           NEW o \in Obj, Temporary(m, H, owe, o), NEW n, LeftBehind(m, o, n)
    PROVE  SoundBut(n, H \ {o}, owe, T, S) /\ Survives(m, H, owe, S, n, H \ {o})
<1> DEFINE K == H \ {o}
           E == ToSet(m.elems[o])
<1>1. /\ m \in Memory /\ owe \in [Obj -> Nat] /\ H \in SUBSET Obj /\ T \in SUBSET Obj /\ m.alive \subseteq Obj
      /\ m.count \in [Obj -> Int] /\ m.elems \in [Obj -> Seq(Obj)] /\ H \subseteq m.alive
      /\ ~m.collecting /\ m.valid = {} /\ m.recursive = {}
  BY DEF SoundBut, Typed, Ledger, Memory, Idle
<1>2. m.inter = o /\ o \in H /\ m.count[o] = 1 /\ HeldBy(H, m, o) = {}
  BY DEF Temporary
<1>3. /\ n \in Memory /\ SameStatus(m, n) /\ n.inter = Nil /\ n.recursive = {}
      /\ n.alive = m.alive \ {o} /\ n.elems = Put(m.elems, o, <<>>)
      /\ n.table = (m.table \cup E) \ {o} /\ n.collected = (m.collected \ E) \cup {o}
      /\ n.count[o] = 0 /\ \A g \in Obj \ {o} : n.count[g] = m.count[g] - Cardinality(Places(m.elems[o], g))
  BY DEF LeftBehind
<1>4. n.elems[o] = <<>> /\ \A g \in Obj \ {o} : n.elems[g] = m.elems[g]
  <2>1. <<>> \in Seq(Obj)
    OBVIOUS
  <2>2. Put(m.elems, o, <<>>)[o] = <<>> /\ \A g \in Obj \ {o} : Put(m.elems, o, <<>>)[g] = m.elems[g]
    <3>1. m.elems \in [Obj -> Seq(Obj)]
      BY <1>1
    <3> QED BY <2>1, <3>1 DEF Put
  <2> QED BY <1>3, <2>2
<1>5. \A g \in Obj : IsFiniteSet(HeldBy(H, m, g))
  BY DEF SoundBut, Ledger
<1>6. \A c \in H : o \notin ToSet(m.elems[c])
  <2> SUFFICES ASSUME NEW c \in H, o \in ToSet(m.elems[c]) PROVE FALSE
    OBVIOUS
  <2> QED BY <1>1, <1>2, <1>5, ElementHeld
<1>7. E \subseteq K /\ E \subseteq m.alive /\ o \notin E
  <2>1. E \subseteq H
    BY <1>2 DEF SoundBut, Ledger, Closed
  <2> QED BY <2>1, <1>1, <1>2, <1>6
<1>8. \A g \in Obj : g \notin E => Cardinality(Places(m.elems[o], g)) = 0
  <2> SUFFICES ASSUME NEW g \in Obj, g \notin E PROVE Cardinality(Places(m.elems[o], g)) = 0
    OBVIOUS
  <2>1. Places(m.elems[o], g) = {}
    BY DEF ToSet, Places
  <2> QED BY <2>1, FS_EmptySet
<1> HIDE DEF K, E
<1>9. K \subseteq H /\ o \notin K /\ K \cup {o} = H
  BY <1>2 DEF K
<1>10. ASSUME NEW g \in Obj
       PROVE  /\ IsFiniteSet(HeldBy(K, n, g)) /\ Cardinality(HeldBy(K, n, g)) \in Nat
              /\ Cardinality(HeldBy(H, m, g)) = Cardinality(HeldBy(K, n, g)) + Cardinality(Places(m.elems[o], g))
              /\ Cardinality(Places(m.elems[o], g)) \in Nat
  <2>1. (\A c \in K : m.elems[c] = m.elems[c]) /\ \A c \in K : n.elems[c] = m.elems[c]
    BY <1>1, <1>4, <1>9
  <2>2. IsFiniteSet(HeldBy(K, m, g)) /\ IsFiniteSet(HeldBy(H, m, g))
    BY <1>5, <1>9, <2>1, HeldBySmaller
  <2>3. HeldBy(K, n, g) = HeldBy(K, m, g)
    BY <2>1 DEF HeldBy
  <2>4. m.elems[o] \in Seq(Obj)
    BY <1>1
  <2>5. Cardinality(HeldBy(K \cup {o}, m, g)) = Cardinality(HeldBy(K, m, g)) + Cardinality(Places(m.elems[o], g))
    BY <1>9, <2>2, <2>4, HeldByMore
  <2>6. Cardinality(HeldBy(K, m, g)) \in Nat /\ Cardinality(Places(m.elems[o], g)) \in Nat
    BY <2>2, <2>4, FS_CardinalityType, PlacesFinite
  <2> QED BY <1>9, <2>2, <2>3, <2>5, <2>6
<1>11. ASSUME NEW g \in m.alive, Backed(m, H, owe, g) PROVE g \in n.alive /\ g # o /\ Backed(n, K, owe, g)
  <2>1. g # o /\ g \in Obj
    <3>1. ~Backed(m, H, owe, o)
      BY <1>1, <1>5, BackedIs
    <3> QED BY <3>1, <1>1, <1>11
  <2>2. m.count[g] > owe[g] + Intermediate(m, g) + Cardinality(HeldBy(H, m, g))
    BY <1>11 DEF Backed
  <2>3. Intermediate(m, g) = 0 /\ Intermediate(n, g) = 0
    BY <1>2, <1>3, <2>1, ThresholdAssumption DEF Intermediate
  <2>4. m.count[g] \in Int /\ owe[g] \in Nat /\ n.count[g] = m.count[g] - Cardinality(Places(m.elems[o], g))
    BY <1>1, <1>3, <2>1
  <2>5. n.count[g] > owe[g] + Intermediate(n, g) + Cardinality(HeldBy(K, n, g))
    BY <2>1, <2>2, <2>3, <2>4, <1>10
  <2> QED BY <2>1, <2>5, <1>3 DEF Backed
<1>12. \A g \in m.alive \ S : g # o => Backed(m, H, owe, g)
  BY <1>2 DEF SoundBut, Ledger, Temporary
<1>13. Ledger(n, K, owe, S)
  <2>1. K \subseteq n.alive
    BY <1>1, <1>3, <1>9
  <2>2. Closed(n, K)
    <3> SUFFICES ASSUME NEW c \in K PROVE ToSet(n.elems[c]) \subseteq K
      BY DEF Closed
    <3>1. n.elems[c] = m.elems[c] /\ c \in H
      BY <1>1, <1>4, <1>9
    <3>2. ToSet(m.elems[c]) \subseteq H
      BY <3>1 DEF SoundBut, Ledger, Closed
    <3> QED BY <3>1, <3>2, <1>6, <1>9
  <2>3. \A g \in n.alive \ S : Backed(n, K, owe, g)
    BY <1>3, <1>11, <1>12
  <2> QED BY <2>1, <2>2, <2>3, <1>10 DEF Ledger
<1>14. \A g \in Obj : g \notin E /\ g # o => n.count[g] = m.count[g]
  <2> SUFFICES ASSUME NEW g \in Obj, g \notin E, g # o PROVE n.count[g] = m.count[g]
    OBVIOUS
  <2>1. Cardinality(Places(m.elems[o], g)) = 0 /\ m.count[g] \in Int
    BY <1>1, <1>8
  <2> QED BY <1>3, <2>1
<1>15. Tidy(n) /\ Idle(n)
  <2>1. Tidy(m)
    BY DEF SoundBut
  <2>2. \A g \in Obj \ n.alive : n.elems[g] = <<>> /\ n.count[g] = 0
    <3> SUFFICES ASSUME NEW g \in Obj \ n.alive PROVE n.elems[g] = <<>> /\ n.count[g] = 0
      OBVIOUS
    <3>1. CASE g = o
      BY <3>1, <1>3, <1>4
    <3>2. CASE g # o
      <4>1. g \in Obj \ m.alive
        BY <3>2, <1>3
      <4>2. g \notin E
        BY <4>1, <1>7
      <4> QED BY <3>2, <4>1, <4>2, <1>4, <1>14, <2>1 DEF Tidy
    <3> QED BY <3>1, <3>2
  <2>3. n.table \cup n.recursive \subseteq n.alive \ n.collected
    BY <2>1, <1>3, <1>7 DEF Tidy
  <2>4. n.reused \/ n.collected \cap n.alive = {}
    BY <2>1, <1>3 DEF Tidy, SameStatus
  <2> QED BY <2>2, <2>3, <2>4, <1>1, <1>3 DEF Tidy, Idle, SameStatus
<1>16. KnownFrom(n, T)
  <2>1. KnownFrom(m, T) /\ (m.reused => n.reused) /\ \A g \in Obj \ m.alive : m.elems[g] = <<>>
    BY <1>3 DEF SoundBut, Tidy, SameStatus
  <2> DEFINE B == Sources(n, T)
             gone == {o}
  <2>2. B \in SUBSET Obj /\ gone \in SUBSET Obj
    BY <1>1, <1>3 DEF Sources, Memory
  <2>3. n.alive \cap gone = {} /\ n.alive \subseteq m.alive \cup B
    BY <1>3
  <2>4. Sources(m, T) \cap m.alive \subseteq B \cup gone
    BY <1>1, <1>2, <1>3 DEF Sources
  <2>5. \A g \in m.alive \ gone : ToSet(m.elems[g]) \cap m.alive \subseteq ToSet(n.elems[g]) \cup B \cup gone
    <3>1. \A g \in m.alive \ gone : n.elems[g] = m.elems[g]
      BY <1>1, <1>4
    <3> QED BY <3>1
  <2>6. \A g \in gone : ToSet(m.elems[g]) \cap m.alive \subseteq B \cup gone
    BY <1>3, <1>7 DEF Sources, E
  <2>7. LostNothing(m, T, n, T, gone, B)
    BY <2>1, <2>3, <2>4, <2>5, <2>6 DEF LostNothing
  <2> HIDE DEF B, gone
  <2> QED BY <1>1, <1>3, <2>1, <2>2, <2>7, KnownStep
<1>17. SoundBut(n, K, owe, T, S)
  BY <1>1, <1>3, <1>13, <1>15, <1>16 DEF SoundBut, Typed
<1>18. Survives(m, H, owe, S, n, K)
  <2>1. n.alive \subseteq m.alive /\ \A g \in n.alive : n.elems[g] = m.elems[g]
    BY <1>1, <1>3, <1>4
  <2>2. \A g \in H : Backed(m, H, owe, g) => g \in K
    BY <1>1, <1>9, <1>11
  <2>3. \A g \in S \cap m.alive : g \in n.alive /\ n.count[g] = m.count[g]
    BY <1>1, <1>2, <1>3, <1>7, <1>9, <1>14
  <2> QED BY <2>1, <2>2, <2>3, <1>3, <1>9, <1>11 DEF Survives
<1> QED BY <1>17, <1>18 DEF K

NoIntermediate(m) == [UnrefIfAny(m, m.inter) EXCEPT !.inter = Nil]

\* The intermediate value is given back: noted if it is backed, and freed if it was a
\* temporary list.
LEMMA InterGone ==
    ASSUME NEW m, NEW H, NEW owe, NEW T, NEW S, SoundBut(m, H, owe, T, S), S \cap H = {},
           m.inter \notin S
    PROVE  \E K \in SUBSET H :
               /\ SoundBut(NoIntermediate(m), K, owe, T, S)
               /\ Survives(m, H, owe, S, NoIntermediate(m), K)
<1> DEFINE o == m.inter
           z == NoIntermediate(m)
<1>1. /\ m \in Memory /\ owe \in [Obj -> Nat] /\ H \in SUBSET Obj /\ T \in SUBSET Obj /\ m.alive \subseteq Obj
      /\ o \in m.alive \cup {Nil} /\ H \subseteq m.alive /\ \A g \in Obj : IsFiniteSet(HeldBy(H, m, g))
  BY DEF SoundBut, Typed, Ledger, Memory, Tidy
<1>2. CASE o = Nil
  <2>1. z = [m EXCEPT !.inter = Nil]
    BY <1>2 DEF NoIntermediate, UnrefIfAny
  <2> HIDE DEF z
  <2>2. z \in Memory /\ SameLists(m, z) /\ SameTables(m, z) /\ SameStatus(m, z) /\ z.inter = Nil /\ z.count = m.count
    BY <1>1, <2>1, InterIs
  <2>3. \A g : Intermediate(z, g) = Intermediate(m, g) /\ Margin(z, owe, g) = Margin(m, owe, g)
    BY <1>2, <2>2 DEF Intermediate, Margin
  <2>4. \A g \in m.alive : Margin(z, owe, g) >= Margin(m, owe, g)
    <3> SUFFICES ASSUME NEW g \in m.alive PROVE Margin(z, owe, g) >= Margin(m, owe, g)
      OBVIOUS
    <3>1. Margin(m, owe, g) \in Int
      BY <1>1, BackedIs
    <3> QED BY <2>3, <3>1
  <2>5. \A g \in m.alive : ~Temporary(m, H, owe, g)
    BY <1>1, <1>2, ThresholdAssumption DEF Temporary
  <2>6. Ledger(z, H, owe, S) /\ \A g \in m.alive : Backed(m, H, owe, g) => Backed(z, H, owe, g)
    <3>1. Ledger(m, H, owe, S)
      BY DEF SoundBut
    <3> HIDE DEF o
    <3> QED BY <1>1, <2>2, <2>4, <2>5, <3>1, LedgerSame
  <2>7. Tidy(z) /\ Idle(z)
    BY <2>2 DEF SoundBut, Tidy, Idle, SameLists, SameTables, SameStatus
  <2>8. KnownFrom(z, T)
    <3>1. KnownFrom(m, T) /\ (\A g \in Obj \ m.alive : m.elems[g] = <<>>) /\ (m.reused => z.reused)
      BY <2>2 DEF SoundBut, Tidy, SameStatus
    <3>2. Sources(m, T) \cap m.alive \subseteq Sources(z, T)
      BY <1>2, <2>2 DEF Sources, SameTables
    <3> HIDE DEF o
    <3> QED BY <1>1, <2>2, <3>1, <3>2, KnownSame
  <2>9. SoundBut(z, H, owe, T, S)
    BY <1>1, <2>2, <2>6, <2>7, <2>8 DEF SoundBut, Typed
  <2>10. Survives(m, H, owe, S, z, H)
    BY <2>2, <2>6 DEF Survives, SameLists
  <2> QED BY <2>9, <2>10 DEF z
<1>3. CASE o # Nil /\ Backed(m, H, owe, o)
  <2>1. o \in m.alive /\ o \in Obj /\ IsFiniteSet(HeldBy(H, m, o))
    BY <1>1, <1>3
  <2>2. m.count[o] > 1
    <3>1. m.count[o] > owe[o] + Intermediate(m, o) + Cardinality(HeldBy(H, m, o))
      BY <1>3 DEF Backed
    <3>2. Intermediate(m, o) = 1 /\ owe[o] \in Nat /\ Cardinality(HeldBy(H, m, o)) \in Nat /\ m.count[o] \in Int
      BY <1>1, <2>1, FS_CardinalityType DEF Intermediate, Memory
    <3> HIDE DEF o
    <3> QED BY <3>1, <3>2
  <2>3. Unref(m, o) = Lost(m, o)
    BY <1>1, <2>1, <2>2, UnrefPlain
  <2>4. z = [Lost(m, o) EXCEPT !.inter = Nil]
    BY <1>3, <2>3 DEF NoIntermediate, UnrefIfAny
  <2>5. GivenBack(m, o, owe, z, owe)
    BY <2>4 DEF GivenBack
  <2>6. z.inter = Nil
    <3>1. Lost(m, o) \in Memory
      BY <1>1, <2>1, LostIs
    <3> HIDE DEF z
    <3> QED BY <2>4, <3>1, InterIs
  <2>7. T \in SUBSET Obj /\ T \subseteq T \cup {o}
    BY <1>1
  <2>8. /\ SoundBut(z, H, owe, T, S) /\ Alike(m, H, owe, z, owe)
        /\ \A g \in m.alive : g # o => z.count[g] = m.count[g]
    <3>1. Backed(m, H, owe, o) /\ o \in m.alive
      BY <1>3, <2>1
    <3> HIDE DEF z, o
    <3>2. \A U \in SUBSET Obj : T \subseteq U \cup {o} => SoundBut(z, H, owe, U, S)
      BY <3>1, <2>2, <2>5, LostKeeps
    <3>4. Alike(m, H, owe, z, owe)
      BY <3>1, <2>2, <2>5, <2>7, LostKeeps DEF Alike
    <3>5. SoundBut(z, H, owe, T, S) /\ Alike(m, H, owe, z, owe)
      BY <3>2, <3>4, <2>7
    <3>3. \A g \in m.alive : g # o => z.count[g] = m.count[g]
      BY <3>1, <2>2, <2>5, <2>7, LostKeeps
    <3> QED BY <3>3, <3>5
  <2>9. Survives(m, H, owe, S, z, H)
    <3> HIDE DEF z
    <3>1. \A g \in S \cap m.alive : g # o
      OBVIOUS
    <3> QED BY <2>6, <2>8, <3>1 DEF Survives, Alike, SameLists
  <2> QED BY <2>8, <2>9
<1>4. CASE o # Nil /\ ~Backed(m, H, owe, o)
  <2>1. o \in Obj /\ o \in m.alive /\ Temporary(m, H, owe, o) /\ Idle(m)
    BY <1>1, <1>4 DEF SoundBut, Ledger
  <2>2. o \in H /\ m.count[o] = 1 /\ HeldBy(H, m, o) = {} /\ Len(m.elems[o]) =< 1
    BY <2>1 DEF Temporary
  <2>3. \A e \in ToSet(m.elems[o]) : e # o /\ e \in m.alive /\ m.count[e] > 1
    <3> SUFFICES ASSUME NEW e \in ToSet(m.elems[o]) PROVE e # o /\ e \in m.alive /\ m.count[e] > 1
      OBVIOUS
    <3>1. e \in H /\ e \in m.alive /\ e \in Obj /\ e \notin S
      BY <1>1, <2>2 DEF SoundBut, Ledger, Closed
    <3>2. HeldBy(H, m, e) # {} /\ Cardinality(HeldBy(H, m, e)) >= 1
      <4> HIDE DEF o
      <4> QED BY <1>1, <2>1, <2>2, <3>1, ElementHeld
    <3>3. e # o /\ Backed(m, H, owe, e)
      BY <2>2, <3>1, <3>2 DEF SoundBut, Ledger, Temporary
    <3>4. m.count[e] > owe[e] + Intermediate(m, e) + Cardinality(HeldBy(H, m, e))
      BY <3>3 DEF Backed
    <3>5. m.count[e] \in Int /\ owe[e] \in Nat /\ Intermediate(m, e) \in {0, 1} /\ Cardinality(HeldBy(H, m, e)) \in Nat
      BY <1>1, <3>1, FS_CardinalityType DEF Memory, Intermediate
    <3> HIDE DEF o
    <3> QED BY <3>1, <3>2, <3>3, <3>4, <3>5
  <2>4. LeftBehind(m, o, Unref(m, o))
    BY <1>1, <2>1, <2>2, <2>3, UnrefLeaves
  <2> DEFINE n == Unref(m, o)
  <2>5. z = [n EXCEPT !.inter = Nil]
    BY <1>4 DEF NoIntermediate, UnrefIfAny
  <2>6. SoundBut(n, H \ {o}, owe, T, S) /\ Survives(m, H, owe, S, n, H \ {o})
    <3> HIDE DEF o, n
    <3>1. LeftBehind(m, o, n)
      BY <2>4 DEF n
    <3> QED BY <2>1, <3>1, TemporaryGone
  <2> HIDE DEF n, z
  <2>7. n \in Memory /\ n.inter = Nil
    BY <2>6 DEF Survives, SoundBut, Typed
  <2>8. z = n
    BY <2>5, <2>7 DEF Memory
  <2> QED BY <2>6, <2>8 DEF z
<1> QED BY <1>2, <1>3, <1>4

\* A value becomes the intermediate one, with its reference.
LEMMA InterSet ==
    ASSUME NEW z, NEW K, NEW owe, NEW T, NEW S, SoundBut(z, K, owe, T, S), z.inter = Nil,
           NEW o \in z.alive, NEW U \in SUBSET Obj, T \subseteq U \cup {o},
           NEW w, w = Ref([z EXCEPT !.inter = o], o)
    PROVE  /\ SoundBut(w, K, owe, U, S) /\ Alike(z, K, owe, w, owe)
           /\ w.inter = o /\ w.count[o] = z.count[o] + 1
<1>1. /\ z \in Memory /\ owe \in [Obj -> Nat] /\ K \in SUBSET Obj /\ T \in SUBSET Obj /\ o \in Obj
      /\ z.alive \subseteq Obj /\ z.count \in [Obj -> Int]
  BY DEF SoundBut, Typed, Ledger, Memory
<1>2. /\ w \in Memory /\ SameLists(z, w) /\ SameTables(z, w) /\ SameStatus(z, w)
      /\ w.inter = o /\ w.count = Plus(z.count, o, 1)
  <2> DEFINE y == [z EXCEPT !.inter = o]
  <2>1. y \in Memory /\ SameLists(z, y) /\ SameTables(z, y) /\ SameStatus(z, y) /\ y.inter = o /\ y.count = z.count
    BY <1>1, InterIs
  <2>2. w = Ref(y, o)
    OBVIOUS
  <2> HIDE DEF y
  <2>3. /\ w \in Memory /\ SameLists(y, w) /\ SameTables(y, w) /\ SameStatus(y, w)
        /\ w.inter = y.inter /\ w.count = Plus(y.count, o, 1)
    BY <1>1, <2>1, <2>2, RefIs
  <2> QED BY <2>1, <2>3 DEF SameLists, SameTables, SameStatus
<1>3. w.count[o] = z.count[o] + 1 /\ \A g \in Obj \ {o} : w.count[g] = z.count[g]
  <2>1. 1 \in Int
    OBVIOUS
  <2>2. Plus(z.count, o, 1)[o] = z.count[o] + 1 /\ \A g \in Obj \ {o} : Plus(z.count, o, 1)[g] = z.count[g]
    BY <1>1, <2>1, PlusIs
  <2> QED BY <1>2, <2>2
<1>4. ASSUME NEW g \in z.alive PROVE Margin(w, owe, g) >= Margin(z, owe, g)
  <2>1. g \in Obj /\ z.count[g] \in Int /\ owe[g] \in Nat /\ Intermediate(z, g) = 0
        /\ Intermediate(w, g) = IF g = o THEN 1 ELSE 0
    BY <1>1, <1>2, ThresholdAssumption DEF Intermediate
  <2> QED BY <2>1, <1>3 DEF Margin
<1>5. \A g \in z.alive : ~Temporary(z, K, owe, g)
  BY <1>1, ThresholdAssumption DEF Temporary
<1>6. Ledger(w, K, owe, S) /\ \A g \in z.alive : Backed(z, K, owe, g) => Backed(w, K, owe, g)
  <2>1. Ledger(z, K, owe, S)
    BY DEF SoundBut
  <2> QED BY <1>1, <1>2, <1>4, <1>5, <2>1, LedgerSame
<1>7. Tidy(w) /\ Idle(w)
  <2>1. Tidy(z) /\ Idle(z)
    BY DEF SoundBut
  <2>2. \A g \in Obj \ z.alive : w.count[g] = z.count[g]
    BY <1>3
  <2> QED BY <2>1, <2>2, <1>2 DEF Tidy, Idle, SameLists, SameTables, SameStatus
<1>8. KnownFrom(w, U)
  <2>1. KnownFrom(z, T) /\ (\A g \in Obj \ z.alive : z.elems[g] = <<>>) /\ (z.reused => w.reused)
    BY <1>2 DEF SoundBut, Tidy, SameStatus
  <2>2. Sources(z, T) \cap z.alive \subseteq Sources(w, U)
    BY <1>1, <1>2, ThresholdAssumption DEF Sources, SameTables
  <2> QED BY <1>1, <1>2, <2>1, <2>2, KnownSame
<1> QED BY <1>1, <1>2, <1>3, <1>6, <1>7, <1>8 DEF SoundBut, Typed, Alike

\* The intermediate value is given back before the new one is put down.
LEMMA PutDownIs ==
    ASSUME NEW m, NEW o
    PROVE  PutDown(m, o) = Ref([NoIntermediate(m) EXCEPT !.inter = o], o)
<1> DEFINE u == UnrefIfAny(m, m.inter)
<1> HIDE DEF u
<1>1. [[u EXCEPT !.inter = Nil] EXCEPT !.inter = o] = [u EXCEPT !.inter = o]
  OBVIOUS
<1> QED BY <1>1 DEF PutDown, NoIntermediate, u

\* What a statement does with the books keeps what was backed.
Carried(m, H, owe, n, K, due) ==
    \A g \in m.alive : Backed(m, H, owe, g) => g \in n.alive /\ Backed(n, K, due, g) /\ (g \in H => g \in K)

\* A backed value is put down.
LEMMA SoundPutDown ==
    ASSUME NEW m, NEW H, NEW owe, NEW T, Sound(m, H, owe, T), NEW o \in H, Backed(m, H, owe, o),
           NEW U \in SUBSET Obj, T \subseteq U \cup {o}
    PROVE  \E K \in SUBSET H :
               /\ Sound(PutDown(m, o), K, owe, U) /\ PutDown(m, o).inter = o
               /\ Carried(m, H, owe, PutDown(m, o), K, owe)
               /\ \A g \in K : PutDown(m, o).elems[g] = m.elems[g]
<1> DEFINE z == NoIntermediate(m)
           w == PutDown(m, o)
<1>1. SoundBut(m, H, owe, T, {}) /\ H \in SUBSET Obj /\ o \in m.alive
  BY DEF Sound, SoundBut, Typed, Ledger, Memory
<1>2. PICK K \in SUBSET H : SoundBut(z, K, owe, T, {}) /\ Survives(m, H, owe, {}, z, K)
  BY <1>1, InterGone
<1>3. w = Ref([z EXCEPT !.inter = o], o)
  BY PutDownIs
<1>4. z.inter = Nil /\ o \in z.alive
  BY <1>1, <1>2 DEF Survives
<1> HIDE DEF w, z
<1>5. SoundBut(w, K, owe, U, {}) /\ Alike(z, K, owe, w, owe) /\ w.inter = o
  BY <1>2, <1>3, <1>4, InterSet
<1>6. Carried(m, H, owe, w, K, owe)
  BY <1>1, <1>2, <1>5 DEF Survives, Alike, SameLists, Carried
<1>7. \A g \in K : w.elems[g] = m.elems[g]
  <2>1. K \subseteq z.alive
    BY <1>2 DEF SoundBut, Ledger
  <2> QED BY <1>2, <1>5, <2>1 DEF Survives, Alike, SameLists
<1> QED BY <1>5, <1>6, <1>7 DEF Sound, w

\* The value of a call is taken up, and is no longer intermediate.
LEMMA SoundTaken ==
    ASSUME NEW m, NEW H, NEW owe, NEW T, Sound(m, H, owe, T), NEW o \in H,
           NEW U \in SUBSET Obj, T \cup {o} \subseteq U, NEW n, TakenUp(m, o) = <<n, o>>
    PROVE  /\ Sound(n, H, owe, U) /\ Alike(m, H, owe, n, owe) /\ Backed(n, H, owe, o)
           /\ n.inter \in {m.inter, Nil}
<1> DEFINE i == IF m.inter = o THEN Nil ELSE m.inter
<1>1. /\ m \in Memory /\ owe \in [Obj -> Nat] /\ H \in SUBSET Obj /\ T \in SUBSET Obj /\ o \in Obj
      /\ m.alive \subseteq Obj /\ m.count \in [Obj -> Int] /\ H \subseteq m.alive /\ i \in Obj \cup {Nil}
  BY DEF Sound, SoundBut, Typed, Ledger, Memory
<1>2. n = [m EXCEPT !.inter = i]
  BY DEF TakenUp
<1> HIDE DEF i
<1>3. n \in Memory /\ SameLists(m, n) /\ SameTables(m, n) /\ SameStatus(m, n) /\ n.inter = i /\ n.count = m.count
  BY <1>1, <1>2, InterIs
<1>4. ASSUME NEW g \in m.alive
      PROVE  /\ g \in Obj /\ Margin(n, owe, g) >= Margin(m, owe, g) /\ Margin(n, owe, g) \in Int
             /\ Intermediate(n, o) = 0
  <2>1. g \in Obj /\ m.count[g] \in Int /\ owe[g] \in Nat /\ Intermediate(m, g) \in {0, 1} /\ Intermediate(n, g) \in {0, 1}
    BY <1>1, <1>3 DEF Intermediate
  <2>2. Intermediate(n, g) = 0 \/ Intermediate(n, g) = Intermediate(m, g)
    BY <1>3, <2>1, ThresholdAssumption DEF Intermediate, i
  <2>3. Intermediate(n, o) = 0
    BY <1>1, <1>3, ThresholdAssumption DEF Intermediate, i
  <2>4. n.count[g] = m.count[g]
    BY <1>3
  <2>5. Margin(n, owe, g) = m.count[g] - owe[g] - Intermediate(n, g)
        /\ Margin(m, owe, g) = m.count[g] - owe[g] - Intermediate(m, g)
    BY <2>4 DEF Margin
  <2>6. Intermediate(m, g) \in Nat /\ Intermediate(n, g) \in Nat /\ Intermediate(n, g) =< Intermediate(m, g)
    BY <2>1, <2>2
  <2>7. Margin(n, owe, g) >= Margin(m, owe, g) /\ Margin(n, owe, g) \in Int
    BY <2>1, <2>5, <2>6
  <2> QED BY <2>1, <2>3, <2>7
<1>5. \A g : HeldBy(H, n, g) = HeldBy(H, m, g)
  BY <1>3 DEF HeldBy, SameLists
<1>6. \A g \in Obj : IsFiniteSet(HeldBy(H, m, g))
  BY DEF Sound, SoundBut, Ledger
<1>7. ASSUME Temporary(m, H, owe, o) PROVE Backed(n, H, owe, o)
  <2>1. m.count[o] = 1 /\ owe[o] = 0 /\ HeldBy(H, m, o) = {}
    BY <1>7 DEF Temporary
  <2>2. Cardinality(HeldBy(H, n, o)) = 0
    BY <1>5, <2>1, FS_EmptySet
  <2>3. n.count[o] = 1 /\ Intermediate(n, o) = 0
    BY <1>1, <1>3, <1>4, <2>1
  <2> QED BY <2>1, <2>2, <2>3 DEF Backed
<1>8. \A g \in m.alive : Temporary(m, H, owe, g) =>
          \/ n.inter = g /\ n.count[g] = 1 /\ owe[g] = 0
          \/ Backed(n, H, owe, g)
  BY <1>3, <1>7 DEF Temporary, i
<1>9. Ledger(n, H, owe, {}) /\ \A g \in m.alive : Backed(m, H, owe, g) => Backed(n, H, owe, g)
  <2>1. Ledger(m, H, owe, {})
    BY DEF Sound, SoundBut
  <2>2. \A g \in m.alive : Margin(n, owe, g) >= Margin(m, owe, g)
    BY <1>4
  <2> QED BY <1>1, <1>3, <1>8, <2>1, <2>2, LedgerSame
<1>10. Backed(n, H, owe, o)
  <2>1. Backed(m, H, owe, o) \/ Temporary(m, H, owe, o)
    BY <1>1 DEF Sound, SoundBut, Ledger
  <2> QED BY <2>1, <1>1, <1>7, <1>9
<1>11. Tidy(n) /\ Idle(n)
  <2>1. Tidy(m) /\ Idle(m)
    BY DEF Sound, SoundBut
  <2>2. n.inter \in m.alive \cup {Nil}
    BY <2>1, <1>3 DEF Tidy, i
  <2> QED BY <2>1, <2>2, <1>3 DEF Tidy, Idle, SameLists, SameTables, SameStatus
<1>12. KnownFrom(n, U)
  <2>1. KnownFrom(m, T) /\ (\A g \in Obj \ m.alive : m.elems[g] = <<>>) /\ (m.reused => n.reused)
    BY <1>3 DEF Sound, SoundBut, Tidy, SameStatus
  <2>2. Sources(m, T) \cap m.alive \subseteq Sources(n, U)
    BY <1>3 DEF Sources, SameTables, i
  <2> QED BY <1>1, <1>3, <2>1, <2>2, KnownSame
<1> QED BY <1>1, <1>3, <1>9, <1>10, <1>11, <1>12 DEF Sound, SoundBut, Typed, Alike, i

-----------------------------------------------------------------------------
(* Elements change, and references go one after the other.                 *)

\* Other elements change nothing else.
LEMMA ElemsIs ==
    ASSUME NEW m \in Memory, NEW f \in [Obj -> Seq(Obj)], NEW n, n = [m EXCEPT !.elems = f]
    PROVE  /\ n \in Memory /\ n.alive = m.alive /\ n.elems = f /\ n.count = m.count /\ n.inter = m.inter
           /\ SameTables(m, n) /\ SameStatus(m, n)
    BY DEF Memory, SameTables, SameStatus

Relisted(m, c, t, n) == n = [m EXCEPT !.elems = Put(m.elems, c, t)]

\* A list gets other elements, and the program answers for the difference.
LEMMA SoundRelisted ==
    ASSUME NEW m, NEW H, NEW owe, NEW T, Sound(m, H, owe, T), NEW c \in H, Backed(m, H, owe, c),
           NEW t \in Seq(Obj), ToSet(t) \subseteq H, NEW due \in [Obj -> Nat],
           \A g \in Obj : due[g] + Cardinality(Places(t, g)) =< owe[g] + Cardinality(Places(m.elems[c], g)),
           NEW U \in SUBSET Obj, T \subseteq U, ToSet(m.elems[c]) \subseteq ToSet(t) \cup U,
           NEW n, Relisted(m, c, t, n)
    PROVE  /\ Sound(n, H, due, U) /\ Carried(m, H, owe, n, H, due)
           /\ n.alive = m.alive /\ n.inter = m.inter /\ n.elems = Put(m.elems, c, t)
<1>1. /\ m \in Memory /\ owe \in [Obj -> Nat] /\ H \in SUBSET Obj /\ T \in SUBSET Obj /\ c \in Obj
      /\ m.alive \subseteq Obj /\ m.count \in [Obj -> Int] /\ m.elems \in [Obj -> Seq(Obj)] /\ H \subseteq m.alive
  BY DEF Sound, SoundBut, Typed, Ledger, Memory
<1> DEFINE f == Put(m.elems, c, t)
<1>2. f \in [Obj -> Seq(Obj)] /\ f[c] = t /\ \A g \in Obj \ {c} : f[g] = m.elems[g]
  <2> DEFINE old == m.elems
  <2>1. old \in [Obj -> Seq(Obj)]
    BY <1>1
  <2> HIDE DEF old
  <2>2. Put(old, c, t) \in [Obj -> Seq(Obj)] /\ Put(old, c, t)[c] = t
        /\ \A g \in Obj \ {c} : Put(old, c, t)[g] = old[g]
    BY <1>1, <2>1 DEF Put
  <2> QED BY <2>2 DEF old
<1>3. /\ n \in Memory /\ n.alive = m.alive /\ n.elems = f /\ n.count = m.count /\ n.inter = m.inter
      /\ SameTables(m, n) /\ SameStatus(m, n)
  <2> HIDE DEF f
  <2>1. n = [m EXCEPT !.elems = f]
    BY DEF f, Relisted
  <2>2. m \in Memory /\ f \in [Obj -> Seq(Obj)]
    BY <1>1, <1>2
  <2>3. n \in Memory
    BY <2>1, <2>2, ElemsIs
  <2>4. n.alive = m.alive /\ n.elems = f /\ n.count = m.count /\ n.inter = m.inter
    BY <2>1, <2>2, ElemsIs
  <2>5. SameTables(m, n) /\ SameStatus(m, n)
    BY <2>1, <2>2, ElemsIs
  <2> QED BY <2>3, <2>4, <2>5
<1>4. n.elems[c] = t /\ \A g \in Obj \ {c} : n.elems[g] = m.elems[g]
  <2> HIDE DEF f
  <2> QED BY <1>2, <1>3
<1>5. n.elems = Put(m.elems, c, t)
  BY <1>3
<1> HIDE DEF f
<1>6. ASSUME NEW g \in Obj
      PROVE  /\ IsFiniteSet(HeldBy(H, m, g)) /\ IsFiniteSet(HeldBy(H, n, g))
             /\ Cardinality(HeldBy(H, m, g)) \in Nat /\ Cardinality(HeldBy(H, n, g)) \in Nat
             /\ Cardinality(Places(t, g)) \in Nat /\ Cardinality(Places(m.elems[c], g)) \in Nat
             /\ owe[g] \in Nat /\ due[g] \in Nat /\ m.count[g] \in Int /\ Intermediate(m, g) \in Nat
             /\ Intermediate(n, g) = Intermediate(m, g) /\ n.count[g] = m.count[g]
             /\ Cardinality(HeldBy(H, n, g)) + Cardinality(Places(m.elems[c], g))
                    = Cardinality(HeldBy(H, m, g)) + Cardinality(Places(t, g))
             /\ due[g] + Cardinality(HeldBy(H, n, g)) =< owe[g] + Cardinality(HeldBy(H, m, g))
  <2>1. IsFiniteSet(HeldBy(H, m, g))
    BY DEF Sound, SoundBut, Ledger
  <2>2. /\ IsFiniteSet(HeldBy(H, n, g)) /\ Cardinality(HeldBy(H, n, g)) \in Nat /\ Cardinality(HeldBy(H, m, g)) \in Nat
        /\ Cardinality(HeldBy(H, n, g)) + Cardinality(Places(m.elems[c], g))
               = Cardinality(HeldBy(H, m, g)) + Cardinality(Places(t, g))
    <3>1. H \in SUBSET Obj /\ m \in Memory /\ t \in Seq(Obj) /\ c \in H
      BY <1>1
    <3>2. IsFiniteSet(HeldBy(H, n, g))
      BY <3>1, <1>5, <2>1, HeldByRelisted
    <3>3. Cardinality(HeldBy(H, n, g)) \in Nat /\ Cardinality(HeldBy(H, m, g)) \in Nat
      BY <3>1, <1>5, <2>1, HeldByRelisted
    <3>4. Cardinality(HeldBy(H, n, g)) + Cardinality(Places(m.elems[c], g))
               = Cardinality(HeldBy(H, m, g)) + Cardinality(Places(t, g))
      BY <3>1, <1>5, <2>1, HeldByRelisted
    <3> QED BY <3>2, <3>3, <3>4
  <2>3. m.elems[c] \in Seq(Obj)
    BY <1>1
  <2>4. Cardinality(Places(t, g)) \in Nat /\ Cardinality(Places(m.elems[c], g)) \in Nat
    BY <2>3, PlacesFinite
  <2>5. owe[g] \in Nat /\ due[g] \in Nat /\ m.count[g] \in Int /\ Intermediate(m, g) \in Nat
        /\ Intermediate(n, g) = Intermediate(m, g) /\ n.count[g] = m.count[g]
    BY <1>1, <1>3 DEF Intermediate
  <2>6. due[g] + Cardinality(Places(t, g)) =< owe[g] + Cardinality(Places(m.elems[c], g))
    OBVIOUS
  <2>7. due[g] + Cardinality(HeldBy(H, n, g)) =< owe[g] + Cardinality(HeldBy(H, m, g))
    BY <2>2, <2>4, <2>5, <2>6
  <2> QED BY <2>1, <2>2, <2>4, <2>5, <2>7
<1>7. ASSUME NEW g \in m.alive, Backed(m, H, owe, g) PROVE Backed(n, H, due, g)
  <2>1. g \in Obj
    BY <1>1
  <2>2. m.count[g] > owe[g] + Intermediate(m, g) + Cardinality(HeldBy(H, m, g))
    BY <1>7 DEF Backed
  <2> DEFINE a == Cardinality(HeldBy(H, m, g))
             b == Cardinality(HeldBy(H, n, g))
             i == Intermediate(m, g)
  <2>4. a \in Nat /\ b \in Nat /\ i \in Nat /\ owe[g] \in Nat /\ due[g] \in Nat /\ m.count[g] \in Int
        /\ n.count[g] = m.count[g] /\ Intermediate(n, g) = i /\ due[g] + b =< owe[g] + a
    BY <2>1, <1>6
  <2>5. m.count[g] > owe[g] + i + a
    BY <2>2
  <2> HIDE DEF a, b, i
  <2>6. m.count[g] > due[g] + i + b
    BY <2>4, <2>5
  <2>3. n.count[g] > due[g] + Intermediate(n, g) + Cardinality(HeldBy(H, n, g))
    BY <2>4, <2>6 DEF b
  <2> QED BY <2>3 DEF Backed
<1>8. ASSUME NEW g \in m.alive, Temporary(m, H, owe, g) PROVE Temporary(n, H, due, g)
  <2>1. g \in Obj /\ g # c
    <3>1. ~Temporary(m, H, owe, c)
      BY <1>1, <1>6, BackedIs
    <3> QED BY <1>1, <1>8, <3>1
  <2>2. m.inter = g /\ g \in H /\ m.count[g] = 1 /\ owe[g] = 0 /\ HeldBy(H, m, g) = {} /\ Len(m.elems[g]) =< 1
    BY <1>8 DEF Temporary
  <2>3. Cardinality(HeldBy(H, m, g)) = 0
    BY <2>2, FS_EmptySet
  <2>4. due[g] = 0 /\ Cardinality(HeldBy(H, n, g)) = 0
    <3> DEFINE b == Cardinality(HeldBy(H, n, g))
    <3>1. b \in Nat /\ due[g] \in Nat
      BY <2>1, <1>6
    <3>2. due[g] + b =< owe[g] + Cardinality(HeldBy(H, m, g))
      BY <2>1, <1>6
    <3>3. due[g] + b =< 0
      BY <3>2, <2>2, <2>3
    <3> HIDE DEF b
    <3>4. due[g] = 0 /\ b = 0
      BY <3>1, <3>3
    <3> QED BY <3>4 DEF b
  <2>5. HeldBy(H, n, g) = {}
    BY <2>1, <2>4, <1>6, FS_EmptySet
  <2> QED BY <2>1, <2>2, <2>4, <2>5, <1>3, <1>4 DEF Temporary
<1>9. Ledger(n, H, due, {})
  <2>1. Closed(n, H)
    <3> SUFFICES ASSUME NEW g \in H PROVE ToSet(n.elems[g]) \subseteq H
      BY DEF Closed
    <3>1. ToSet(m.elems[g]) \subseteq H
      BY DEF Sound, SoundBut, Ledger, Closed
    <3> QED BY <3>1, <1>1, <1>4
  <2>2. \A g \in m.alive : Backed(m, H, owe, g) \/ Temporary(m, H, owe, g)
    BY DEF Sound, SoundBut, Ledger
  <2> QED BY <2>1, <2>2, <1>1, <1>3, <1>6, <1>7, <1>8 DEF Ledger
<1>10. Tidy(n) /\ Idle(n)
  <2>1. Tidy(m) /\ Idle(m)
    BY DEF Sound, SoundBut
  <2>2. \A g \in Obj \ m.alive : n.elems[g] = m.elems[g]
    BY <1>1, <1>4
  <2> QED BY <2>1, <2>2, <1>3 DEF Tidy, Idle, SameTables, SameStatus
<1>11. KnownFrom(n, U)
  <2>1. KnownFrom(m, T) /\ (m.reused => n.reused) /\ \A g \in Obj \ m.alive : m.elems[g] = <<>>
    BY <1>3 DEF Sound, SoundBut, Tidy, SameStatus
  <2> DEFINE B == Sources(n, U)
             gone == {}
  <2>2. B \in SUBSET Obj /\ gone \in SUBSET Obj
    BY <1>1, <1>3 DEF Sources, Memory
  <2>3. n.alive \cap gone = {} /\ n.alive \subseteq m.alive \cup B
    BY <1>3
  <2>4. Sources(m, T) \cap m.alive \subseteq B \cup gone
    BY <1>1, <1>3 DEF Sources, SameTables
  <2>5. \A g \in m.alive \ gone : ToSet(m.elems[g]) \cap m.alive \subseteq ToSet(n.elems[g]) \cup B \cup gone
    <3>1. U \subseteq B
      BY DEF Sources
    <3>2. \A g \in m.alive : g # c => n.elems[g] = m.elems[g]
      BY <1>1, <1>4
    <3> QED BY <3>1, <3>2, <1>4
  <2>6. LostNothing(m, T, n, U, gone, B)
    BY <2>1, <2>3, <2>4, <2>5 DEF LostNothing
  <2> HIDE DEF B, gone
  <2> QED BY <1>1, <1>3, <2>1, <2>2, <2>6, KnownStep
<1> QED BY <1>1, <1>3, <1>5, <1>7, <1>9, <1>10, <1>11 DEF Sound, SoundBut, Typed, Carried

\* Nothing differs but whether a freed list was used.
SameBooks(m, n) ==
    SameLists(m, n) /\ SameTables(m, n) /\ SameStatus(m, n) /\ n.inter = m.inter /\ n.count = m.count

\* The books do not depend on whether a freed list was used.
LEMMA SoundFields ==
    ASSUME NEW m, NEW n \in Memory, SameBooks(m, n), NEW H, NEW owe, NEW T, Sound(m, H, owe, T)
    PROVE  Sound(n, H, owe, T) /\ \A g : Backed(m, H, owe, g) <=> Backed(n, H, owe, g)
<1>1. /\ n.alive = m.alive /\ n.elems = m.elems /\ n.count = m.count /\ n.inter = m.inter
      /\ SameTables(m, n) /\ SameStatus(m, n)
  BY DEF SameBooks, SameLists
<1>2. \A g : HeldBy(H, n, g) = HeldBy(H, m, g)
  BY <1>1 DEF HeldBy
<1>3. \A g : Backed(m, H, owe, g) <=> Backed(n, H, owe, g)
  BY <1>1, <1>2 DEF Backed, Intermediate
<1>4. \A g : Temporary(m, H, owe, g) <=> Temporary(n, H, owe, g)
  BY <1>1, <1>2 DEF Temporary
<1>5. Ledger(m, H, owe, {}) /\ Tidy(m) /\ Idle(m) /\ KnownFrom(m, T) /\ owe \in [Obj -> Nat] /\ T \subseteq Obj
  BY DEF Sound, SoundBut, Typed
<1>6. Ledger(n, H, owe, {})
  BY <1>1, <1>2, <1>3, <1>4, <1>5 DEF Ledger, Closed
<1>7. Tidy(n) /\ Idle(n)
  BY <1>1, <1>5 DEF Tidy, Idle, SameTables, SameStatus
<1>8. KnownFrom(n, T)
  BY <1>1, <1>5 DEF KnownFrom, Sources, Closed, SameTables, SameStatus
<1> QED BY <1>3, <1>5, <1>6, <1>7, <1>8 DEF Sound, SoundBut, Typed

Relist(x, f) == [x EXCEPT !.elems = f]

\* The memory m with the elements f.
LEMMA RelistIs ==
    ASSUME NEW m \in Memory, NEW f \in [Obj -> Seq(Obj)]
    PROVE  /\ Relist(m, f) \in Memory /\ Relist(m, f).alive = m.alive /\ Relist(m, f).elems = f
           /\ Relist(m, f).count = m.count /\ Relist(m, f).inter = m.inter
           /\ SameTables(m, Relist(m, f)) /\ SameStatus(m, Relist(m, f))
  BY DEF Relist, Memory, SameTables, SameStatus

\* A freed list is used: nothing else changes.
LEMMA BrokenIs ==
    ASSUME NEW m \in Memory
    PROVE  [m EXCEPT !.broken = TRUE] \in Memory /\ SameBooks(m, [m EXCEPT !.broken = TRUE])
  BY DEF Memory, SameBooks, SameLists, SameTables, SameStatus

\* Memories that are the same but for that are so with other elements.
LEMMA SameRelisted ==
    ASSUME NEW m \in Memory, NEW n \in Memory, SameBooks(m, n), NEW f \in [Obj -> Seq(Obj)]
    PROVE  SameBooks(Relist(m, f), Relist(n, f))
<1>1. /\ Relist(m, f).alive = m.alive /\ Relist(m, f).elems = f
      /\ Relist(m, f).count = m.count /\ Relist(m, f).inter = m.inter
      /\ SameTables(m, Relist(m, f)) /\ SameStatus(m, Relist(m, f))
  BY RelistIs
<1>2. /\ Relist(n, f).alive = n.alive /\ Relist(n, f).elems = f
      /\ Relist(n, f).count = n.count /\ Relist(n, f).inter = n.inter
      /\ SameTables(n, Relist(n, f)) /\ SameStatus(n, Relist(n, f))
  BY RelistIs
<1> QED BY <1>1, <1>2 DEF SameBooks, SameLists, SameTables, SameStatus

\* Losing a reference has nothing to do with the elements.
LEMMA LostRelisted ==
    ASSUME NEW m \in Memory, NEW f \in [Obj -> Seq(Obj)], NEW o \in Obj
    PROVE  /\ Lost(m, o) \in Memory /\ SameLists(m, Lost(m, o))
           /\ SameBooks(Lost(Relist(m, f), o), Relist(Lost(m, o), f))
           /\ Relist(Lost(m, o), f) \in Memory
<1> DEFINE r == Relist(m, f)
           a == Lost(r, o)
           l == Lost(m, o)
           b == Relist(l, f)
<1>1. /\ r \in Memory /\ r.alive = m.alive /\ r.elems = f /\ r.count = m.count /\ r.inter = m.inter
      /\ SameTables(m, r) /\ SameStatus(m, r)
  BY RelistIs
<1> HIDE DEF r
<1>2. /\ a \in Memory /\ SameLists(r, a) /\ SameStatus(r, a)
      /\ a.inter = IF r.count[o] > 1 \/ r.inter # o THEN r.inter ELSE Nil
      /\ a.count = Plus(r.count, o, -1) /\ a.collected = r.collected \ {o}
      /\ a.table = (IF r.collecting THEN r.table
                    ELSE (r.table \ {o}) \cup IF r.count[o] > 1 /\ o \notin r.valid THEN {o} ELSE {})
      /\ a.recursive = (IF r.collecting THEN (r.recursive \ {o}) \cup IF r.count[o] > 1 /\ o \notin r.valid THEN {o} ELSE {}
                        ELSE r.recursive)
  BY <1>1, LostIs
<1>3. /\ l \in Memory /\ SameLists(m, l) /\ SameStatus(m, l)
      /\ l.inter = IF m.count[o] > 1 \/ m.inter # o THEN m.inter ELSE Nil
      /\ l.count = Plus(m.count, o, -1) /\ l.collected = m.collected \ {o}
      /\ l.table = (IF m.collecting THEN m.table
                    ELSE (m.table \ {o}) \cup IF m.count[o] > 1 /\ o \notin m.valid THEN {o} ELSE {})
      /\ l.recursive = (IF m.collecting THEN (m.recursive \ {o}) \cup IF m.count[o] > 1 /\ o \notin m.valid THEN {o} ELSE {}
                        ELSE m.recursive)
  BY LostIs
<1> HIDE DEF l
<1>4. /\ b \in Memory /\ b.alive = l.alive /\ b.elems = f /\ b.count = l.count /\ b.inter = l.inter
      /\ SameTables(l, b) /\ SameStatus(l, b)
  BY <1>3, RelistIs
<1> HIDE DEF a, b
<1>5. SameLists(a, b) /\ b.inter = a.inter /\ b.count = a.count
  BY <1>1, <1>2, <1>3, <1>4 DEF SameLists
<1>6. SameStatus(a, b)
  BY <1>1, <1>2, <1>3, <1>4 DEF SameStatus
<1>7. SameTables(a, b)
  BY <1>1, <1>2, <1>3, <1>4 DEF SameTables, SameStatus
<1> QED BY <1>3, <1>4, <1>5, <1>6, <1>7 DEF a, b, l, r, SameBooks

\* What is left of a list of references, from its place k + 1 on.
Left(s, k, g) == {i \in (k + 1)..Len(s) : s[i] = g}
Owed(base, s, k) == [g \in Obj |-> base[g] + Cardinality(Left(s, k, g))]
Rest(s, k) == {s[i] : i \in (k + 1)..Len(s)}

\* One reference of s has gone.
LEMMA LeftStep ==
    ASSUME NEW s \in Seq(Obj), NEW k \in 0..(Len(s) - 1), NEW base \in [Obj -> Nat]
    PROVE  /\ Owed(base, s, k) \in [Obj -> Nat] /\ s[k + 1] \in Obj /\ Owed(base, s, k)[s[k + 1]] >= 1
           /\ Owed(base, s, k + 1) = Plus(Owed(base, s, k), s[k + 1], -1)
           /\ Owed(base, s, k + 1) \in [Obj -> Nat]
           /\ \A g \in Obj : Owed(base, s, k + 1)[g] =< Owed(base, s, k)[g]
           /\ Rest(s, k) = Rest(s, k + 1) \cup {s[k + 1]} /\ Rest(s, k + 1) \subseteq Obj
<1> DEFINE n == Len(s)
           o == s[k + 1]
<1>1. n \in Nat /\ k + 1 \in 1..n /\ o \in Obj /\ (k + 1)..n = ((k + 2)..n) \cup {k + 1}
      /\ k + 1 \notin (k + 2)..n /\ k + 1 + 1 = k + 2 /\ \A i \in 1..n : s[i] \in Obj
  OBVIOUS
<1>2. ASSUME NEW g \in Obj
      PROVE  /\ Cardinality(Left(s, k, g)) \in Nat /\ Cardinality(Left(s, k + 1, g)) \in Nat
             /\ Cardinality(Left(s, k, g)) = Cardinality(Left(s, k + 1, g)) + IF o = g THEN 1 ELSE 0
  <2>1. Left(s, k + 1, g) \subseteq (k + 2)..n
    BY <1>1 DEF Left
  <2>2. IsFiniteSet((k + 2)..n)
    BY <1>1, FS_Interval
  <2>3. IsFiniteSet(Left(s, k + 1, g)) /\ Cardinality(Left(s, k + 1, g)) \in Nat
    BY <2>1, <2>2, FS_Subset, FS_CardinalityType
  <2>4. Left(s, k, g) = Left(s, k + 1, g) \cup IF o = g THEN {k + 1} ELSE {}
    BY <1>1 DEF Left
  <2>5. k + 1 \notin Left(s, k + 1, g)
    BY <1>1, <2>1
  <2>6. Cardinality(Left(s, k + 1, g) \cup {k + 1}) = Cardinality(Left(s, k + 1, g)) + 1
    BY <2>3, <2>5, FS_AddElement
  <2>7. CASE o = g
    BY <2>3, <2>4, <2>6, <2>7
  <2>8. CASE o # g
    BY <2>3, <2>4, <2>8
  <2> QED BY <2>7, <2>8
<1> HIDE DEF n, o
<1> DEFINE a == Owed(base, s, k)
           b == Owed(base, s, k + 1)
<1>3. ASSUME NEW g \in Obj
      PROVE a[g] \in Nat /\ b[g] \in Nat /\ a[g] = b[g] + IF o = g THEN 1 ELSE 0
  <2>1. base[g] \in Nat
    OBVIOUS
  <2>2. a[g] = base[g] + Cardinality(Left(s, k, g)) /\ b[g] = base[g] + Cardinality(Left(s, k + 1, g))
    BY DEF Owed
  <2> HIDE DEF a, b
  <2> QED BY <2>1, <2>2, <1>2
<1>4. a = [g \in Obj |-> a[g]] /\ b = [g \in Obj |-> b[g]]
  BY DEF Owed
<1> HIDE DEF a, b
<1>5. a \in [Obj -> Nat] /\ b \in [Obj -> Nat]
  BY <1>3, <1>4
<1>6. a[o] >= 1 /\ \A g \in Obj : b[g] =< a[g]
  <2>1. a[o] \in Nat /\ b[o] \in Nat /\ a[o] = b[o] + 1
    BY <1>1, <1>3
  <2>2. ASSUME NEW g \in Obj PROVE b[g] =< a[g]
    <3>1. a[g] \in Nat /\ b[g] \in Nat /\ a[g] = b[g] + IF o = g THEN 1 ELSE 0
      BY <1>3
    <3> QED BY <3>1
  <2> QED BY <2>1, <2>2
<1>7. -1 \in Int
  OBVIOUS
<1>11. a[o] + (-1) >= 0 /\ o \in Obj
  <2>1. a[o] \in Nat
    BY <1>1, <1>3
  <2> QED BY <1>1, <1>6, <2>1
<1>12. Plus(a, o, -1) \in [Obj -> Nat]
  BY <1>11, <1>5, <1>7, PlusNat
<1>13. Plus(a, o, -1)[o] = a[o] + (-1)
  BY <1>11, <1>5, <1>7, PlusNat
<1>14. \A p \in Obj \ {o} : Plus(a, o, -1)[p] = a[p]
  BY <1>11, <1>5, <1>7, PlusNat
<1>8. /\ Plus(a, o, -1) \in [Obj -> Nat] /\ Plus(a, o, -1)[o] = a[o] + (-1)
      /\ \A p \in Obj \ {o} : Plus(a, o, -1)[p] = a[p]
  BY <1>12, <1>13, <1>14
<1>9. b = Plus(a, o, -1)
  <2> DEFINE q == Plus(a, o, -1)
  <2> HIDE DEF q
  <2>1. q \in [Obj -> Nat] /\ q[o] = a[o] + (-1) /\ \A p \in Obj \ {o} : q[p] = a[p]
    BY <1>8 DEF q
  <2>2. ASSUME NEW g \in Obj PROVE b[g] = q[g]
    <3>1. a[g] \in Nat /\ b[g] \in Nat /\ a[g] = b[g] + IF o = g THEN 1 ELSE 0
      BY <1>3
    <3>2. CASE g = o
      <4>1. a[g] = b[g] + 1 /\ q[g] = a[g] + (-1)
        BY <3>1, <3>2, <2>1
      <4> QED BY <3>1, <4>1
    <3>3. CASE g # o
      BY <3>1, <3>3, <2>1
    <3> QED BY <3>2, <3>3
  <2>3. b = q
    BY <1>5, <2>1, <2>2
  <2> QED BY <2>3 DEF q
<1>10. Rest(s, k) = Rest(s, k + 1) \cup {o} /\ Rest(s, k + 1) \subseteq Obj
  BY <1>1 DEF Rest, n, o
<1> QED BY <1>1, <1>5, <1>6, <1>9, <1>10 DEF a, b, o

\* At first all of them are owed, and none at last.
LEMMA LeftEnds ==
    ASSUME NEW s \in Seq(Obj), NEW base \in [Obj -> Nat]
    PROVE  /\ Rest(s, 0) = ToSet(s) /\ Rest(s, Len(s)) = {} /\ Owed(base, s, Len(s)) = base
           /\ Owed(base, s, 0) = [g \in Obj |-> base[g] + Cardinality(Places(s, g))]
<1>1. Len(s) \in Nat /\ DOMAIN s = 1..Len(s) /\ (Len(s) + 1)..Len(s) = {} /\ 0 + 1 = 1
  OBVIOUS
<1>2. Rest(s, 0) = ToSet(s) /\ Rest(s, Len(s)) = {}
  BY <1>1 DEF Rest, ToSet
<1>3. \A g : Left(s, 0, g) = Places(s, g) /\ Left(s, Len(s), g) = {}
  BY <1>1 DEF Left, Places
<1>4. \A g \in Obj : base[g] + Cardinality(Left(s, Len(s), g)) = base[g]
  <2> TAKE g \in Obj
  <2>1. base[g] \in Nat
    OBVIOUS
  <2>2. Cardinality(Left(s, Len(s), g)) = 0
    BY <1>3, FS_EmptySet
  <2> QED BY <2>1, <2>2
<1> QED BY <1>2, <1>3, <1>4 DEF Owed

\* The memories after k references of s have gone.
Dropping(m, f, H, base, U, s, k) ==
    {x \in Memory :
        /\ SameLists(m, x) /\ x.inter = m.inter
        /\ Sound(Relist(x, f), H, Owed(base, s, k), U \cup Rest(s, k))
        /\ \A g \in m.alive : Backed(Relist(m, f), H, Owed(base, s, 0), g)
                                  => Backed(Relist(x, f), H, Owed(base, s, k), g)}

\* One call: the reference was owed, so that it was not the last one.
LEMMA DroppingStep ==
    ASSUME NEW m \in Memory, NEW f \in [Obj -> Seq(Obj)], NEW H, NEW base \in [Obj -> Nat],
           NEW U \in SUBSET Obj, NEW s \in Seq(Obj), NEW k \in 0..(Len(s) - 1),
           NEW x \in Dropping(m, f, H, base, U, s, k)
    PROVE  IF s[k + 1] \in x.alive
           THEN x.count[s[k + 1]] > 1 /\ Lost(x, s[k + 1]) \in Dropping(m, f, H, base, U, s, k + 1)
           ELSE [x EXCEPT !.broken = TRUE] \in Dropping(m, f, H, base, U, s, k + 1)
<1> DEFINE o == s[k + 1]
           a == Owed(base, s, k)
           b == Owed(base, s, k + 1)
           W == U \cup Rest(s, k)
           V == U \cup Rest(s, k + 1)
           r == Relist(x, f)
<1>1. /\ a \in [Obj -> Nat] /\ o \in Obj /\ a[o] >= 1 /\ b = Plus(a, o, -1) /\ b \in [Obj -> Nat]
      /\ \A g \in Obj : b[g] =< a[g]
      /\ W = V \cup {o} /\ V \in SUBSET Obj
  <2>1. /\ Owed(base, s, k) \in [Obj -> Nat] /\ s[k + 1] \in Obj /\ Owed(base, s, k)[s[k + 1]] >= 1
        /\ Owed(base, s, k + 1) = Plus(Owed(base, s, k), s[k + 1], -1)
        /\ Owed(base, s, k + 1) \in [Obj -> Nat]
        /\ \A g \in Obj : Owed(base, s, k + 1)[g] =< Owed(base, s, k)[g]
        /\ Rest(s, k) = Rest(s, k + 1) \cup {s[k + 1]} /\ Rest(s, k + 1) \subseteq Obj
    BY LeftStep
  <2> QED BY <2>1
<1>2. /\ x \in Memory /\ SameLists(m, x) /\ x.inter = m.inter /\ Sound(r, H, a, W)
      /\ \A g \in m.alive : Backed(Relist(m, f), H, Owed(base, s, 0), g) => Backed(r, H, a, g)
  BY DEF Dropping
<1>3. /\ r \in Memory /\ r.alive = x.alive /\ r.elems = f /\ r.count = x.count /\ r.inter = x.inter
  BY <1>2, RelistIs
<1>4. x.alive = m.alive
  BY <1>2 DEF SameLists
<1>5. ASSUME NEW y \in Memory, SameLists(x, y), y.inter = x.inter, Sound(Relist(y, f), H, b, V),
             \A g \in m.alive : Backed(r, H, a, g) => Backed(Relist(y, f), H, b, g)
      PROVE  y \in Dropping(m, f, H, base, U, s, k + 1)
  BY <1>2, <1>5 DEF Dropping, SameLists
<1> HIDE DEF o, a, b, W, V, r
<1>6. CASE o \in x.alive
  <2>1. o \in r.alive
    BY <1>3, <1>6
  <2>2. W \subseteq V \cup {o}
    BY <1>1
  <2>3. /\ r.count[o] > 1 /\ Lost(r, o).inter = r.inter
        /\ Sound(Lost(r, o), H, Plus(a, o, -1), V) /\ Alike(r, H, a, Lost(r, o), Plus(a, o, -1))
    BY <1>1, <1>2, <2>1, <2>2, SoundLost
  <2> DEFINE y == Lost(x, o)
             z == Lost(r, o)
             q == Relist(y, f)
  <2>4. y \in Memory /\ SameLists(x, y) /\ SameBooks(z, q) /\ q \in Memory
    BY <1>1, <1>2, LostRelisted DEF r
  <2>5. Sound(z, H, b, V) /\ z.inter = r.inter /\ \A g \in r.alive : Backed(r, H, a, g) => Backed(z, H, b, g)
    BY <2>3, <1>1 DEF Alike
  <2>6. y.inter = q.inter
    BY <2>4, RelistIs
  <2> HIDE DEF y, z
  <2>7. q.inter = z.inter
    BY <2>4 DEF SameBooks
  <2>8. Sound(q, H, b, V) /\ \A g : Backed(z, H, b, g) <=> Backed(q, H, b, g)
    <3> HIDE DEF q
    <3> QED BY <2>4, <2>5, SoundFields
  <2>9. \A g \in m.alive : Backed(r, H, a, g) => Backed(q, H, b, g)
    BY <1>3, <1>4, <2>5, <2>8
  <2>10. y.inter = x.inter
    BY <2>6, <2>7, <2>5, <1>3
  <2>11. y \in Dropping(m, f, H, base, U, s, k + 1)
    BY <1>5, <2>4, <2>8, <2>9, <2>10
  <2>12. x.count[o] > 1
    BY <1>3, <2>3
  <2> QED BY <1>6, <2>11, <2>12 DEF y, o
<1>7. CASE o \notin x.alive
  <2> DEFINE y == [x EXCEPT !.broken = TRUE]
             q == Relist(y, f)
  <2>1. y \in Memory /\ SameBooks(x, y)
    BY <1>2, BrokenIs
  <2> HIDE DEF y
  <2>2. SameBooks(r, q) /\ q \in Memory
    BY <1>2, <2>1, SameRelisted, RelistIs DEF r
  <2>3. W \cap r.alive \subseteq Sources(r, V)
    BY <1>1, <1>3, <1>7 DEF Sources
  <2>4. Sound(r, H, b, V) /\ \A g \in r.alive : Backed(r, H, a, g) => Backed(r, H, b, g)
    <3>1. b \in [Obj -> Nat] /\ V \in SUBSET Obj /\ Sound(r, H, a, W) /\ \A g \in Obj : b[g] =< a[g]
      BY <1>1, <1>2
    <3>2. Sound(r, H, b, V)
      BY <3>1, <2>3, SoundWiden
    <3>3. \A g \in r.alive : Backed(r, H, a, g) => Backed(r, H, b, g)
      BY <3>1, <2>3, SoundWiden
    <3> QED BY <3>2, <3>3
  <2>5. Sound(q, H, b, V) /\ \A g : Backed(r, H, b, g) <=> Backed(q, H, b, g)
    <3> HIDE DEF q
    <3> QED BY <2>2, <2>4, SoundFields
  <2>6. SameLists(x, y) /\ y.inter = x.inter
    BY <2>1 DEF SameBooks
  <2>7. \A g \in m.alive : Backed(r, H, a, g) => Backed(q, H, b, g)
    BY <1>3, <1>4, <2>4, <2>5
  <2>8. y \in Dropping(m, f, H, base, U, s, k + 1)
    BY <1>5, <2>1, <2>5, <2>6, <2>7
  <2> QED BY <1>7, <2>8 DEF y, o
<1> QED BY <1>6, <1>7 DEF o

Dropped(m, f, H, owe, n, base, U) ==
    /\ n \in Memory /\ SameLists(m, n) /\ n.inter = m.inter
    /\ Sound(Relist(n, f), H, base, U)
    /\ \A g \in m.alive : Backed(Relist(m, f), H, owe, g) => Backed(Relist(n, f), H, base, g)

\* References of the program go, one for each place of s, while the books are kept for
\* the elements f.
LEMMA SoundDropped ==
    ASSUME NEW m \in Memory, NEW f \in [Obj -> Seq(Obj)], NEW H, NEW owe, NEW base \in [Obj -> Nat],
           NEW U \in SUBSET Obj, NEW s \in Seq(Obj),
           Sound(Relist(m, f), H, owe, U \cup ToSet(s)),
           \A g \in Obj : owe[g] = base[g] + Cardinality(Places(s, g))
    PROVE  Dropped(m, f, H, owe, UnrefEach(m, s), base, U)
<1> DEFINE J == [k \in 0..Len(s) |-> Dropping(m, f, H, base, U, s, k)]
           n == UnrefEach(m, s)
<1>1. Len(s) \in Nat /\ 0 \in 0..Len(s) /\ Len(s) \in 0..Len(s)
      /\ \A k \in 0..(Len(s) - 1) : k \in 0..Len(s) /\ k + 1 \in 0..Len(s)
  OBVIOUS
<1>2. /\ Rest(s, 0) = ToSet(s) /\ Rest(s, Len(s)) = {} /\ Owed(base, s, Len(s)) = base
      /\ Owed(base, s, 0) = [g \in Obj |-> base[g] + Cardinality(Places(s, g))]
  BY LeftEnds
<1>3. Owed(base, s, 0) = owe
  <2>1. owe \in [Obj -> Nat]
    BY DEF Sound, SoundBut, Typed
  <2> QED BY <1>2, <2>1
<1>4. m \in J[0]
  <2>1. Sound(Relist(m, f), H, Owed(base, s, 0), U \cup Rest(s, 0))
    BY <1>2, <1>3
  <2>2. m \in Dropping(m, f, H, base, U, s, 0)
    BY <2>1 DEF Dropping, SameLists
  <2> QED BY <1>1, <2>2
<1>5. \A k \in 0..(Len(s) - 1) : \A x \in J[k] :
               IF s[k + 1] \in x.alive
               THEN x.count[s[k + 1]] > 1 /\ Lost(x, s[k + 1]) \in J[k + 1]
               ELSE [x EXCEPT !.broken = TRUE] \in J[k + 1]
  <2> TAKE k \in 0..(Len(s) - 1)
  <2>1. J[k] = Dropping(m, f, H, base, U, s, k) /\ J[k + 1] = Dropping(m, f, H, base, U, s, k + 1)
    BY <1>1
  <2> HIDE DEF J
  <2> TAKE x \in J[k]
  <2>2. x \in Dropping(m, f, H, base, U, s, k)
    BY <2>1
  <2>3. IF s[k + 1] \in x.alive
        THEN x.count[s[k + 1]] > 1 /\ Lost(x, s[k + 1]) \in Dropping(m, f, H, base, U, s, k + 1)
        ELSE [x EXCEPT !.broken = TRUE] \in Dropping(m, f, H, base, U, s, k + 1)
    BY <2>2, DroppingStep
  <2> DEFINE D == Dropping(m, f, H, base, U, s, k + 1)
             D2 == J[k + 1]
  <2>4. D = D2
    BY <2>1
  <2>5. IF s[k + 1] \in x.alive
        THEN x.count[s[k + 1]] > 1 /\ Lost(x, s[k + 1]) \in D
        ELSE [x EXCEPT !.broken = TRUE] \in D
    BY <2>3
  <2> HIDE DEF D, D2
  <2>6. IF s[k + 1] \in x.alive
        THEN x.count[s[k + 1]] > 1 /\ Lost(x, s[k + 1]) \in D2
        ELSE [x EXCEPT !.broken = TRUE] \in D2
    BY <2>4, <2>5
  <2> QED BY <2>6 DEF D2
<1>6. n \in J[Len(s)]
  <2> HIDE DEF J
  <2> QED BY <1>4, <1>5, EachDropped
<1> HIDE DEF n
<1>7. n \in Dropping(m, f, H, base, U, s, Len(s))
  BY <1>1, <1>6
<1>8. /\ n \in Memory /\ SameLists(m, n) /\ n.inter = m.inter
      /\ Sound(Relist(n, f), H, Owed(base, s, Len(s)), U \cup Rest(s, Len(s)))
      /\ \A g \in m.alive : Backed(Relist(m, f), H, Owed(base, s, 0), g)
                                => Backed(Relist(n, f), H, Owed(base, s, Len(s)), g)
  BY <1>7 DEF Dropping
<1>9. U \cup Rest(s, Len(s)) = U
  BY <1>2
<1>10. Dropped(m, f, H, owe, n, base, U)
  BY <1>2, <1>3, <1>8, <1>9 DEF Dropped
<1> QED BY <1>10 DEF n

-----------------------------------------------------------------------------
(* New lists.                                                              *)

Own(m, e) == IF e = <<>> THEN m ELSE Ref(m, e[1])

\* A list to come has a reference to its element.
LEMMA SoundOwn ==
    ASSUME NEW m, NEW H, NEW owe, NEW T, Sound(m, H, owe, T), NEW e \in Seq(Obj), Len(e) =< 1,
           \A c \in ToSet(e) : c \in H /\ Backed(m, H, owe, c)
    PROVE  \E due : /\ Sound(Own(m, e), H, due, T)
                    /\ \A g \in Obj : due[g] = owe[g] + Cardinality(Places(e, g))
                    /\ Alike(m, H, owe, Own(m, e), due)
                    /\ Own(m, e).inter = m.inter /\ Own(m, e).collected = m.collected
<1>1. m \in Memory /\ owe \in [Obj -> Nat] /\ H \subseteq m.alive /\ m.alive \subseteq Obj
  BY DEF Sound, SoundBut, Typed, Ledger, Memory
<1>2. CASE e = <<>>
  <2>1. Own(m, e) = m
    BY <1>2 DEF Own
  <2>2. \A g \in Obj : owe[g] = owe[g] + Cardinality(Places(e, g))
    <3> TAKE g \in Obj
    <3>1. Cardinality(Places(e, g)) = 0 /\ owe[g] \in Nat
      BY <1>1, <1>2, PlacesFew
    <3> QED BY <3>1
  <2>3. Alike(m, H, owe, m, owe)
    BY DEF Alike, SameLists
  <2> QED BY <2>1, <2>2, <2>3
<1>3. ASSUME NEW c \in Obj, e = <<c>>, ToSet(e) = {c}
      PROVE  \E due : /\ Sound(Own(m, e), H, due, T)
                    /\ \A g \in Obj : due[g] = owe[g] + Cardinality(Places(e, g))
                    /\ Alike(m, H, owe, Own(m, e), due)
                    /\ Own(m, e).inter = m.inter /\ Own(m, e).collected = m.collected
  <2>1. Own(m, e) = Ref(m, c)
    BY <1>3 DEF Own
  <2>2. c \in m.alive /\ Backed(m, H, owe, c)
    BY <1>1, <1>3
  <2> DEFINE due == Plus(owe, c, 1)
             n == Ref(m, c)
  <2>3. Sound(n, H, due, T) /\ n.inter = m.inter /\ Alike(m, H, owe, n, due)
    BY <2>2, SoundRef
  <2>4. n.collected = m.collected
    BY <1>1, <1>3, RefIs DEF SameTables
  <2>5. 1 \in Int
    OBVIOUS
  <2>6. owe[c] + 1 >= 0
    BY <1>1
  <2>7. Plus(owe, c, 1)[c] = owe[c] + 1
    BY <1>1, <2>5, <2>6, PlusNat
  <2>8. \A p \in Obj \ {c} : Plus(owe, c, 1)[p] = owe[p]
    BY <1>1, <2>5, <2>6, PlusNat
  <2>9. \A g \in Obj : due[g] = owe[g] + Cardinality(Places(e, g))
    <3> TAKE g \in Obj
    <3>1. Cardinality(Places(<<c>>, g)) = IF c = g THEN 1 ELSE 0
      BY PlacesFew
    <3>2. owe[g] \in Nat
      BY <1>1
    <3>3. CASE g = c
      BY <1>3, <3>1, <3>2, <3>3, <2>7
    <3>4. CASE g # c
      <4>1. Cardinality(Places(e, g)) = 0 /\ due[g] = owe[g]
        BY <1>3, <3>1, <3>4, <2>8
      <4> QED BY <3>2, <4>1
    <3> QED BY <3>3, <3>4
  <2> HIDE DEF due, n
  <2> QED BY <2>1, <2>3, <2>4, <2>9 DEF n
<1> QED BY <1>2, <1>3, FewElements

\* _create_list and its element change nothing else.
LEMMA CreatedIs ==
    ASSUME NEW m, NEW o \in Obj, NEW e \in Seq(Obj), Own(m, e) \in Memory
    PROVE  LET x == Created(m, o, e)
               own == Own(m, e)
           IN  /\ x \in Memory /\ x.alive = own.alive \cup {o} /\ x.count = Put(own.count, o, 0)
               /\ x.elems = Put(own.elems, o, e) /\ x.inter = own.inter /\ SameTables(own, x)
               /\ x.valid = own.valid /\ x.collecting = own.collecting
               /\ x.reused = (own.reused \/ o \in m.collected)
<1> DEFINE own == Own(m, e)
           ct == Put(own.count, o, 0)
           el == Put(own.elems, o, e)
           al == own.alive \cup {o}
           re == (own.reused \/ o \in m.collected)
           x == Created(m, o, e)
<1>1. own \in Memory /\ own.count \in [Obj -> Int] /\ own.elems \in [Obj -> Seq(Obj)]
      /\ al \in SUBSET Obj /\ re \in BOOLEAN
  BY DEF Memory
<1>2. ct \in [Obj -> Int]
  BY <1>1 DEF Put
<1>3. el \in [Obj -> Seq(Obj)]
  BY <1>1 DEF Put
<1>4. x = [own EXCEPT !.alive = al, !.count = ct, !.elems = el, !.reused = re]
  BY DEF Created, Own, Put
<1> HIDE DEF own, ct, el, al, re, x
<1>5. /\ x \in Memory /\ x.alive = al /\ x.count = ct /\ x.elems = el /\ x.inter = own.inter
      /\ SameTables(own, x) /\ x.valid = own.valid /\ x.collecting = own.collecting /\ x.reused = re
  BY <1>1, <1>2, <1>3, <1>4 DEF Memory, SameTables
<1> QED BY <1>5 DEF own, ct, el, al, re, x

\* What is known of a list just made, to which nobody refers yet.
Founded(m, H, owe, T, x, e, o, due) ==
    /\ SoundBut(x, H, due, T \cup {o}, {o})
    /\ \A g \in Obj : due[g] = owe[g] + Cardinality(Places(e, g))
    /\ \A g \in m.alive : Backed(m, H, owe, g) => Backed(x, H, due, g)
    /\ x.inter = m.inter /\ x.count[o] = 0 /\ x.elems[o] = e /\ x.alive = m.alive \cup {o}
    /\ \A g \in m.alive : x.elems[g] = m.elems[g]

\* A list is made.
LEMMA SoundCreated ==
    ASSUME NEW m, NEW H, NEW owe, NEW T, Sound(m, H, owe, T), NEW e \in Seq(Obj), Len(e) =< 1,
           \A c \in ToSet(e) : c \in H /\ Backed(m, H, owe, c),
           NEW o \in Obj \ m.alive
    PROVE  \E due : Founded(m, H, owe, T, Created(m, o, e), e, o, due)
<1> DEFINE x == Created(m, o, e)
           own == Own(m, e)
           W == T \cup {o}
<1>1. PICK due : /\ Sound(own, H, due, T)
                 /\ \A g \in Obj : due[g] = owe[g] + Cardinality(Places(e, g))
                 /\ Alike(m, H, owe, own, due)
                 /\ own.inter = m.inter /\ own.collected = m.collected
  BY SoundOwn
<1>2. own \in Memory /\ own.alive = m.alive /\ own.elems = m.elems
  BY <1>1 DEF Sound, SoundBut, Typed, Alike, SameLists
<1>3. /\ x \in Memory /\ x.alive = own.alive \cup {o} /\ x.count = Put(own.count, o, 0)
      /\ x.elems = Put(own.elems, o, e) /\ x.inter = own.inter /\ SameTables(own, x)
      /\ x.valid = own.valid /\ x.collecting = own.collecting
      /\ x.reused = (own.reused \/ o \in m.collected)
  BY <1>2, CreatedIs
<1> HIDE DEF x, own
<1>4. /\ due \in [Obj -> Nat] /\ H \in SUBSET Obj /\ T \in SUBSET Obj /\ H \subseteq own.alive
      /\ own.count \in [Obj -> Int] /\ own.elems \in [Obj -> Seq(Obj)] /\ own.alive \subseteq Obj
      /\ o \notin H /\ o \notin own.alive /\ o \in Obj /\ W \in SUBSET Obj
      /\ \A g \in Obj : IsFiniteSet(HeldBy(H, own, g))
  BY <1>1, <1>2 DEF Sound, SoundBut, Typed, Ledger, Memory
<1>5. x.count[o] = 0 /\ \A g \in Obj \ {o} : x.count[g] = own.count[g]
  BY <1>3, <1>4 DEF Put
<1>6. x.elems[o] = e /\ \A g \in Obj \ {o} : x.elems[g] = own.elems[g]
  BY <1>3, <1>4 DEF Put
<1>7. \A g : HeldBy(H, x, g) = HeldBy(H, own, g)
  <2> TAKE g
  <2>1. \A c \in H : x.elems[c] = own.elems[c]
    BY <1>4, <1>6
  <2> QED BY <2>1 DEF HeldBy
<1>8. \A g \in own.alive : Backed(own, H, due, g) <=> Backed(x, H, due, g)
  BY <1>3, <1>4, <1>5, <1>7 DEF Backed, Intermediate
<1>9. \A g \in own.alive : Temporary(own, H, due, g) => Temporary(x, H, due, g)
  BY <1>3, <1>4, <1>5, <1>6, <1>7 DEF Temporary
<1>10. Ledger(x, H, due, {o})
  <2>1. Closed(own, H) /\ \A g \in own.alive : Backed(own, H, due, g) \/ Temporary(own, H, due, g)
    BY <1>1 DEF Sound, SoundBut, Ledger
  <2>2. Closed(x, H)
    <3> SUFFICES ASSUME NEW g \in H PROVE ToSet(x.elems[g]) \subseteq H
      BY DEF Closed
    <3>1. x.elems[g] = own.elems[g]
      BY <1>4, <1>6
    <3> QED BY <2>1, <3>1 DEF Closed
  <2>3. \A g \in Obj : IsFiniteSet(HeldBy(H, x, g))
    BY <1>4, <1>7
  <2>4. \A g \in x.alive \ {o} : Backed(x, H, due, g) \/ Temporary(x, H, due, g)
    BY <1>3, <1>8, <1>9, <2>1
  <2>5. H \subseteq x.alive
    BY <1>3, <1>4
  <2> QED BY <2>2, <2>3, <2>4, <2>5 DEF Ledger
<1>11. Tidy(own) /\ Idle(own) /\ KnownFrom(own, T)
  BY <1>1 DEF Sound, SoundBut
<1>12. Tidy(x)
  <2>1. x.inter \in x.alive \cup {Nil}
    BY <1>3, <1>11 DEF Tidy
  <2>2. \A g \in Obj \ x.alive : x.elems[g] = <<>> /\ x.count[g] = 0
    BY <1>3, <1>5, <1>6, <1>11 DEF Tidy
  <2>3. x.table \cup x.recursive \subseteq x.alive \ x.collected
    BY <1>3, <1>11 DEF Tidy, SameTables
  <2>4. x.reused \/ x.collected \cap x.alive = {}
    BY <1>1, <1>3, <1>11 DEF Tidy, SameTables
  <2> QED BY <2>1, <2>2, <2>3, <2>4 DEF Tidy
<1>13. Idle(x)
  BY <1>3, <1>11 DEF Idle, SameTables
<1>14. KnownFrom(x, W)
  <2> DEFINE B == Sources(x, W)
             gone == {}
  <2>1. B \in SUBSET Obj /\ gone \in SUBSET Obj
    BY <1>3, <1>4, ThresholdAssumption DEF Sources, Memory
  <2>2. x.alive \cap gone = {} /\ x.alive \subseteq own.alive \cup B
    BY <1>3 DEF Sources
  <2>3. Sources(own, T) \cap own.alive \subseteq B \cup gone
    BY <1>3 DEF Sources, SameTables
  <2>4. \A g \in own.alive \ gone : ToSet(own.elems[g]) \cap own.alive \subseteq ToSet(x.elems[g]) \cup B \cup gone
    BY <1>4, <1>6
  <2>5. (own.reused => x.reused) /\ \A g \in Obj \ own.alive : own.elems[g] = <<>>
    BY <1>3, <1>11 DEF Tidy
  <2>6. LostNothing(own, T, x, W, gone, B)
    BY <2>2, <2>3, <2>4, <2>5 DEF LostNothing
  <2> HIDE DEF B, gone, W
  <2> QED BY <1>2, <1>3, <1>4, <1>11, <2>1, <2>6, KnownStep
<1>15. SoundBut(x, H, due, W, {o})
  BY <1>3, <1>4, <1>10, <1>12, <1>13, <1>14 DEF SoundBut, Typed
<1>16. \A g \in m.alive : Backed(m, H, owe, g) => Backed(x, H, due, g)
  BY <1>1, <1>2, <1>8 DEF Alike
<1>17. \A g \in m.alive : x.elems[g] = m.elems[g]
  BY <1>2, <1>4, <1>6
<1>18. x.inter = m.inter /\ x.alive = m.alive \cup {o}
  BY <1>1, <1>2, <1>3
<1>19. Founded(m, H, owe, T, x, e, o, due)
  BY <1>1, <1>5, <1>6, <1>15, <1>16, <1>17, <1>18 DEF Founded
<1> QED BY <1>19 DEF x

\* The program refers to lists in H only.
Covers(H, owe) == \A g \in Obj : owe[g] >= 1 => g \in H

IsPlaced(z, o, w) == w = Ref([z EXCEPT !.inter = o], o)

\* InterSet, where how the value was placed is named.
LEMMA InterPut ==
    ASSUME NEW z, NEW K, NEW owe, NEW T, NEW S, SoundBut(z, K, owe, T, S), z.inter = Nil,
           NEW o \in z.alive, NEW U \in SUBSET Obj, T \subseteq U \cup {o},
           NEW w, IsPlaced(z, o, w)
    PROVE  SoundBut(w, K, owe, U, S) /\ Alike(z, K, owe, w, owe) /\ w.inter = o /\ w.count[o] = z.count[o] + 1
<1>1. w = Ref([z EXCEPT !.inter = o], o)
  BY DEF IsPlaced
<1>2. SoundBut(w, K, owe, U, S)
  BY <1>1, InterSet
<1>3. Alike(z, K, owe, w, owe)
  BY <1>1, InterSet
<1>4. w.inter = o
  BY <1>1, InterSet
<1>5. w.count[o] = z.count[o] + 1
  BY <1>1, InterSet
<1> QED BY <1>2, <1>3, <1>4, <1>5

\* A list is made and put down.
LEMMA SoundMade ==
    ASSUME NEW m, NEW H, NEW owe, NEW T, Sound(m, H, owe, T), Covers(H, owe),
           NEW e \in Seq(Obj), Len(e) =< 1,
           \A c \in ToSet(e) : c \in H /\ Backed(m, H, owe, c),
           NEW o \in Obj \ m.alive
    PROVE  LET w == PutDown(Created(m, o, e), o)
           IN  \E K : /\ Sound(w, K, owe, T) /\ Carried(m, H, owe, w, K, owe)
                      /\ o \in K /\ w.inter = o /\ w.elems[o] = e
<1> DEFINE x == Created(m, o, e)
           z == NoIntermediate(x)
           w == PutDown(x, o)
           W == T \cup {o}
<1>0. /\ m \in Memory /\ owe \in [Obj -> Nat] /\ H \subseteq m.alive /\ T \in SUBSET Obj /\ W \in SUBSET Obj
      /\ o \in Obj /\ o \notin m.alive /\ o \notin H /\ m.inter \in m.alive \cup {Nil} /\ o # Nil /\ m.alive \subseteq Obj
  BY ThresholdAssumption DEF Sound, SoundBut, Typed, Ledger, Tidy, Memory
<1>1. PICK due :
          /\ SoundBut(x, H, due, W, {o})
          /\ \A g \in Obj : due[g] = owe[g] + Cardinality(Places(e, g))
          /\ \A g \in m.alive : Backed(m, H, owe, g) => Backed(x, H, due, g)
          /\ x.inter = m.inter /\ x.count[o] = 0 /\ x.elems[o] = e /\ x.alive = m.alive \cup {o}
          /\ \A g \in m.alive : x.elems[g] = m.elems[g]
  <2> HIDE DEF x
  <2>1. \E due : Founded(m, H, owe, T, x, e, o, due)
    BY SoundCreated DEF x
  <2> QED BY <2>1 DEF Founded
<1> HIDE DEF x
<1>2. {o} \cap H = {} /\ x.inter \notin {o}
  BY <1>0, <1>1
<1>3. PICK K \in SUBSET H : SoundBut(z, K, due, W, {o}) /\ Survives(x, H, due, {o}, z, K)
  BY <1>1, <1>2, InterGone
<1>4. w = Ref([z EXCEPT !.inter = o], o)
  BY PutDownIs
<1> HIDE DEF z, w
<1>5. z.inter = Nil /\ o \in z.alive /\ z.count[o] = 0 /\ z.elems[o] = e /\ z.alive \subseteq x.alive
      /\ \A g \in z.alive : z.elems[g] = x.elems[g]
  BY <1>1, <1>3 DEF Survives
<1>6. W \subseteq T \cup {o}
  OBVIOUS
<1>7. SoundBut(w, K, due, T, {o}) /\ Alike(z, K, due, w, due) /\ w.inter = o /\ w.count[o] = 0 + 1
  <2> DEFINE S == {o}
  <2>0. SoundBut(z, K, due, W, S) /\ z.inter = Nil /\ o \in z.alive /\ T \in SUBSET Obj /\ W \subseteq T \cup {o}
    BY <1>0, <1>3, <1>5
  <2>1. IsPlaced(z, o, w)
    BY <1>4 DEF IsPlaced
  <2> HIDE DEF W, S
  <2>2. SoundBut(w, K, due, T, S)
    BY <2>0, <2>1, InterPut
  <2>3. Alike(z, K, due, w, due)
    BY <2>0, <2>1, <2>2, InterPut
  <2>4. w.inter = o
    BY <2>0, <2>1, <2>2, InterPut
  <2>5. w.count[o] = z.count[o] + 1
    BY <2>0, <2>1, <2>2, InterPut
  <2> QED BY <2>2, <2>3, <2>4, <2>5, <1>5 DEF S
<1> DEFINE L == K \cup {o}
<1>8. /\ w \in Memory /\ w.elems = z.elems /\ w.alive = z.alive /\ w.elems[o] = e /\ due \in [Obj -> Nat]
      /\ w.elems \in [Obj -> Seq(Obj)] /\ w.count \in [Obj -> Int]
      /\ K \subseteq w.alive /\ Closed(w, K) /\ o \notin K /\ \A g \in Obj : IsFiniteSet(HeldBy(K, w, g))
  BY <1>0, <1>3, <1>5, <1>7 DEF SoundBut, Typed, Ledger, Alike, SameLists, Memory
<1>9. ToSet(e) \subseteq K
  <2> SUFFICES ASSUME NEW c \in ToSet(e) PROVE c \in K
    OBVIOUS
  <2>1. c \in H /\ Backed(m, H, owe, c)
    OBVIOUS
  <2>2. c \in m.alive /\ Backed(x, H, due, c)
    BY <1>0, <1>1, <2>1
  <2> QED BY <2>1, <2>2, <1>3 DEF Survives
<1>10. ASSUME NEW g \in Obj
       PROVE /\ IsFiniteSet(HeldBy(L, w, g)) /\ Cardinality(HeldBy(K, w, g)) \in Nat
             /\ Cardinality(HeldBy(L, w, g)) = Cardinality(HeldBy(K, w, g)) + Cardinality(Places(e, g))
             /\ Cardinality(Places(e, g)) \in Nat
  <2>1. IsFiniteSet(HeldBy(K, w, g)) /\ o \notin K /\ w.elems[o] \in Seq(Obj)
    BY <1>8
  <2>2. IsFiniteSet(HeldBy(L, w, g)) /\ Cardinality(HeldBy(K, w, g)) \in Nat
    BY <2>1, HeldByMore
  <2>3. Cardinality(HeldBy(L, w, g)) = Cardinality(HeldBy(K, w, g)) + Cardinality(Places(w.elems[o], g))
    BY <2>1, HeldByMore
  <2>4. Cardinality(Places(e, g)) \in Nat
    BY PlacesFinite
  <2> QED BY <1>8, <2>2, <2>3, <2>4
<1>11. ASSUME NEW g \in Obj, Backed(w, K, due, g) PROVE Backed(w, L, owe, g)
  <2> DEFINE a == Cardinality(HeldBy(K, w, g))
             p == Cardinality(Places(e, g))
             b == Cardinality(HeldBy(L, w, g))
             i == Intermediate(w, g)
  <2>1. a \in Nat /\ p \in Nat /\ b = a + p /\ i \in Nat /\ owe[g] \in Nat /\ due[g] = owe[g] + p /\ w.count[g] \in Int
    BY <1>0, <1>1, <1>8, <1>10 DEF Intermediate
  <2>2. w.count[g] > due[g] + i + a
    BY <1>11 DEF Backed
  <2> HIDE DEF a, p, b, i
  <2>3. w.count[g] > owe[g] + i + b
    BY <2>1, <2>2
  <2> QED BY <2>3 DEF Backed, b, i
<1>12. Temporary(w, L, owe, o)
  <2>1. owe[o] = 0
    <3>1. ~(owe[o] >= 1) /\ owe[o] \in Nat
      BY <1>0 DEF Covers
    <3> QED BY <3>1
  <2>2. HeldBy(L, w, o) = {}
    <3>1. \A c \in K : o \notin ToSet(w.elems[c])
      BY <1>8 DEF Closed
    <3>2. \A c \in L : o \notin ToSet(w.elems[c])
      BY <1>8, <1>9, <3>1
    <3>3. \A c \in L : Places(w.elems[c], o) = {}
      BY <3>2 DEF Places, ToSet
    <3> QED BY <3>3 DEF HeldBy
  <2>3. w.count[o] = 1
    BY <1>7
  <2>4. o \in L /\ w.inter = o /\ Len(w.elems[o]) =< 1
    BY <1>7, <1>8
  <2> QED BY <2>1, <2>2, <2>3, <2>4 DEF Temporary
<1>13. Ledger(w, L, owe, {})
  <2>1. \A g \in w.alive \ {o} : Backed(w, K, due, g)
    <3>1. \A g \in w.alive \ {o} : Backed(w, K, due, g) \/ Temporary(w, K, due, g)
      BY <1>7 DEF SoundBut, Ledger
    <3> QED BY <3>1, <1>7 DEF Temporary
  <2>2. \A g \in w.alive \ {o} : Backed(w, L, owe, g)
    BY <1>8, <1>11, <2>1 DEF Memory
  <2>3. Closed(w, L)
    BY <1>8, <1>9 DEF Closed
  <2>4. L \subseteq w.alive
    BY <1>5, <1>8
  <2> QED BY <1>10, <1>12, <2>2, <2>3, <2>4 DEF Ledger
<1>14. Sound(w, L, owe, T)
  BY <1>0, <1>7, <1>13 DEF Sound, SoundBut, Typed
<1>15. Carried(m, H, owe, w, L, owe)
  <2> SUFFICES ASSUME NEW g \in m.alive, Backed(m, H, owe, g)
               PROVE  g \in w.alive /\ Backed(w, L, owe, g) /\ (g \in H => g \in L)
    BY DEF Carried
  <2>1. g \in x.alive /\ Backed(x, H, due, g) /\ g \in Obj
    BY <1>0, <1>1
  <2>2. g \in z.alive /\ Backed(z, K, due, g) /\ (g \in H => g \in K)
    BY <2>1, <1>3 DEF Survives
  <2>3. Backed(w, K, due, g)
    BY <2>2, <1>7 DEF Alike
  <2> QED BY <2>1, <2>2, <2>3, <1>8, <1>11
<1>16. o \in L
  OBVIOUS
<1> HIDE DEF L
<1> QED BY <1>7, <1>8, <1>14, <1>15, <1>16 DEF w, x

-----------------------------------------------------------------------------
(* The values of expressions.                                              *)

\* A reference taken and given back.
LEMMA PlusBack ==
    ASSUME NEW owe \in [Obj -> Nat], NEW o \in Obj
    PROVE  /\ Plus(owe, o, 1) \in [Obj -> Nat] /\ Plus(owe, o, 1)[o] = owe[o] + 1
           /\ \A g \in Obj \ {o} : Plus(owe, o, 1)[g] = owe[g]
           /\ \A g \in Obj : Plus(owe, o, 1)[g] >= owe[g]
           /\ Plus(owe, o, 1)[o] >= 1
           /\ Plus(Plus(owe, o, 1), o, -1) = owe
<1>1. 1 \in Int
  OBVIOUS
<1>2. -1 \in Int
  OBVIOUS
<1>3. owe[o] + 1 >= 0
  OBVIOUS
<1> DEFINE a == Plus(owe, o, 1)
           b == Plus(a, o, -1)
<1>4. a \in [Obj -> Nat]
  BY <1>1, <1>3, PlusNat
<1>5. a[o] = owe[o] + 1
  BY <1>1, <1>3, PlusNat
<1>6. \A g \in Obj \ {o} : a[g] = owe[g]
  BY <1>1, <1>3, PlusNat
<1> HIDE DEF a
<1>7. a[o] + (-1) >= 0
  BY <1>5
<1>8. b \in [Obj -> Nat]
  BY <1>2, <1>4, <1>7, PlusNat
<1>9. b[o] = a[o] + (-1)
  BY <1>2, <1>4, <1>7, PlusNat
<1>10. \A g \in Obj \ {o} : b[g] = a[g]
  BY <1>2, <1>4, <1>7, PlusNat
<1> HIDE DEF b
<1>11. ASSUME NEW g \in Obj PROVE b[g] = owe[g] /\ a[g] >= owe[g]
  <2>1. owe[g] \in Nat
    OBVIOUS
  <2>2. CASE g = o
    <3>1. a[g] = owe[g] + 1 /\ b[g] = a[g] + (-1)
      BY <2>2, <1>5, <1>9
    <3> QED BY <2>1, <3>1
  <2>3. CASE g # o
    <3>1. a[g] = owe[g] /\ b[g] = a[g]
      BY <2>3, <1>6, <1>10
    <3> QED BY <2>1, <3>1
  <2> QED BY <2>2, <2>3
<1>12. b = owe
  BY <1>8, <1>11
<1>13. a[o] >= 1
  BY <1>5
<1> QED BY <1>4, <1>5, <1>6, <1>11, <1>12, <1>13 DEF a, b

\* One step after the other.
LEMMA CarriedOn ==
    ASSUME NEW m, NEW H, NEW owe, NEW n, NEW K, NEW due, Carried(m, H, owe, n, K, due),
           NEW x, NEW L, NEW owes, Carried(n, K, due, x, L, owes)
    PROVE  Carried(m, H, owe, x, L, owes)
  BY DEF Carried

\* A step that changes no list carries on.
LEMMA AlikeCarries ==
    ASSUME NEW m, NEW H, NEW owe, NEW n, NEW due, Alike(m, H, owe, n, due)
    PROVE  Carried(m, H, owe, n, H, due)
  BY DEF Carried, Alike, SameLists

\* The list of POP without its last element.
LEMMA ShorterIs ==
    ASSUME NEW m, NEW c
    PROVE  Shorter(m, c) = [Ref(m, c) EXCEPT !.elems = Put(Ref(m, c).elems, c, Front(Ref(m, c).elems[c]))]
  BY DEF Shorter

\* POP takes the last element from its list, whose reference is the statement's now.
LEMMA SoundShorter ==
    ASSUME NEW m, NEW H, NEW owe, NEW T, Sound(m, H, owe, T), NEW c \in H, Backed(m, H, owe, c),
           m.elems[c] # <<>>
    PROVE  LET e == Last(m.elems[c])
               n == Shorter(m, c)
               due == Plus(Plus(owe, c, 1), e, 1)
           IN  /\ Sound(n, H, due, T \cup {e}) /\ Carried(m, H, owe, n, H, due)
               /\ e \in H /\ Backed(n, H, due, e) /\ n.alive = m.alive
<1> DEFINE a == Ref(m, c)
           one == Plus(owe, c, 1)
           t == Front(m.elems[c])
           e == Last(m.elems[c])
           n == Shorter(m, c)
           due == Plus(one, e, 1)
<1>1. /\ m \in Memory /\ owe \in [Obj -> Nat] /\ H \subseteq m.alive /\ H \subseteq Obj /\ c \in m.alive
      /\ T \in SUBSET Obj /\ m.elems[c] \in Seq(Obj) /\ ToSet(m.elems[c]) \subseteq H
  BY DEF Sound, SoundBut, Typed, Ledger, Memory, Closed
<1>2. Sound(a, H, one, T) /\ Alike(m, H, owe, a, one)
  BY <1>1, SoundRef
<1>3. a.elems = m.elems /\ a.alive = m.alive /\ Backed(a, H, one, c) /\ a \in Memory
  BY <1>1, <1>2 DEF Alike, SameLists, Sound, SoundBut, Typed
<1>4. one \in [Obj -> Nat]
  BY <1>1, PlusBack
<1>5. \A g \in Obj : /\ t \in Seq(Obj) /\ e \in Obj /\ ToSet(m.elems[c]) = ToSet(t) \cup {e}
           /\ Cardinality(Places(m.elems[c], g)) = Cardinality(Places(t, g)) + IF e = g THEN 1 ELSE 0
  BY <1>1, PlacesFront
<1>6. t \in Seq(Obj) /\ e \in Obj /\ ToSet(m.elems[c]) = ToSet(t) \cup {e} /\ e \in H /\ ToSet(t) \subseteq H
  BY <1>1, <1>5
<1>7. Relisted(a, c, t, n)
  <2>1. n = [a EXCEPT !.elems = Put(a.elems, c, Front(a.elems[c]))]
    BY ShorterIs
  <2> HIDE DEF n, a
  <2> QED BY <2>1, <1>3 DEF Relisted
<1> HIDE DEF a, n, one, e, t
<1>8. /\ due \in [Obj -> Nat] /\ due[e] = one[e] + 1 /\ due[e] >= 1
      /\ \A g \in Obj \ {e} : due[g] = one[g]
  BY <1>4, <1>6, PlusBack
<1> HIDE DEF due
<1>9. ASSUME NEW g \in Obj
      PROVE due[g] + Cardinality(Places(t, g)) =< one[g] + Cardinality(Places(a.elems[c], g))
  <2>1. one[g] \in Nat /\ due[g] \in Nat /\ Cardinality(Places(t, g)) \in Nat
    BY <1>4, <1>6, <1>8, PlacesFinite
  <2>2. Cardinality(Places(a.elems[c], g)) = Cardinality(Places(t, g)) + IF e = g THEN 1 ELSE 0
    BY <1>3, <1>5
  <2>3. due[g] = one[g] + IF e = g THEN 1 ELSE 0
    <3>1. CASE g = e
      <4>1. due[g] = one[g] + 1
        BY <3>1, <1>8
      <4> QED BY <3>1, <4>1
    <3>2. CASE g # e
      <4>1. due[g] = one[g]
        BY <3>2, <1>8
      <4> QED BY <3>2, <4>1, <2>1
    <3> QED BY <3>1, <3>2
  <2> DEFINE d == IF e = g THEN 1 ELSE 0
  <2>4. d \in Nat /\ due[g] = one[g] + d /\ Cardinality(Places(a.elems[c], g)) = Cardinality(Places(t, g)) + d
    BY <2>2, <2>3
  <2> HIDE DEF d
  <2> QED BY <2>1, <2>4
<1> DEFINE U == T \cup {e}
<1>10. U \in SUBSET Obj /\ T \subseteq U /\ ToSet(a.elems[c]) \subseteq ToSet(t) \cup U /\ ToSet(t) \subseteq H
       /\ t \in Seq(Obj) /\ due \in [Obj -> Nat]
  BY <1>1, <1>3, <1>6, <1>8
<1> HIDE DEF U
<1>11. Sound(n, H, due, U)
  BY <1>2, <1>3, <1>7, <1>9, <1>10, SoundRelisted
<1>12. Carried(a, H, one, n, H, due) /\ n.alive = a.alive
  BY <1>2, <1>3, <1>7, <1>9, <1>10, <1>11, SoundRelisted
<1>13. Carried(m, H, owe, a, H, one)
  BY <1>2, AlikeCarries
<1>14. Carried(m, H, owe, n, H, due)
  BY <1>12, <1>13, CarriedOn
<1>15. Backed(n, H, due, e)
  <2>1. e \in n.alive
    BY <1>1, <1>3, <1>6, <1>12
  <2> QED BY <1>8, <1>11, <2>1, OwedIsBacked
<1> QED BY <1>3, <1>6, <1>11, <1>12, <1>14, <1>15 DEF U, e, n, due, one

\* What an expression leaves: its value is backed, and so is what was.
Valued(m, H, owe, T, n, o, K) ==
    /\ Sound(n, K, owe, T \cup {o}) /\ o \in K /\ Backed(n, K, owe, o)
    /\ Carried(m, H, owe, n, K, owe)

\* An owed list is backed and among the lists in H.
LEMMA OwedIs ==
    ASSUME NEW m, NEW H, NEW owe, NEW T, Sound(m, H, owe, T), Covers(H, owe),
           NEW c \in Obj, owe[c] >= 1
    PROVE  c \in H /\ c \in m.alive /\ Backed(m, H, owe, c)
<1>1. c \in H /\ c \in m.alive
  BY DEF Covers, Sound, SoundBut, Ledger
<1> QED BY <1>1, OwedIsBacked

\* The value of a call is taken up.
LEMMA ValuedTaken ==
    ASSUME NEW m, NEW H, NEW owe, NEW T \in SUBSET Obj, NEW u, NEW K, Sound(u, K, owe, T),
           Carried(m, H, owe, u, K, owe), NEW o \in K, NEW n, TakenUp(u, o) = <<n, o>>
    PROVE  Valued(m, H, owe, T, n, o, K)
<1> DEFINE U == T \cup {o}
<1>1. o \in Obj
  BY DEF Sound, SoundBut, Ledger, Typed, Memory
<1>2. U \in SUBSET Obj /\ T \cup {o} \subseteq U
  BY <1>1
<1> HIDE DEF U
<1>3. Sound(n, K, owe, U)
  BY <1>2, SoundTaken
<1>4. Alike(u, K, owe, n, owe) /\ Backed(n, K, owe, o)
  BY <1>2, <1>3, SoundTaken
<1>5. Carried(u, K, owe, n, K, owe)
  BY <1>4, AlikeCarries
<1>6. Carried(m, H, owe, n, K, owe)
  BY <1>5, CarriedOn
<1> QED BY <1>3, <1>4, <1>6 DEF U, Valued

\* TakenUp yields its value.
LEMMA TakenPair ==
    ASSUME NEW u, NEW o
    PROVE  \E n : TakenUp(u, o) = <<n, o>>
  BY DEF TakenUp

\* A variable's value.
LEMMA ValuedSpared ==
    ASSUME NEW m, NEW H, NEW owe, NEW T, Sound(m, H, owe, T), Covers(H, owe),
           NEW c \in Obj, owe[c] >= 1
    PROVE  Valued(m, H, owe, T, m, c, H)
<1> DEFINE U == T \cup {c}
<1>1. owe \in [Obj -> Nat] /\ U \in SUBSET Obj /\ T \cap m.alive \subseteq Sources(m, U)
  BY DEF Sound, SoundBut, Typed, Sources
<1> HIDE DEF U
<1>2. \A g \in Obj : owe[g] =< owe[g]
  <2> TAKE g \in Obj
  <2>1. owe[g] \in Nat
    BY <1>1
  <2> QED BY <2>1
<1>3. Sound(m, H, owe, U)
  BY <1>1, <1>2, SoundWiden
<1>4. c \in H /\ Backed(m, H, owe, c)
  BY OwedIs
<1>5. Carried(m, H, owe, m, H, owe)
  BY DEF Carried
<1> QED BY <1>3, <1>4, <1>5 DEF Valued, U

\* A new list.
LEMMA ValuedNew ==
    ASSUME NEW m, NEW H, NEW owe, NEW T, Sound(m, H, owe, T), Covers(H, owe),
           NEW e \in Seq(Obj), Len(e) =< 1,
           \A c \in ToSet(e) : c \in H /\ Backed(m, H, owe, c),
           NEW o \in Obj \ m.alive, NEW n, NewList(m, o, e) = <<n, o>>
    PROVE  \E K : Valued(m, H, owe, T, n, o, K)
<1> DEFINE w == PutDown(Created(m, o, e), o)
<1>1. PICK K : /\ Sound(w, K, owe, T) /\ Carried(m, H, owe, w, K, owe)
               /\ o \in K /\ w.inter = o /\ w.elems[o] = e
  BY SoundMade
<1>2. TakenUp(w, o) = <<n, o>> /\ T \in SUBSET Obj
  BY DEF NewList, Sound, SoundBut, Typed
<1> HIDE DEF w
<1>3. Valued(m, H, owe, T, n, o, K)
  BY <1>1, <1>2, ValuedTaken
<1> QED BY <1>3

\* An element of a variable's list.
LEMMA ValuedGot ==
    ASSUME NEW m, NEW H, NEW owe, NEW T, Sound(m, H, owe, T), Covers(H, owe),
           NEW c \in Obj, owe[c] >= 1, NEW i \in DOMAIN m.elems[c],
           NEW n, Got(m, c, i) = <<n, m.elems[c][i]>>
    PROVE  \E K : Valued(m, H, owe, T, n, m.elems[c][i], K)
<1> DEFINE e == m.elems[c][i]
           a == Ref(m, c)
           w == PutDown(a, e)
           u == Unref(w, c)
           one == Plus(owe, c, 1)
<1>1. c \in H /\ c \in m.alive /\ Backed(m, H, owe, c)
  BY OwedIs
<1>2. /\ owe \in [Obj -> Nat] /\ T \in SUBSET Obj /\ T \subseteq T \cup {c} /\ e \in ToSet(m.elems[c])
      /\ \A x \in Obj : T \subseteq T \cup {x}
  BY DEF Sound, SoundBut, Typed, ToSet
<1>3. TakenUp(u, e) = <<n, e>>
  BY DEF Got
<1>4. Sound(a, H, one, T) /\ Alike(m, H, owe, a, one)
  BY <1>1, SoundRef
<1>5. /\ one \in [Obj -> Nat] /\ one[c] = owe[c] + 1 /\ one[c] >= 1 /\ Plus(one, c, -1) = owe
  BY <1>2, PlusBack
<1>6. a.elems = m.elems /\ a.alive = m.alive /\ Backed(a, H, one, c)
  BY <1>1, <1>4 DEF Alike, SameLists
<1> HIDE DEF e, a, w, u, one
<1>7. e \in ToSet(a.elems[c])
  BY <1>2, <1>6
<1>8. e \in H /\ e \in Obj /\ Backed(a, H, one, e)
  BY <1>1, <1>4, <1>7, ElementIsBacked
<1>9. PICK K \in SUBSET H : Sound(w, K, one, T) /\ w.inter = e /\ Carried(a, H, one, w, K, one)
  <2>1. T \subseteq T \cup {e}
    OBVIOUS
  <2> QED BY <1>2, <1>4, <1>8, <2>1, SoundPutDown DEF w
<1>10. c \in w.alive /\ c \in K /\ e \in K
  <2>1. e \in a.alive
    BY <1>4, <1>8 DEF Sound, SoundBut, Ledger
  <2> QED BY <1>1, <1>6, <1>8, <1>9, <2>1 DEF Carried
<1>11. Sound(u, K, Plus(one, c, -1), T)
  BY <1>2, <1>5, <1>9, <1>10, SoundUnref DEF u
<1>12. Alike(w, K, one, u, Plus(one, c, -1))
  BY <1>2, <1>5, <1>9, <1>10, <1>11, SoundUnref DEF u
<1>13. Sound(u, K, owe, T) /\ Carried(w, K, one, u, K, owe)
  BY <1>5, <1>11, <1>12, AlikeCarries
<1>14. Carried(m, H, owe, a, H, one)
  BY <1>4, AlikeCarries
<1>15. Carried(m, H, owe, w, K, one)
  BY <1>9, <1>14, CarriedOn
<1>16. Carried(m, H, owe, u, K, owe)
  BY <1>13, <1>15, CarriedOn
<1>17. Valued(m, H, owe, T, n, e, K)
  BY <1>2, <1>3, <1>10, <1>13, <1>16, ValuedTaken
<1> QED BY <1>17 DEF e

\* The last element, taken from a variable's list.
LEMMA ValuedPopped ==
    ASSUME NEW m, NEW H, NEW owe, NEW T, Sound(m, H, owe, T), Covers(H, owe),
           NEW c \in Obj, owe[c] >= 1, m.elems[c] # <<>>,
           NEW n, Popped(m, c) = <<n, Last(m.elems[c])>>
    PROVE  \E K : Valued(m, H, owe, T, n, Last(m.elems[c]), K)
<1> DEFINE e == Last(m.elems[c])
           b == Shorter(m, c)
           w == PutDown(b, e)
           v == Unref(w, e)
           u == Unref(v, c)
           one == Plus(owe, c, 1)
           two == Plus(one, e, 1)
           W == T \cup {e}
<1>1. c \in H /\ c \in m.alive /\ Backed(m, H, owe, c)
  BY OwedIs
<1>2. owe \in [Obj -> Nat] /\ T \in SUBSET Obj /\ H \subseteq Obj /\ H \subseteq m.alive
  BY DEF Sound, SoundBut, Typed, Ledger, Memory
<1>3. TakenUp(u, e) = <<n, e>>
  BY DEF Popped
<1>4. /\ Sound(b, H, two, W) /\ Carried(m, H, owe, b, H, two)
      /\ e \in H /\ Backed(b, H, two, e) /\ b.alive = m.alive
  <2>1. LET x == Last(m.elems[c])
            y == Shorter(m, c)
            due == Plus(Plus(owe, c, 1), x, 1)
        IN  /\ Sound(y, H, due, T \cup {x}) /\ Carried(m, H, owe, y, H, due)
            /\ x \in H /\ Backed(y, H, due, x) /\ y.alive = m.alive
    BY <1>1, SoundShorter
  <2> QED BY <2>1
<1>5. e \in Obj /\ W \in SUBSET Obj /\ W \subseteq T \cup {e} /\ W \subseteq W \cup {e} /\ T \subseteq T \cup {c}
  BY <1>2, <1>4
<1>6. /\ one \in [Obj -> Nat] /\ one[c] >= 1 /\ Plus(one, c, -1) = owe
  BY <1>2, PlusBack
<1> HIDE DEF one, b, w, v, u, e, W
<1>7. /\ two \in [Obj -> Nat] /\ two[e] >= 1 /\ Plus(two, e, -1) = one /\ \A g \in Obj : two[g] >= one[g]
  BY <1>5, <1>6, PlusBack
<1> HIDE DEF two
<1>8. PICK K \in SUBSET H : Sound(w, K, two, W) /\ Carried(b, H, two, w, K, two)
  BY <1>4, <1>5, SoundPutDown DEF w
<1>9. e \in w.alive /\ e \in K /\ c \in K /\ c \in w.alive
  <2>1. e \in b.alive /\ Backed(b, H, two, c)
    BY <1>1, <1>2, <1>4 DEF Carried
  <2> QED BY <1>1, <1>4, <1>8, <2>1 DEF Carried
<1>10. Sound(v, K, Plus(two, e, -1), T)
  BY <1>2, <1>5, <1>7, <1>8, <1>9, SoundUnref DEF v
<1>11. Alike(w, K, two, v, Plus(two, e, -1))
  BY <1>2, <1>5, <1>7, <1>8, <1>9, <1>10, SoundUnref DEF v
<1>12. Sound(v, K, one, T) /\ Alike(w, K, two, v, one) /\ c \in v.alive
  BY <1>7, <1>9, <1>10, <1>11 DEF Alike, SameLists
<1>13. Sound(u, K, Plus(one, c, -1), T)
  BY <1>2, <1>5, <1>6, <1>12, SoundUnref DEF u
<1>14. Alike(v, K, one, u, Plus(one, c, -1))
  BY <1>2, <1>5, <1>6, <1>12, <1>13, SoundUnref DEF u
<1>15. Sound(u, K, owe, T) /\ Carried(v, K, one, u, K, owe) /\ Carried(w, K, two, v, K, one)
  BY <1>6, <1>12, <1>13, <1>14, AlikeCarries
<1>16. Carried(m, H, owe, w, K, two)
  BY <1>4, <1>8, CarriedOn
<1>17. Carried(m, H, owe, v, K, one)
  BY <1>15, <1>16, CarriedOn
<1>18. Carried(m, H, owe, u, K, owe)
  BY <1>15, <1>17, CarriedOn
<1>19. Valued(m, H, owe, T, n, e, K)
  BY <1>2, <1>3, <1>9, <1>15, <1>18, ValuedTaken
<1> QED BY <1>19 DEF e

\* The value of any expression.
LEMMA SoundValues ==
    ASSUME NEW m, NEW H, NEW owe, NEW T, Sound(m, H, owe, T), Covers(H, owe),
           Roots \subseteq Obj, \A c \in Roots : owe[c] >= 1, NEW r \in Values(m)
    PROVE  \E K : Valued(m, H, owe, T, r[1], r[2], K)
<1>6. r \in ValuesOfVar(m) => \E c \in Roots : r = <<m, c>>
  BY DEF ValuesOfVar
<1>7. r \in ValuesOfList(m) => \E o \in Obj \ m.alive, e \in Elements : r = NewList(m, o, e)
  BY DEF ValuesOfList
<1>8. r \in ValuesOfGet(m) => \E c \in Roots : \E i \in DOMAIN m.elems[c] : r = Got(m, c, i)
  BY DEF ValuesOfGet
<1>9. r \in ValuesOfPop(m) => \E c \in Roots : m.elems[c] # <<>> /\ r = Popped(m, c)
  BY DEF ValuesOfPop
<1>5. \/ \E c \in Roots : r = <<m, c>>
      \/ \E o \in Obj \ m.alive, e \in Elements : r = NewList(m, o, e)
      \/ \E c \in Roots : \E i \in DOMAIN m.elems[c] : r = Got(m, c, i)
      \/ \E c \in Roots : m.elems[c] # <<>> /\ r = Popped(m, c)
  BY <1>6, <1>7, <1>8, <1>9 DEF Values
<1>1. CASE \E c \in Roots : r = <<m, c>>
  <2>1. PICK c \in Roots : r = <<m, c>>
    BY <1>1
  <2>2. Valued(m, H, owe, T, m, c, H)
    BY <2>1, ValuedSpared
  <2> QED BY <2>1, <2>2
<1>2. CASE \E o \in Obj \ m.alive, e \in Elements : r = NewList(m, o, e)
  <2>1. PICK o \in Obj \ m.alive, e \in Elements : r = NewList(m, o, e)
    BY <1>2
  <2>2. e \in Seq(Obj) /\ Len(e) =< 1 /\ ToSet(e) \subseteq Roots
    <3>1. e = <<>> \/ \E c \in Roots : e = <<c>>
      BY DEF Elements
    <3>2. CASE e = <<>>
      BY <3>2 DEF ToSet
    <3>3. ASSUME NEW c \in Roots, e = <<c>> PROVE e \in Seq(Obj) /\ Len(e) =< 1 /\ ToSet(e) \subseteq Roots
      <4>1. e \in Seq(Obj) /\ Len(e) = 1 /\ e[1] = c /\ DOMAIN e = 1..1
        BY <3>3
      <4> QED BY <4>1 DEF ToSet
    <3> QED BY <3>1, <3>2, <3>3
  <2>3. \A c \in ToSet(e) : c \in H /\ Backed(m, H, owe, c)
    BY <2>2, OwedIs
  <2>4. PICK n : NewList(m, o, e) = <<n, o>>
    BY TakenPair DEF NewList
  <2>5. \E K : Valued(m, H, owe, T, n, o, K)
    BY <2>2, <2>3, <2>4, ValuedNew
  <2>6. r[1] = n /\ r[2] = o
    BY <2>1, <2>4
  <2> QED BY <2>5, <2>6
<1>3. CASE \E c \in Roots : \E i \in DOMAIN m.elems[c] : r = Got(m, c, i)
  <2>1. PICK c \in Roots : \E i \in DOMAIN m.elems[c] : r = Got(m, c, i)
    BY <1>3
  <2>2. PICK i \in DOMAIN m.elems[c] : r = Got(m, c, i)
    BY <2>1
  <2>3. PICK n : Got(m, c, i) = <<n, m.elems[c][i]>>
    BY TakenPair DEF Got
  <2>4. \E K : Valued(m, H, owe, T, n, m.elems[c][i], K)
    BY <2>2, <2>3, ValuedGot
  <2>5. r[1] = n /\ r[2] = m.elems[c][i]
    BY <2>2, <2>3
  <2> QED BY <2>4, <2>5
<1>4. CASE \E c \in Roots : m.elems[c] # <<>> /\ r = Popped(m, c)
  <2>1. PICK c \in Roots : m.elems[c] # <<>> /\ r = Popped(m, c)
    BY <1>4
  <2>2. PICK n : Popped(m, c) = <<n, Last(m.elems[c])>>
    BY TakenPair DEF Popped
  <2>3. \E K : Valued(m, H, owe, T, n, Last(m.elems[c]), K)
    BY <2>1, <2>2, ValuedPopped
  <2>4. r[1] = n /\ r[2] = Last(m.elems[c])
    BY <2>1, <2>2
  <2> QED BY <2>3, <2>4
<1> QED BY <1>1, <1>2, <1>3, <1>4, <1>5

-----------------------------------------------------------------------------
(* The invariant of the specification, and what the program refers to.     *)

\* The variables that hold a list, and what the program refers to: they, and what the
\* running statement holds.
Vars(sc, o) == {v \in Var : sc[v] = o}
Owe(sc, hl) == [o \in Obj |-> Cardinality(Vars(sc, o)) + Cardinality(Places(hl, o))]

\* Between statements, and at their ends, with the roots R.
StatementSound(m, R, owe, hl) ==
    \E H \in SUBSET Obj : R \subseteq H /\ Sound(m, H, owe, R \cup ToSet(hl))

\* While the collector runs: what can be reached from the roots is valid, and the rest
\* may have lost references that it held.
Collected(m, R, owe, hl, H) ==
    /\ m.collecting /\ m.valid = Closure(m, R)
    /\ (m.table \cup m.recursive) \cap m.valid = {}
    /\ \A o \in m.alive : m.count[o] > 0
    /\ Typed(m, owe, R \cup ToSet(hl)) /\ Tidy(m) /\ KnownFrom(m, R \cup ToSet(hl))
    /\ H \in {m.valid, m.valid \cup ({m.inter} \ {Nil})}
    /\ Ledger(m, H, owe, m.table \cup m.recursive)
CollectorSound(m, R, owe, hl) == \E H : Collected(m, R, owe, hl, H)

GcTypes ==
    /\ mem \in Memory
    /\ scope \in [Var -> Obj \cup {Nil}]
    /\ held \in Seq(Obj)
    /\ phase \in {"run", "collect", "end"}

GcInv ==
    /\ GcTypes
    /\ phase = "run" => held = <<>>
    /\ phase # "collect" => StatementSound(mem, Roots, Owe(scope, held), held)
    /\ phase = "collect" => CollectorSound(mem, Roots, Owe(scope, held), held)

-----------------------------------------------------------------------------
\* The variables that hold a list can be counted.
LEMMA VarsFinite ==
    ASSUME NEW sc, NEW o
    PROVE  IsFiniteSet(Vars(sc, o)) /\ Cardinality(Vars(sc, o)) \in Nat
<1>1. Vars(sc, o) \subseteq Var
  BY DEF Vars
<1> QED BY <1>1, FiniteAssumption, FS_Subset, FS_CardinalityType

\* What the program owes is a number.
LEMMA OweNat ==
    ASSUME NEW sc, NEW hl \in Seq(Obj)
    PROVE  Owe(sc, hl) \in [Obj -> Nat]
<1>1. \A g \in Obj : Cardinality(Vars(sc, g)) \in Nat /\ Cardinality(Places(hl, g)) \in Nat
  BY VarsFinite, PlacesFinite
<1> QED BY <1>1 DEF Owe

\* The roots are owed.
LEMMA OweRoots ==
    ASSUME NEW sc \in [Var -> Obj \cup {Nil}], NEW hl \in Seq(Obj), NEW v \in Var, NEW c \in Obj, sc[v] = c
    PROVE  Owe(sc, hl)[c] >= 1
<1>1. v \in Vars(sc, c)
  BY DEF Vars
<1>2. Cardinality(Vars(sc, c)) # 0 /\ Cardinality(Vars(sc, c)) \in Nat
  BY <1>1, VarsFinite, FS_EmptySet
<1>3. Cardinality(Places(hl, c)) \in Nat
  BY PlacesFinite
<1>4. Owe(sc, hl)[c] = Cardinality(Vars(sc, c)) + Cardinality(Places(hl, c))
  BY DEF Owe
<1> QED BY <1>2, <1>3, <1>4

\* Only the roots are, between statements.
LEMMA OweOnly ==
    ASSUME NEW sc, NEW c \in Obj, Owe(sc, <<>>)[c] >= 1
    PROVE  \E v \in Var : sc[v] = c
<1> SUFFICES ASSUME \A v \in Var : sc[v] # c PROVE FALSE
  OBVIOUS
<1>1. Vars(sc, c) = {}
  BY DEF Vars
<1>2. Cardinality(Vars(sc, c)) = 0 /\ Cardinality(Places(<<>>, c)) = 0
  BY <1>1, FS_EmptySet, PlacesFew
<1>3. Owe(sc, <<>>)[c] = 0 + 0
  BY <1>2 DEF Owe
<1> QED BY <1>3

\* What a statement that holds lists owes.
LEMMA OweHeld ==
    ASSUME NEW sc, NEW c \in Obj, NEW e \in Obj
    PROVE  /\ Owe(sc, <<c>>) = Plus(Owe(sc, <<>>), c, 1)
           /\ Owe(sc, <<e, c>>) = Plus(Plus(Owe(sc, <<>>), c, 1), e, 1)
<1> DEFINE a == Owe(sc, <<>>)
           b == Owe(sc, <<c>>)
           d == Owe(sc, <<e, c>>)
           p == Plus(a, c, 1)
           q == Plus(p, e, 1)
<1>1. <<>> \in Seq(Obj) /\ <<c>> \in Seq(Obj) /\ <<e, c>> \in Seq(Obj)
  OBVIOUS
<1>2. a \in [Obj -> Nat] /\ b \in [Obj -> Nat] /\ d \in [Obj -> Nat]
  BY <1>1, OweNat
<1>3. ASSUME NEW g \in Obj
      PROVE  /\ b[g] = a[g] + IF c = g THEN 1 ELSE 0
             /\ d[g] = a[g] + (IF e = g THEN 1 ELSE 0) + IF c = g THEN 1 ELSE 0
  <2>1. /\ a[g] = Cardinality(Vars(sc, g)) + Cardinality(Places(<<>>, g))
        /\ b[g] = Cardinality(Vars(sc, g)) + Cardinality(Places(<<c>>, g))
        /\ d[g] = Cardinality(Vars(sc, g)) + Cardinality(Places(<<e, c>>, g))
    BY DEF Owe
  <2>2. /\ Cardinality(Places(<<>>, g)) = 0 /\ Cardinality(Places(<<c>>, g)) = IF c = g THEN 1 ELSE 0
        /\ Cardinality(Places(<<e, c>>, g)) = (IF e = g THEN 1 ELSE 0) + IF c = g THEN 1 ELSE 0
    BY PlacesFew
  <2>3. Cardinality(Vars(sc, g)) \in Nat
    BY VarsFinite
  <2> DEFINE n == Cardinality(Vars(sc, g))
             i == IF c = g THEN 1 ELSE 0
             j == IF e = g THEN 1 ELSE 0
  <2>4. n \in Nat /\ i \in Nat /\ j \in Nat /\ a[g] = n + 0 /\ b[g] = n + i /\ d[g] = n + (j + i)
    BY <2>1, <2>2, <2>3
  <2> HIDE DEF n, a, b, d
  <2>5. b[g] = a[g] + i /\ d[g] = a[g] + j + i
    <3> HIDE DEF i, j
    <3> QED BY <2>4
  <2> QED BY <2>5
<1> HIDE DEF a, b, d
<1>4. p \in [Obj -> Nat] /\ p[c] = a[c] + 1 /\ \A g \in Obj \ {c} : p[g] = a[g]
  BY <1>2, PlusBack
<1> HIDE DEF p
<1>5. q \in [Obj -> Nat] /\ q[e] = p[e] + 1 /\ \A g \in Obj \ {e} : q[g] = p[g]
  BY <1>4, PlusBack
<1> HIDE DEF q
<1>6. ASSUME NEW g \in Obj PROVE b[g] = p[g] /\ d[g] = q[g]
  <2>1. a[g] \in Nat /\ p[g] \in Nat /\ q[g] \in Nat
    BY <1>2, <1>4, <1>5
  <2>2. p[g] = a[g] + IF c = g THEN 1 ELSE 0
    <3>1. CASE c = g
      BY <3>1, <1>4
    <3>2. CASE c # g
      BY <3>2, <1>4, <2>1
    <3> QED BY <3>1, <3>2
  <2>3. q[g] = p[g] + IF e = g THEN 1 ELSE 0
    <3>1. CASE e = g
      BY <3>1, <1>5
    <3>2. CASE e # g
      BY <3>2, <1>5, <2>1
    <3> QED BY <3>1, <3>2
  <2> QED BY <1>3, <2>1, <2>2, <2>3
<1>7. b = p /\ d = q
  BY <1>2, <1>4, <1>5, <1>6
<1> QED BY <1>7 DEF a, b, d, p, q

One(b) == IF b THEN 1 ELSE 0

\* A variable gets another value: one variable less holds the old list, one more the new.
LEMMA VarsMoved ==
    ASSUME NEW sc \in [Var -> Obj \cup {Nil}], NEW v \in Var, NEW c \in Obj \cup {Nil}, NEW g \in Obj
    PROVE  Cardinality(Vars(Put(sc, v, c), g)) + One(sc[v] = g) = Cardinality(Vars(sc, g)) + One(c = g)
<1> DEFINE new == Put(sc, v, c)
           A == Vars(sc, g) \ {v}
<1>1. new \in [Var -> Obj \cup {Nil}] /\ new[v] = c /\ \A w \in Var \ {v} : new[w] = sc[w]
  BY DEF Put
<1> HIDE DEF new
<1>2. Vars(sc, g) = (IF sc[v] = g THEN A \cup {v} ELSE A) /\ Vars(new, g) = (IF c = g THEN A \cup {v} ELSE A)
  BY <1>1 DEF Vars
<1>3. A \subseteq Vars(sc, g) /\ v \notin A
  OBVIOUS
<1>4. IsFiniteSet(A) /\ Cardinality(A) \in Nat
  BY <1>3, VarsFinite, FS_Subset, FS_CardinalityType
<1>5. Cardinality(A \cup {v}) = Cardinality(A) + 1
  BY <1>3, <1>4, FS_AddElement
<1> HIDE DEF A
<1>6. Cardinality(Vars(sc, g)) = Cardinality(A) + One(sc[v] = g)
  <2>1. CASE sc[v] = g
    BY <2>1, <1>2, <1>5 DEF One
  <2>2. CASE sc[v] # g
    BY <2>2, <1>2, <1>4 DEF One
  <2> QED BY <2>1, <2>2
<1>7. Cardinality(Vars(new, g)) = Cardinality(A) + One(c = g)
  <2>1. CASE c = g
    BY <2>1, <1>2, <1>5 DEF One
  <2>2. CASE c # g
    BY <2>2, <1>2, <1>4 DEF One
  <2> QED BY <2>1, <2>2
<1>8. One(sc[v] = g) \in Nat /\ One(c = g) \in Nat
  BY DEF One
<1> DEFINE i == One(sc[v] = g)
           j == One(c = g)
           k == Cardinality(A)
           x == Cardinality(Vars(sc, g))
           y == Cardinality(Vars(new, g))
<1>9. i \in Nat /\ j \in Nat /\ k \in Nat /\ x = k + i /\ y = k + j
  BY <1>4, <1>6, <1>7, <1>8
<1> HIDE DEF i, j, k, x, y
<1>10. y + i = x + j
  BY <1>9
<1> QED BY <1>10 DEF i, j, x, y, new

\* And so for what is owed.
LEMMA OweScope ==
    ASSUME NEW sc \in [Var -> Obj \cup {Nil}], NEW v \in Var, NEW c \in Obj \cup {Nil}
    PROVE  /\ Owe(sc, <<>>) \in [Obj -> Nat] /\ Owe(Put(sc, v, c), <<>>) \in [Obj -> Nat]
           /\ \A g \in Obj : Owe(Put(sc, v, c), <<>>)[g] + One(sc[v] = g) = Owe(sc, <<>>)[g] + One(c = g)
<1> DEFINE new == Put(sc, v, c)
           a == Owe(sc, <<>>)
           b == Owe(new, <<>>)
<1>1. <<>> \in Seq(Obj)
  OBVIOUS
<1>2. a \in [Obj -> Nat] /\ b \in [Obj -> Nat]
  BY <1>1, OweNat
<1>3. ASSUME NEW g \in Obj PROVE b[g] + One(sc[v] = g) = a[g] + One(c = g)
  <2> DEFINE x == Cardinality(Vars(sc, g))
             y == Cardinality(Vars(new, g))
  <2>1. x \in Nat /\ y \in Nat
    BY VarsFinite
  <2>2. y + One(sc[v] = g) = x + One(c = g)
    BY VarsMoved
  <2>3. Cardinality(Places(<<>>, g)) = 0
    BY PlacesFew
  <2>4. a[g] = x + 0 /\ b[g] = y + 0
    BY <2>3 DEF Owe
  <2> HIDE DEF a, b, x, y
  <2> QED BY <2>1, <2>2, <2>4
<1> HIDE DEF a, b
<1>4. \A g \in Obj : b[g] + One(sc[v] = g) = a[g] + One(c = g)
  BY <1>3
<1> QED BY <1>2, <1>4 DEF a, b, new

\* A variable gives up the list it holds.
LEMMA OweGiven ==
    ASSUME NEW sc \in [Var -> Obj \cup {Nil}], NEW v \in Var, sc[v] # Nil
    PROVE  Owe(Put(sc, v, Nil), <<>>) = Plus(Owe(sc, <<>>), sc[v], -1)
<1> DEFINE a == Owe(sc, <<>>)
           b == Owe(Put(sc, v, Nil), <<>>)
           o == sc[v]
<1>1. o \in Obj /\ <<>> \in Seq(Obj) /\ Nil \in Obj \cup {Nil}
  OBVIOUS
<1>2. a \in [Obj -> Nat] /\ b \in [Obj -> Nat] /\ \A g \in Obj : b[g] + One(o = g) = a[g] + One(Nil = g)
  BY <1>1, OweScope
<1>3. a[o] >= 1
  BY <1>1, OweRoots
<1> HIDE DEF a, b, o
<1>4. -1 \in Int
  OBVIOUS
<1>5. a[o] + (-1) >= 0
  BY <1>1, <1>2, <1>3
<1> DEFINE p == Plus(a, o, -1)
<1>6. p \in [Obj -> Nat]
  BY <1>1, <1>2, <1>4, <1>5, PlusNat
<1>7. p[o] = a[o] + (-1)
  BY <1>1, <1>2, <1>4, <1>5, PlusNat
<1>8. \A g \in Obj \ {o} : p[g] = a[g]
  BY <1>1, <1>2, <1>4, <1>5, PlusNat
<1> HIDE DEF p
<1>9. ASSUME NEW g \in Obj PROVE b[g] = p[g]
  <2>1. One(Nil = g) = 0
    BY ThresholdAssumption DEF One
  <2>2. a[g] \in Nat /\ b[g] \in Nat /\ b[g] + One(o = g) = a[g]
    BY <1>2, <2>1
  <2>3. CASE o = g
    <3>1. b[g] + 1 = a[g] /\ p[g] = a[g] + (-1)
      BY <2>2, <2>3, <1>7 DEF One
    <3> QED BY <2>2, <3>1
  <2>4. CASE o # g
    <3>1. b[g] + 0 = a[g] /\ p[g] = a[g]
      BY <2>2, <2>4, <1>8 DEF One
    <3> QED BY <2>2, <3>1
  <2> QED BY <2>3, <2>4
<1>10. b = p
  BY <1>2, <1>6, <1>9
<1> QED BY <1>10 DEF a, b, o, p

\* A variable takes one.
LEMMA OweTaken ==
    ASSUME NEW sc \in [Var -> Obj \cup {Nil}], NEW v \in Var, sc[v] = Nil, NEW c \in Obj
    PROVE  Owe(Put(sc, v, c), <<>>) = Plus(Owe(sc, <<>>), c, 1)
<1> DEFINE a == Owe(sc, <<>>)
           b == Owe(Put(sc, v, c), <<>>)
<1>2. a \in [Obj -> Nat] /\ b \in [Obj -> Nat] /\ \A g \in Obj : b[g] + One(sc[v] = g) = a[g] + One(c = g)
  <2>1. c \in Obj \cup {Nil}
    OBVIOUS
  <2> QED BY <2>1, OweScope
<1> HIDE DEF a, b
<1> DEFINE p == Plus(a, c, 1)
<1>3. p \in [Obj -> Nat] /\ p[c] = a[c] + 1 /\ \A g \in Obj \ {c} : p[g] = a[g]
  BY <1>2, PlusBack
<1> HIDE DEF p
<1>9. ASSUME NEW g \in Obj PROVE b[g] = p[g]
  <2>1. One(sc[v] = g) = 0
    BY ThresholdAssumption DEF One
  <2>2. a[g] \in Nat /\ b[g] \in Nat /\ b[g] + 0 = a[g] + One(c = g)
    BY <1>2, <2>1
  <2>3. CASE c = g
    <3>1. b[g] + 0 = a[g] + 1 /\ p[g] = a[g] + 1
      BY <2>2, <2>3, <1>3 DEF One
    <3> QED BY <2>2, <3>1
  <2>4. CASE c # g
    <3>1. b[g] + 0 = a[g] + 0 /\ p[g] = a[g]
      BY <2>2, <2>4, <1>3 DEF One
    <3> QED BY <2>2, <3>1
  <2> QED BY <2>3, <2>4
<1>10. b = p
  BY <1>2, <1>3, <1>9
<1> QED BY <1>10 DEF a, b, p

\* And one after the other.
LEMMA OweAssigned ==
    ASSUME NEW sc \in [Var -> Obj \cup {Nil}], NEW v \in Var, sc[v] # Nil, NEW c \in Obj
    PROVE  Owe(Put(sc, v, c), <<>>) = Plus(Plus(Owe(sc, <<>>), sc[v], -1), c, 1)
<1> DEFINE mid == Put(sc, v, Nil)
           new == Put(sc, v, c)
<1>1. mid \in [Var -> Obj \cup {Nil}] /\ mid[v] = Nil /\ Put(mid, v, c) = new
  BY DEF Put
<1>2. Owe(mid, <<>>) = Plus(Owe(sc, <<>>), sc[v], -1)
  BY OweGiven
<1> HIDE DEF mid, new
<1>3. Owe(new, <<>>) = Plus(Owe(mid, <<>>), c, 1)
  BY <1>1, OweTaken
<1> QED BY <1>2, <1>3 DEF new

RootsOf(sc) == {sc[v] : v \in Var} \ {Nil}

\* The roots are lists, and just what is owed between statements.
LEMMA RootsAre ==
    ASSUME NEW sc \in [Var -> Obj \cup {Nil}], NEW hl \in Seq(Obj)
    PROVE  /\ RootsOf(sc) \in SUBSET Obj /\ \A c \in RootsOf(sc) : Owe(sc, hl)[c] >= 1
           /\ \A c \in Obj : Owe(sc, <<>>)[c] >= 1 => c \in RootsOf(sc)
<1>1. RootsOf(sc) \in SUBSET Obj
  BY DEF RootsOf
<1>2. ASSUME NEW c \in RootsOf(sc) PROVE Owe(sc, hl)[c] >= 1
  <2>1. PICK v \in Var : sc[v] = c
    BY DEF RootsOf
  <2>2. c \in Obj
    BY <1>1
  <2> QED BY <2>1, <2>2, OweRoots
<1>3. ASSUME NEW c \in Obj, Owe(sc, <<>>)[c] >= 1 PROVE c \in RootsOf(sc)
  <2>1. PICK v \in Var : sc[v] = c
    BY <1>3, OweOnly
  <2> QED BY <2>1, ThresholdAssumption DEF RootsOf
<1> QED BY <1>1, <1>2, <1>3

\* When a variable gets another value, its old list is the only root that may go.
LEMMA RootsMove ==
    ASSUME NEW sc \in [Var -> Obj \cup {Nil}], NEW v \in Var, NEW c \in Obj \cup {Nil}
    PROVE  /\ RootsOf(sc) \subseteq RootsOf(Put(sc, v, c)) \cup {sc[v]}
           /\ RootsOf(Put(sc, v, c)) \subseteq RootsOf(sc) \cup ({c} \ {Nil})
           /\ {c} \ {Nil} \subseteq RootsOf(Put(sc, v, c))
           /\ Put(sc, v, c) \in [Var -> Obj \cup {Nil}]
<1>1. /\ Put(sc, v, c) \in [Var -> Obj \cup {Nil}] /\ Put(sc, v, c)[v] = c
      /\ \A w \in Var \ {v} : Put(sc, v, c)[w] = sc[w]
  BY DEF Put
<1> QED BY <1>1 DEF RootsOf

NoneHeld == <<>> \in Seq(Obj) /\ ToSet(<<>>) = {}
\* No list is held between statements.
LEMMA HeldNone == NoneHeld
  BY DEF ToSet, NoneHeld

\* v = value: the old value goes, and the new one is counted.
LEMMA SoundAssigned ==
    ASSUME NEW sc \in [Var -> Obj \cup {Nil}], NEW v \in Var,
           NEW m, NEW H, RootsOf(sc) \subseteq H, Sound(m, H, Owe(sc, <<>>), RootsOf(sc)),
           NEW n, NEW c, NEW K, Valued(m, H, Owe(sc, <<>>), RootsOf(sc), n, c, K)
    PROVE  /\ StatementSound(Ref(UnrefIfAny(n, sc[v]), c), RootsOf(Put(sc, v, c)), Owe(Put(sc, v, c), <<>>), <<>>)
           /\ c \in Obj
<1> DEFINE a == Owe(sc, <<>>)
           b == Owe(Put(sc, v, c), <<>>)
           R == RootsOf(sc)
           S == RootsOf(Put(sc, v, c))
           old == sc[v]
           u == UnrefIfAny(n, old)
           w == Ref(u, c)
<1>1. Sound(n, K, a, R \cup {c}) /\ c \in K /\ Backed(n, K, a, c) /\ Carried(m, H, a, n, K, a)
  BY DEF Valued
<1>2. c \in Obj /\ K \subseteq n.alive /\ K \subseteq Obj /\ H \subseteq m.alive
  BY <1>1 DEF Sound, SoundBut, Typed, Ledger, Memory
<1>3. /\ R \subseteq S \cup {old} /\ S \subseteq R \cup {c} /\ c \in S /\ S \in SUBSET Obj
  <2>1. c # Nil /\ c \in Obj \cup {Nil}
    BY <1>2, ThresholdAssumption
  <2>2. Put(sc, v, c) \in [Var -> Obj \cup {Nil}]
    BY <2>1, RootsMove
  <2>3. S \in SUBSET Obj
    BY <2>2, HeldNone, RootsAre DEF NoneHeld
  <2> QED BY <2>1, <2>3, RootsMove
<1>4. ASSUME NEW g \in R PROVE g \in K /\ a[g] >= 1
  <2>1. a[g] >= 1 /\ g \in Obj /\ g \in H /\ g \in m.alive
    BY <1>2, HeldNone, RootsAre DEF NoneHeld
  <2>2. Backed(m, H, a, g)
    BY <2>1, OwedIsBacked
  <2> QED BY <1>1, <2>1, <2>2 DEF Carried
<1>5. S \subseteq K
  BY <1>1, <1>3, <1>4
<1> HIDE DEF a, b, R, S, u, w
<1>6. PICK mid : Sound(u, K, mid, S) /\ Backed(u, K, mid, c) /\ c \in u.alive /\ Plus(mid, c, 1) = b
  <2>1. CASE old = Nil
    <3>1. u = n /\ b = Plus(a, c, 1)
      BY <1>2, <2>1, OweTaken DEF u, UnrefIfAny, a, b
    <3>2. R \cup {c} \subseteq S
      <4>1. Nil \notin R
        BY DEF R, RootsOf
      <4> QED BY <1>3, <2>1, <4>1
    <3>3. (R \cup {c}) \cap n.alive \subseteq Sources(n, S)
      BY <3>2 DEF Sources
    <3>4. \A g \in Obj : a[g] =< a[g]
      <4> TAKE g \in Obj
      <4>1. a[g] \in Nat
        BY <1>1 DEF Sound, SoundBut, Typed
      <4> QED BY <4>1
    <3>5. a \in [Obj -> Nat]
      BY <1>1 DEF Sound, SoundBut, Typed
    <3> DEFINE W == R \cup {c}
    <3>6. Sound(n, K, a, W) /\ W \cap n.alive \subseteq Sources(n, S)
      BY <1>1, <3>3
    <3> HIDE DEF W
    <3>7. Sound(n, K, a, S)
      BY <1>3, <3>4, <3>5, <3>6, SoundWiden
    <3> QED BY <1>1, <1>2, <3>1, <3>7
  <2>2. CASE old # Nil
    <3>1. u = Unref(n, old) /\ b = Plus(Plus(a, old, -1), c, 1)
      BY <1>2, <2>2, OweAssigned DEF u, UnrefIfAny, a, b
    <3>2. old \in R
      BY <2>2 DEF R, RootsOf
    <3>3. old \in K /\ old \in n.alive /\ a[old] >= 1
      BY <1>2, <1>4, <3>2
    <3>4. R \cup {c} \subseteq S \cup {old}
      BY <1>3
    <3> DEFINE W == R \cup {c}
               d == Plus(a, old, -1)
    <3>5. Sound(n, K, a, W) /\ W \subseteq S \cup {old}
      BY <1>1, <3>4
    <3> HIDE DEF W, old
    <3>6. Sound(u, K, d, S)
      BY <1>3, <3>1, <3>3, <3>5, SoundUnref
    <3>7. Alike(n, K, a, u, d)
      BY <1>3, <3>1, <3>3, <3>5, <3>6, SoundUnref
    <3>8. Backed(u, K, d, c) /\ c \in u.alive
      BY <1>1, <1>2, <3>7 DEF Alike, SameLists
    <3> HIDE DEF d
    <3>9. Plus(d, c, 1) = b
      BY <3>1 DEF d
    <3> QED BY <3>6, <3>8, <3>9
  <2> QED BY <2>1, <2>2
<1>7. Sound(w, K, b, S)
  <2>1. Sound(Ref(u, c), K, Plus(mid, c, 1), S)
    BY <1>6, SoundRef
  <2> QED BY <1>6, <2>1 DEF w
<1>8. StatementSound(w, S, b, <<>>)
  <2>1. S \cup ToSet(<<>>) = S
    BY HeldNone DEF NoneHeld
  <2> QED BY <1>2, <1>5, <1>7, <2>1 DEF StatementSound
<1> QED BY <1>2, <1>8 DEF S, b, w, u

\* v = 0: the old value goes.
LEMMA SoundForgotten ==
    ASSUME NEW sc \in [Var -> Obj \cup {Nil}], NEW v \in Var, sc[v] # Nil,
           NEW m, NEW H, RootsOf(sc) \subseteq H, Sound(m, H, Owe(sc, <<>>), RootsOf(sc))
    PROVE  StatementSound(Unref(m, sc[v]), RootsOf(Put(sc, v, Nil)), Owe(Put(sc, v, Nil), <<>>), <<>>)
<1> DEFINE a == Owe(sc, <<>>)
           b == Owe(Put(sc, v, Nil), <<>>)
           R == RootsOf(sc)
           S == RootsOf(Put(sc, v, Nil))
           old == sc[v]
           u == Unref(m, old)
<1>1. Nil \in Obj \cup {Nil} /\ old \in R /\ old \in Obj
  BY DEF RootsOf
<1>2. R \subseteq S \cup {old} /\ S \subseteq R
  BY <1>1, RootsMove
<1>3. H \subseteq m.alive /\ H \in SUBSET Obj /\ R \in SUBSET Obj
  BY DEF Sound, SoundBut, Typed, Ledger, Memory
<1>4. old \in m.alive /\ a[old] >= 1
  BY <1>1, <1>3, HeldNone, RootsAre DEF NoneHeld
<1>5. b = Plus(a, old, -1)
  BY OweGiven
<1>6. S \in SUBSET Obj /\ S \subseteq H
  BY <1>2, <1>3
<1>7. Sound(m, H, a, R)
  OBVIOUS
<1> HIDE DEF a, b, R, S, old
<1>8. Sound(u, H, Plus(a, old, -1), S)
  BY <1>2, <1>4, <1>6, <1>7, SoundUnref
<1>9. StatementSound(u, S, b, <<>>)
  <2>1. S \cup ToSet(<<>>) = S
    BY HeldNone DEF NoneHeld
  <2> QED BY <1>3, <1>5, <1>6, <1>8, <2>1 DEF StatementSound
<1> QED BY <1>9 DEF S, b, u, old

-----------------------------------------------------------------------------
(* Statements on lists.                                                    *)

\* What a statement puts down is backed; then it holds hl.
Pushable(m, R, owe, hl, o) ==
    \E H \in SUBSET Obj : /\ R \subseteq H /\ Sound(m, H, owe, R \cup ToSet(hl))
                          /\ o \in H /\ Backed(m, H, owe, o)

\* A value of an expression in a statement.
ValuedAt(sc, n, c, K) ==
    /\ Sound(n, K, Owe(sc, <<>>), RootsOf(sc) \cup {c}) /\ c \in K /\ Backed(n, K, Owe(sc, <<>>), c)
    /\ RootsOf(sc) \subseteq K

\* The lists a statement holds.
LEMMA HeldSets ==
    ASSUME NEW c \in Obj, NEW e \in Obj
    PROVE  /\ <<c>> \in Seq(Obj) /\ ToSet(<<c>>) = {c}
           /\ <<e, c>> \in Seq(Obj) /\ ToSet(<<e, c>>) = {e, c}
<1>1. /\ <<c>> \in Seq(Obj) /\ DOMAIN <<c>> = 1..1 /\ <<c>>[1] = c
      /\ <<e, c>> \in Seq(Obj) /\ DOMAIN <<e, c>> = 1..2 /\ <<e, c>>[1] = e /\ <<e, c>>[2] = c
  OBVIOUS
<1>2. ToSet(<<c>>) = {c}
  BY <1>1 DEF ToSet
<1>3. ToSet(<<e, c>>) = {e, c}
  <2>1. 1..2 = {1, 2}
    OBVIOUS
  <2> QED BY <1>1, <2>1 DEF ToSet
<1> QED BY <1>1, <1>2, <1>3

\* What held before an expression is still so after it.
LEMMA CarriedRoots ==
    ASSUME NEW R \in SUBSET Obj, NEW m, NEW H, NEW owe, NEW T, Sound(m, H, owe, T), R \subseteq H,
           \A c \in R : owe[c] >= 1, NEW n, NEW K, NEW due, Carried(m, H, owe, n, K, due)
    PROVE  R \subseteq K
<1> SUFFICES ASSUME NEW c \in R PROVE c \in K
  OBVIOUS
<1>1. c \in m.alive /\ owe[c] >= 1 /\ c \in H
  BY DEF Sound, SoundBut, Ledger
<1>2. Backed(m, H, owe, c)
  BY <1>1, OwedIsBacked
<1> QED BY <1>1, <1>2 DEF Carried

\* A value of an expression between statements.
LEMMA ValuesAt ==
    ASSUME NEW sc \in [Var -> Obj \cup {Nil}], RootsOf(sc) = Roots,
           NEW m, NEW H, RootsOf(sc) \subseteq H, Sound(m, H, Owe(sc, <<>>), RootsOf(sc)),
           NEW r \in Values(m)
    PROVE  \E K : Valued(m, H, Owe(sc, <<>>), RootsOf(sc), r[1], r[2], K) /\ ValuedAt(sc, r[1], r[2], K)
<1> DEFINE a == Owe(sc, <<>>)
           R == RootsOf(sc)
<1>1. R \in SUBSET Obj /\ (\A c \in R : a[c] >= 1) /\ \A c \in Obj : a[c] >= 1 => c \in R
  BY HeldNone, RootsAre DEF NoneHeld
<1>2. Covers(H, a)
  BY <1>1 DEF Covers
<1>3. Roots = R /\ R \subseteq H /\ Sound(m, H, a, R)
  OBVIOUS
<1>4. PICK K : Valued(m, H, a, R, r[1], r[2], K)
  <2> HIDE DEF a, R
  <2> QED BY <1>1, <1>2, <1>3, SoundValues
<1>5. R \subseteq K
  <2>1. Carried(m, H, a, r[1], K, a)
    BY <1>4 DEF Valued
  <2> HIDE DEF a, R
  <2> QED BY <1>1, <1>3, <2>1, CarriedRoots
<1> QED BY <1>4, <1>5 DEF ValuedAt, Valued

\* GET(c, i).
LEMMA GetPushable ==
    ASSUME NEW sc \in [Var -> Obj \cup {Nil}], NEW n, NEW c, NEW K, ValuedAt(sc, n, c, K),
           NEW i \in DOMAIN n.elems[c]
    PROVE  /\ Pushable(Ref(n, c), RootsOf(sc), Owe(sc, <<c>>), <<c>>, n.elems[c][i])
           /\ c \in Obj /\ n.elems[c][i] \in Obj
<1> DEFINE a == Owe(sc, <<>>)
           R == RootsOf(sc)
           w == Ref(n, c)
           b == Plus(a, c, 1)
           W == R \cup {c}
           e == n.elems[c][i]
<1>1. Sound(n, K, a, W) /\ c \in K /\ Backed(n, K, a, c) /\ R \subseteq K
  BY DEF ValuedAt
<1>2. K \subseteq Obj /\ K \subseteq n.alive /\ c \in Obj
  BY <1>1 DEF Sound, SoundBut, Typed, Ledger, Memory
<1>3. b = Owe(sc, <<c>>) /\ ToSet(<<c>>) = {c}
  BY <1>2, OweHeld, HeldSets
<1>4. e \in ToSet(n.elems[c])
  BY DEF ToSet
<1> HIDE DEF a, R, w, b, W, e
<1>5. Sound(w, K, b, W) /\ Alike(n, K, a, w, b)
  BY <1>1, <1>2, SoundRef DEF w, b
<1>6. w.elems = n.elems
  BY <1>5 DEF Alike, SameLists
<1>7. e \in K /\ Backed(w, K, b, e)
  BY <1>1, <1>4, <1>5, <1>6, ElementIsBacked
<1>8. Sound(w, K, b, R \cup ToSet(<<c>>))
  BY <1>3, <1>5 DEF W
<1>9. Pushable(w, R, b, <<c>>, e)
  BY <1>1, <1>2, <1>7, <1>8 DEF Pushable
<1> QED BY <1>2, <1>3, <1>7, <1>9 DEF w, R, e

\* POP(c).
LEMMA PopPushable ==
    ASSUME NEW sc \in [Var -> Obj \cup {Nil}], NEW n, NEW c, NEW K, ValuedAt(sc, n, c, K),
           n.elems[c] # <<>>
    PROVE  LET e == Last(n.elems[c])
           IN  /\ Pushable(Shorter(n, c), RootsOf(sc), Owe(sc, <<e, c>>), <<e, c>>, e)
               /\ c \in Obj /\ e \in Obj
<1> DEFINE a == Owe(sc, <<>>)
           R == RootsOf(sc)
           e == Last(n.elems[c])
           w == Shorter(n, c)
           b == Plus(Plus(a, c, 1), e, 1)
           W == R \cup {c}
<1>1. Sound(n, K, a, W) /\ c \in K /\ Backed(n, K, a, c) /\ R \subseteq K
  BY DEF ValuedAt
<1>2. K \subseteq Obj /\ K \subseteq n.alive /\ c \in Obj
  BY <1>1 DEF Sound, SoundBut, Typed, Ledger, Memory
<1>3. Sound(w, K, b, W \cup {e}) /\ e \in K /\ Backed(w, K, b, e)
  <2> HIDE DEF W, a
  <2> QED BY <1>1, SoundShorter
<1>4. e \in Obj
  BY <1>2, <1>3
<1> HIDE DEF e
<1>5. b = Owe(sc, <<e, c>>) /\ ToSet(<<e, c>>) = {e, c}
  BY <1>2, <1>4, OweHeld, HeldSets
<1> HIDE DEF a, R, w, b
<1>6. W \cup {e} = R \cup ToSet(<<e, c>>)
  BY <1>5
<1>7. Pushable(w, R, b, <<e, c>>, e)
  BY <1>1, <1>2, <1>3, <1>6 DEF Pushable
<1> QED BY <1>2, <1>4, <1>5, <1>7 DEF w, R, e

\* An element of a source need not be one.
LEMMA SoundNarrow ==
    ASSUME NEW m, NEW H, NEW owe, NEW T, Sound(m, H, owe, T), NEW V \in SUBSET Obj,
           NEW c \in V, NEW d \in ToSet(m.elems[c]), T \subseteq V \cup {d}
    PROVE  Sound(m, H, owe, V)
<1>1. KnownFrom(m, T)
  BY DEF Sound, SoundBut
<1>2. ASSUME NEW X \in SUBSET Obj, Closed(m, X), Sources(m, V) \subseteq X PROVE Sources(m, T) \subseteq X
  <2>1. c \in X
    BY <1>2 DEF Sources
  <2>2. d \in X
    BY <1>2, <2>1 DEF Closed
  <2> QED BY <1>2, <2>2 DEF Sources
<1>3. KnownFrom(m, V)
  BY <1>1, <1>2 DEF KnownFrom
<1> QED BY <1>3 DEF Sound, SoundBut, Typed

\* The elements of a list with one more.
LEMMA AppendSet ==
    ASSUME NEW s \in Seq(Obj), NEW d \in Obj
    PROVE  Append(s, d) \in Seq(Obj) /\ ToSet(Append(s, d)) = ToSet(s) \cup {d}
<1> DEFINE t == Append(s, d)
           n == Len(s)
<1>1. /\ n \in Nat /\ DOMAIN t = 1..(n + 1) /\ DOMAIN s = 1..n /\ t \in Seq(Obj)
      /\ t[n + 1] = d /\ \A i \in 1..n : t[i] = s[i]
  OBVIOUS
<1> HIDE DEF t, n
<1>2. 1..(n + 1) = (1..n) \cup {n + 1}
  BY <1>1
<1>3. ToSet(t) = ToSet(s) \cup {d}
  BY <1>1, <1>2 DEF ToSet
<1> QED BY <1>1, <1>3 DEF t

\* PUSH(c, value).
LEMMA PushPushable ==
    ASSUME NEW sc \in [Var -> Obj \cup {Nil}], RootsOf(sc) = Roots,
           NEW n, NEW c, NEW K, ValuedAt(sc, n, c, K), NEW s \in Values(Ref(n, c))
    PROVE  /\ Pushable([Ref(s[1], s[2]) EXCEPT !.elems = Put(@, c, Append(@[c], s[2]))],
                       RootsOf(sc), Owe(sc, <<c>>), <<c>>, c)
           /\ c \in Obj
<1> DEFINE a == Owe(sc, <<>>)
           one == Plus(a, c, 1)
           R == RootsOf(sc)
           W == R \cup {c}
           x == Ref(n, c)
           d == s[2]
           two == Plus(one, d, 1)
           y == Ref(s[1], d)
           z == [y EXCEPT !.elems = Put(@, c, Append(@[c], d))]
<1>1. Sound(n, K, a, W) /\ c \in K /\ Backed(n, K, a, c) /\ R \subseteq K
  BY DEF ValuedAt
<1>2. K \subseteq Obj /\ K \subseteq n.alive /\ c \in Obj
  BY <1>1 DEF Sound, SoundBut, Typed, Ledger, Memory
<1>3. one = Owe(sc, <<c>>) /\ ToSet(<<c>>) = {c}
  BY <1>2, OweHeld, HeldSets
<1>4. /\ R \in SUBSET Obj /\ (\A g \in R : a[g] >= 1) /\ (\A g \in Obj : a[g] >= 1 => g \in R)
      /\ a \in [Obj -> Nat]
  BY HeldNone, RootsAre, OweNat DEF NoneHeld
<1>5. Roots = R
  OBVIOUS
<1>6. W \in SUBSET Obj
  BY <1>2, <1>4
<1> HIDE DEF a, R, W
<1>7. one \in [Obj -> Nat] /\ (\A g \in Obj \ {c} : one[g] = a[g]) /\ (\A g \in Obj : one[g] >= a[g]) /\ one[c] >= 1
  BY <1>2, <1>4, PlusBack
<1>8. Sound(x, K, one, W) /\ Alike(n, K, a, x, one)
  BY <1>1, <1>2, SoundRef
<1> HIDE DEF one, x
<1>9. Covers(K, one)
  <2> SUFFICES ASSUME NEW g \in Obj, one[g] >= 1 PROVE g \in K
    BY DEF Covers
  <2>1. CASE g = c
    BY <2>1, <1>1
  <2>2. CASE g # c
    <3>1. one[g] = a[g]
      BY <2>2, <1>7
    <3> QED BY <3>1, <1>1, <1>4
  <2> QED BY <2>1, <2>2
<1>10. \A g \in R : one[g] >= 1
  <2> SUFFICES ASSUME NEW g \in R PROVE one[g] >= 1
    OBVIOUS
  <2>1. a[g] >= 1 /\ one[g] >= a[g] /\ a[g] \in Nat /\ one[g] \in Nat
    BY <1>4, <1>7
  <2> QED BY <2>1
<1>11. PICK L : Valued(x, K, one, W, s[1], d, L)
  <2>1. Roots \subseteq Obj /\ (\A g \in Roots : one[g] >= 1) /\ s \in Values(x)
    BY <1>4, <1>5, <1>10 DEF x
  <2> QED BY <1>8, <1>9, <2>1, SoundValues
<1>12. /\ Sound(s[1], L, one, W \cup {d}) /\ d \in L /\ Backed(s[1], L, one, d)
       /\ Carried(x, K, one, s[1], L, one)
  BY <1>11 DEF Valued
<1>13. L \subseteq Obj /\ L \subseteq s[1].alive /\ d \in Obj
  BY <1>12 DEF Sound, SoundBut, Typed, Ledger, Memory
<1>14. R \subseteq L
  BY <1>1, <1>4, <1>8, <1>10, <1>12, CarriedRoots
<1>15. c \in L /\ c \in s[1].alive /\ Backed(s[1], L, one, c)
  <2>1. Backed(x, K, one, c) /\ c \in x.alive
    BY <1>1, <1>2, <1>8 DEF Alike, SameLists
  <2> QED BY <1>1, <1>12, <2>1 DEF Carried
<1> HIDE DEF d
<1> DEFINE V == W \cup {d}
           p == s[1]
<1>16. Sound(y, L, two, V) /\ Alike(p, L, one, y, two)
  BY <1>12, <1>13, SoundRef
<1>17. Backed(y, L, two, c) /\ V \in SUBSET Obj /\ V \subseteq V /\ two \in [Obj -> Nat]
       /\ y.elems \in [Obj -> Seq(Obj)] /\ Closed(y, L)
  BY <1>6, <1>13, <1>15, <1>16 DEF Alike, Sound, SoundBut, Typed, Ledger, Memory
<1> DEFINE old == y.elems[c]
           t == Append(old, d)
<1>18. old \in Seq(Obj) /\ t \in Seq(Obj) /\ ToSet(t) = ToSet(old) \cup {d} /\ ToSet(old) \subseteq L
  <2>1. old \in Seq(Obj) /\ ToSet(old) \subseteq L
    BY <1>2, <1>15, <1>17 DEF Closed
  <2> HIDE DEF old
  <2> QED BY <2>1, <1>13, AppendSet
<1>19. Relisted(y, c, t, z)
  BY DEF Relisted, t, old
<1>20. /\ two[d] = one[d] + 1 /\ \A g \in Obj \ {d} : two[g] = one[g]
  BY <1>7, <1>13, PlusBack
<1>21. y.elems[c] = old
  OBVIOUS
<1> HIDE DEF two, y, z, t, V, p, old
<1>22. ASSUME NEW g \in Obj
       PROVE one[g] + Cardinality(Places(t, g)) =< two[g] + Cardinality(Places(old, g))
  <2> DEFINE q == Cardinality(Places(old, g))
             r == Cardinality(Places(t, g))
             i == IF d = g THEN 1 ELSE 0
  <2>1. q \in Nat /\ one[g] \in Nat /\ i \in Nat
    BY <1>7, <1>18, PlacesFinite
  <2>2. r = q + i
    BY <1>13, <1>18, PlacesAppend DEF t
  <2>3. two[g] = one[g] + i
    <3>1. CASE d = g
      BY <3>1, <1>20
    <3>2. CASE d # g
      BY <3>2, <1>20, <2>1
    <3> QED BY <3>1, <3>2
  <2> HIDE DEF q, r, i
  <2>4. one[g] + r =< two[g] + q
    BY <2>1, <2>2, <2>3
  <2> QED BY <2>4 DEF q, r
<1>23. /\ ToSet(t) \subseteq L /\ ToSet(old) \subseteq ToSet(t) \cup V /\ one \in [Obj -> Nat]
       /\ t \in Seq(Obj) /\ V \in SUBSET Obj /\ V \subseteq V /\ c \in L
  BY <1>7, <1>12, <1>15, <1>17, <1>18
<1>24. Sound(z, L, one, V)
  BY <1>16, <1>17, <1>19, <1>21, <1>22, <1>23, SoundRelisted
<1>25. Carried(y, L, two, z, L, one)
  BY <1>16, <1>17, <1>19, <1>21, <1>22, <1>23, <1>24, SoundRelisted
<1>26. z.elems = Put(y.elems, c, t)
  <2>1. y \in Memory
    BY <1>16 DEF Sound, SoundBut, Typed
  <2> QED BY <1>19, <2>1 DEF Relisted, Memory
<1>27. d \in ToSet(z.elems[c])
  <2>1. z.elems[c] = t
    BY <1>2, <1>17, <1>18, <1>26 DEF Put
  <2> QED BY <2>1, <1>18
<1>28. Sound(z, L, one, W)
  <2>1. c \in W /\ V \subseteq W \cup {d}
    BY DEF V, W
  <2> QED BY <1>6, <1>24, <1>27, <2>1, SoundNarrow
<1>29. Backed(z, L, one, c)
  <2>1. c \in y.alive
    BY <1>15, <1>16 DEF Alike, SameLists, p
  <2> QED BY <1>17, <1>25, <2>1 DEF Carried
<1>30. W = R \cup ToSet(<<c>>)
  BY <1>3 DEF W
<1>31. Pushable(z, R, one, <<c>>, c)
  BY <1>13, <1>14, <1>15, <1>28, <1>29, <1>30 DEF Pushable
<1> QED BY <1>2, <1>3, <1>31 DEF R, z, y, d

\* CLEAR(c).
LEMMA ClearPushable ==
    ASSUME NEW sc \in [Var -> Obj \cup {Nil}], NEW n, NEW c, NEW K, ValuedAt(sc, n, c, K)
    PROVE  LET counted == Ref(n, c)
               emptied == UnrefEach(counted, counted.elems[c])
           IN  /\ Pushable([emptied EXCEPT !.elems = Put(@, c, <<>>)],
                           RootsOf(sc), Owe(sc, <<c>>), <<c>>, c)
               /\ c \in Obj
<1> DEFINE a == Owe(sc, <<>>)
           one == Plus(a, c, 1)
           R == RootsOf(sc)
           W == R \cup {c}
           x == Ref(n, c)
           s == x.elems[c]
           y == UnrefEach(x, s)
           z == [y EXCEPT !.elems = Put(@, c, <<>>)]
           f == Put(x.elems, c, <<>>)
           r == Relist(x, f)
           due == [g \in Obj |-> one[g] + Cardinality(Places(s, g))]
           V == W \cup ToSet(s)
<1>1. Sound(n, K, a, W) /\ c \in K /\ Backed(n, K, a, c) /\ R \subseteq K
  BY DEF ValuedAt
<1>2. K \subseteq Obj /\ K \subseteq n.alive /\ c \in Obj /\ W \in SUBSET Obj /\ a \in [Obj -> Nat]
  BY <1>1 DEF Sound, SoundBut, Typed, Ledger, Memory
<1>3. one = Owe(sc, <<c>>) /\ ToSet(<<c>>) = {c}
  BY <1>2, OweHeld, HeldSets
<1> HIDE DEF a, R, W
<1>4. one \in [Obj -> Nat]
  BY <1>2, PlusBack
<1>5. Sound(x, K, one, W) /\ Alike(n, K, a, x, one)
  BY <1>1, <1>2, SoundRef
<1> HIDE DEF one, x
<1>6. /\ Backed(x, K, one, c) /\ c \in x.alive /\ x \in Memory /\ x.elems \in [Obj -> Seq(Obj)]
      /\ s \in Seq(Obj) /\ Closed(x, K)
  BY <1>1, <1>2, <1>5 DEF Alike, SameLists, Sound, SoundBut, Typed, Ledger, Memory
<1>7. ToSet(s) \subseteq K /\ ToSet(s) \subseteq Obj /\ V \in SUBSET Obj
  BY <1>1, <1>2, <1>6 DEF Closed
<1>8. <<>> \in Seq(Obj) /\ ToSet(<<>>) \subseteq K /\ \A g \in Obj : Cardinality(Places(<<>>, g)) = 0
  BY HeldNone, PlacesFew DEF NoneHeld
<1>9. f \in [Obj -> Seq(Obj)]
  BY <1>6, <1>8 DEF Put
<1>10. Relisted(x, c, <<>>, r)
  BY DEF Relisted, Relist
<1>11. s = x.elems[c]
  OBVIOUS
<1> HIDE DEF s, f, r, V
<1>12. ASSUME NEW g \in Obj
       PROVE  /\ due[g] \in Nat /\ due[g] + Cardinality(Places(<<>>, g)) =< one[g] + Cardinality(Places(s, g))
  <2> DEFINE q == Cardinality(Places(s, g))
             p == Cardinality(Places(<<>>, g))
  <2>1. q \in Nat /\ one[g] \in Nat /\ p = 0 /\ due[g] = one[g] + q
    BY <1>4, <1>6, <1>8, PlacesFinite
  <2> HIDE DEF q, p, due
  <2>2. due[g] \in Nat /\ due[g] + p =< one[g] + q
    BY <2>1
  <2> QED BY <2>2 DEF q, p
<1>13. due \in [Obj -> Nat]
  BY <1>12
<1>14. \A g \in Obj : due[g] = one[g] + Cardinality(Places(s, g))
  OBVIOUS
<1> HIDE DEF due
<1>15. W \subseteq V /\ ToSet(s) \subseteq ToSet(<<>>) \cup V /\ c \in K
  BY <1>1 DEF V
<1>16. Sound(r, K, due, V)
  BY <1>5, <1>6, <1>7, <1>8, <1>10, <1>11, <1>12, <1>13, <1>15, SoundRelisted
<1>17. Carried(x, K, one, r, K, due)
  <2>1. <<>> \in Seq(Obj) /\ ToSet(<<>>) \subseteq K /\ V \in SUBSET Obj
    BY <1>7, <1>8
  <2>2. \A g \in Obj : due[g] + Cardinality(Places(<<>>, g)) =< one[g] + Cardinality(Places(x.elems[c], g))
    BY <1>11, <1>12
  <2>3. W \subseteq V /\ ToSet(x.elems[c]) \subseteq ToSet(<<>>) \cup V /\ c \in K
    BY <1>11, <1>15
  <2>4. Sound(x, K, one, W) /\ Backed(x, K, one, c)
    BY <1>5, <1>6
  <2> QED BY <1>10, <1>13, <1>16, <2>1, <2>2, <2>3, <2>4, SoundRelisted
<1>18. Backed(r, K, due, c)
  BY <1>6, <1>17 DEF Carried
<1>19. Sound(Relist(x, f), K, due, W \cup ToSet(s))
  BY <1>16 DEF r, V
<1>20. /\ y \in Memory /\ SameLists(x, y)
       /\ Sound(Relist(y, f), K, one, W)
       /\ \A g \in x.alive : Backed(Relist(x, f), K, due, g) => Backed(Relist(y, f), K, one, g)
  <2>1. x \in Memory /\ f \in [Obj -> Seq(Obj)] /\ one \in [Obj -> Nat] /\ W \in SUBSET Obj /\ s \in Seq(Obj)
    BY <1>2, <1>4, <1>6, <1>9
  <2>2. Dropped(x, f, K, due, y, one, W)
    BY <2>1, <1>14, <1>19, SoundDropped
  <2> QED BY <2>2 DEF Dropped
<1> HIDE DEF y
<1>21. z = Relist(y, f)
  BY <1>20 DEF SameLists, Relist, f
<1>22. Sound(z, K, one, W) /\ Backed(z, K, one, c)
  <2> HIDE DEF z
  <2> QED BY <1>6, <1>18, <1>20, <1>21 DEF r
<1> HIDE DEF z
<1>23. W = R \cup ToSet(<<c>>)
  BY <1>3 DEF W
<1>24. Pushable(z, R, one, <<c>>, c)
  BY <1>1, <1>2, <1>22, <1>23 DEF Pushable
<1> QED BY <1>2, <1>3, <1>24 DEF R, z, y, s, x

-----------------------------------------------------------------------------
(* What mb_push_value leaves, and the start of the collector.              *)

\* What mb_push_value leaves: the value is backed, or was made of what the roots hold.
Leaves(m, R, owe, hl) ==
    \E H \in SUBSET Obj :
        /\ R \subseteq H /\ Sound(m, H, owe, R \cup ToSet(hl)) /\ m.inter \in H
        /\ Backed(m, H, owe, m.inter) \/ ToSet(m.elems[m.inter]) \subseteq R

\* What mb_push_value leaves of a backed value.
LEMMA PutDownLeaves ==
    ASSUME NEW R \in SUBSET Obj, NEW owe, \A c \in R : owe[c] >= 1, NEW hl, NEW m, NEW o,
           Pushable(m, R, owe, hl, o)
    PROVE  Leaves(PutDown(m, o), R, owe, hl)
<1> DEFINE T == R \cup ToSet(hl)
           w == PutDown(m, o)
<1>1. PICK H \in SUBSET Obj : R \subseteq H /\ Sound(m, H, owe, T) /\ o \in H /\ Backed(m, H, owe, o)
  BY DEF Pushable
<1>2. T \in SUBSET Obj /\ T \subseteq T \cup {o}
  BY <1>1 DEF Sound, SoundBut, Typed
<1> HIDE DEF T, w
<1>3. PICK K \in SUBSET H : Sound(w, K, owe, T) /\ w.inter = o /\ Carried(m, H, owe, w, K, owe)
  BY <1>1, <1>2, SoundPutDown DEF w
<1>4. R \subseteq K
  BY <1>1, <1>3, CarriedRoots
<1>5. o \in K /\ Backed(w, K, owe, o)
  <2>1. o \in m.alive
    BY <1>1 DEF Sound, SoundBut, Ledger
  <2> QED BY <1>1, <1>3, <2>1 DEF Carried
<1> QED BY <1>1, <1>3, <1>4, <1>5 DEF Leaves, T, w

\* LIST(): a list made of what the roots hold is put down.
LEMMA MadeLeaves ==
    ASSUME NEW sc \in [Var -> Obj \cup {Nil}], RootsOf(sc) = Roots,
           NEW m, NEW H, RootsOf(sc) \subseteq H, Sound(m, H, Owe(sc, <<>>), RootsOf(sc)),
           NEW o \in Obj \ m.alive, NEW e \in Elements
    PROVE  Leaves(PutDown(Created(m, o, e), o), RootsOf(sc), Owe(sc, <<>>), <<>>) /\ o \in Obj
<1> DEFINE a == Owe(sc, <<>>)
           R == RootsOf(sc)
           w == PutDown(Created(m, o, e), o)
<1>1. R \in SUBSET Obj /\ (\A c \in R : a[c] >= 1) /\ \A c \in Obj : a[c] >= 1 => c \in R
  BY HeldNone, RootsAre DEF NoneHeld
<1>2. Covers(H, a)
  BY <1>1 DEF Covers
<1>3. e \in Seq(Obj) /\ Len(e) =< 1 /\ ToSet(e) \subseteq R
  <2>1. e = <<>> \/ \E c \in R : e = <<c>>
    BY DEF Elements
  <2>2. CASE e = <<>>
    BY <2>2 DEF ToSet
  <2>3. ASSUME NEW c \in R, e = <<c>> PROVE e \in Seq(Obj) /\ Len(e) =< 1 /\ ToSet(e) \subseteq R
    <3>1. e \in Seq(Obj) /\ Len(e) = 1 /\ e[1] = c /\ DOMAIN e = 1..1
      BY <1>1, <2>3
    <3> QED BY <3>1 DEF ToSet
  <2> QED BY <2>1, <2>2, <2>3
<1>4. Sound(m, H, a, R) /\ R \subseteq H
  OBVIOUS
<1>5. \A c \in ToSet(e) : c \in H /\ Backed(m, H, a, c)
  <2> SUFFICES ASSUME NEW c \in ToSet(e) PROVE c \in H /\ Backed(m, H, a, c)
    OBVIOUS
  <2>1. c \in Obj /\ a[c] >= 1
    BY <1>1, <1>3
  <2> HIDE DEF a, R
  <2> QED BY <1>2, <1>4, <2>1, OwedIs
<1> HIDE DEF a, R
<1>6. PICK K : /\ Sound(w, K, a, R) /\ Carried(m, H, a, w, K, a)
               /\ o \in K /\ w.inter = o /\ w.elems[o] = e
  BY <1>2, <1>3, <1>4, <1>5, SoundMade
<1> HIDE DEF w
<1>7. R \subseteq K
  BY <1>1, <1>4, <1>6, CarriedRoots
<1>8. K \in SUBSET Obj
  BY <1>6 DEF Sound, SoundBut, Typed, Ledger, Memory
<1>9. R \cup ToSet(<<>>) = R
  BY HeldNone DEF NoneHeld
<1> QED BY <1>3, <1>6, <1>7, <1>8, <1>9 DEF Leaves, w, a, R

\* What is left is sound.
LEMMA LeavesSound ==
    ASSUME NEW m, NEW R, NEW owe, NEW hl, Leaves(m, R, owe, hl)
    PROVE  StatementSound(m, R, owe, hl) /\ m \in Memory
  BY DEF Leaves, StatementSound, Sound, SoundBut, Typed

\* The collector starts: what is reachable leaves the tables.
LEMMA CollectingIs ==
    ASSUME NEW m \in Memory, Reachable(m) \in SUBSET Obj
    PROVE  LET n == Collecting(m)
               valid == Reachable(m)
           IN  /\ n \in Memory /\ SameLists(m, n) /\ n.count = m.count /\ n.inter = m.inter
               /\ n.table = m.table \ valid /\ n.recursive = m.recursive \ valid
               /\ n.collected = m.collected /\ n.valid = valid /\ n.collecting /\ n.reused = m.reused
<1> DEFINE valid == Reachable(m)
           tab == m.table \ valid
           rec == m.recursive \ valid
           n == Collecting(m)
<1>1. valid \in SUBSET Obj /\ tab \in SUBSET Obj /\ rec \in SUBSET Obj
  BY DEF Memory
<1>2. n = [m EXCEPT !.collecting = TRUE, !.valid = valid, !.table = tab, !.recursive = rec]
  BY DEF Collecting
<1> HIDE DEF valid, tab, rec, n
<1>3. /\ n \in Memory /\ SameLists(m, n) /\ n.count = m.count /\ n.inter = m.inter
      /\ n.table = tab /\ n.recursive = rec
      /\ n.collected = m.collected /\ n.valid = valid /\ n.collecting /\ n.reused = m.reused
  BY <1>1, <1>2 DEF Memory, SameLists
<1> QED BY <1>3 DEF valid, tab, rec, n

\* The closure depends on the elements in it alone.
LEMMA ClosureSame ==
    ASSUME NEW m \in Memory, NEW n \in Memory, NEW S \in SUBSET Obj,
           \A g \in Closure(m, S) : n.elems[g] = m.elems[g]
    PROVE  Closure(n, S) = Closure(m, S)
<1>1. S \subseteq Closure(m, S) /\ Closed(m, Closure(m, S))
  BY ClosureIsClosed
<1>2. Closed(n, Closure(m, S))
  BY <1>1 DEF Closed
<1>3. Closure(n, S) \subseteq Closure(m, S)
  BY <1>1, <1>2, ClosureLeast
<1>4. S \subseteq Closure(n, S) /\ Closed(n, Closure(n, S))
  BY ClosureIsClosed
<1>5. Closed(m, Closure(n, S))
  BY <1>3, <1>4 DEF Closed
<1>6. Closure(m, S) \subseteq Closure(n, S)
  BY <1>4, <1>5, ClosureLeast
<1> QED BY <1>3, <1>6

\* A list that is there is counted.
LEMMA CountsPositive ==
    ASSUME NEW m, NEW H, NEW owe, NEW T, Sound(m, H, owe, T), NEW g \in m.alive
    PROVE  m.count[g] > 0
<1>1. m \in Memory /\ g \in Obj /\ m.count[g] \in Int /\ owe \in [Obj -> Nat] /\ owe[g] \in Nat
  BY DEF Sound, SoundBut, Typed, Memory
<1>2. IsFiniteSet(HeldBy(H, m, g)) /\ (Backed(m, H, owe, g) \/ Temporary(m, H, owe, g))
  BY <1>1 DEF Sound, SoundBut, Ledger
<1>3. Backed(m, H, owe, g) => m.count[g] > owe[g]
  BY <1>1, <1>2, BackedIs
<1>4. Temporary(m, H, owe, g) => m.count[g] = 1
  BY DEF Temporary
<1>5. CASE m.count[g] > owe[g]
  BY <1>1, <1>5
<1>6. CASE m.count[g] = 1
  BY <1>6
<1> QED BY <1>2, <1>3, <1>4, <1>5, <1>6

\* The collector starts: only lists in H are reachable.
LEMMA CollectingSound ==
    ASSUME Roots \in SUBSET Obj, NEW m, NEW owe, NEW hl, Leaves(m, Roots, owe, hl)
    PROVE  CollectorSound(Collecting(m), Roots, owe, hl) /\ Collecting(m) \in Memory
<1> DEFINE n == Collecting(m)
           V == Closure(m, Roots)
           T == Roots \cup ToSet(hl)
           i == m.inter
           S == n.table \cup n.recursive
<1>1. PICK H \in SUBSET Obj :
        /\ Roots \subseteq H /\ Sound(m, H, owe, T) /\ i \in H
        /\ Backed(m, H, owe, i) \/ ToSet(m.elems[i]) \subseteq Roots
  BY DEF Leaves
<1>2. /\ m \in Memory /\ owe \in [Obj -> Nat] /\ T \in SUBSET Obj /\ H \subseteq m.alive /\ Closed(m, H)
      /\ i \in Obj /\ i # Nil /\ m.alive \subseteq Obj
      /\ (\A g \in Obj : IsFiniteSet(HeldBy(H, m, g)))
      /\ (\A g \in m.alive : Backed(m, H, owe, g) \/ Temporary(m, H, owe, g))
      /\ Tidy(m) /\ Idle(m) /\ KnownFrom(m, T)
  BY <1>1, ThresholdAssumption DEF Sound, SoundBut, Typed, Ledger, Memory
<1>3. Roots \subseteq V /\ V \subseteq Obj /\ Closed(m, V)
  BY <1>2, ClosureIsClosed
<1>4. V \subseteq H
  BY <1>1, <1>2, ClosureLeast
<1>5. Reachable(m) = V
  BY DEF Reachable
<1>6. /\ n \in Memory /\ SameLists(m, n) /\ n.count = m.count /\ n.inter = i
      /\ n.table = m.table \ V /\ n.recursive = m.recursive \ V
      /\ n.collected = m.collected /\ n.valid = V /\ n.collecting /\ n.reused = m.reused
  BY <1>2, <1>3, <1>5, CollectingIs
<1> HIDE DEF V, n, T, i, S
<1>7. n.alive = m.alive /\ n.elems = m.elems
  BY <1>6 DEF SameLists
<1>8. Closure(n, Roots) = V
  BY <1>2, <1>6, <1>7, ClosureSame DEF V
<1>9. ASSUME NEW g \in n.alive PROVE n.count[g] > 0
  <2>1. g \in m.alive
    BY <1>7
  <2> QED BY <1>1, <1>6, <2>1, CountsPositive
<1>10. Tidy(n)
  BY <1>2, <1>6, <1>7 DEF Tidy, i
<1>11. KnownFrom(n, T)
  <2> DEFINE B == Sources(n, T) \cup V
             gone == {}
  <2>1. B \in SUBSET Obj /\ gone \in SUBSET Obj
    BY <1>2, <1>3, <1>6, ThresholdAssumption DEF Sources, Memory
  <2>2. n.alive \cap gone = {} /\ n.alive \subseteq m.alive \cup B
    BY <1>7
  <2>3. Sources(m, T) \cap m.alive \subseteq B \cup gone
    BY <1>6 DEF Sources, i
  <2>4. \A g \in m.alive \ gone : ToSet(m.elems[g]) \cap m.alive \subseteq ToSet(n.elems[g]) \cup B \cup gone
    BY <1>7
  <2>5. (m.reused => n.reused) /\ \A g \in Obj \ m.alive : m.elems[g] = <<>>
    BY <1>2, <1>6 DEF Tidy
  <2>6. ASSUME NEW X \in SUBSET Obj, Closed(n, X), Sources(n, T) \subseteq X PROVE B \subseteq X
    <3>1. Closed(m, X)
      BY <2>6, <1>7 DEF Closed
    <3>2. Roots \subseteq X
      BY <2>6 DEF Sources, T
    <3>3. V \subseteq X
      BY <3>1, <3>2, ClosureLeast DEF V
    <3> QED BY <2>6, <3>3
  <2>7. LostNothing(m, T, n, T, gone, B)
    <3> HIDE DEF B
    <3> QED BY <2>2, <2>3, <2>4, <2>5, <2>6 DEF LostNothing
  <2> HIDE DEF B, gone
  <2> QED BY <1>2, <1>6, <2>1, <2>7, KnownStep
<1>12. PICK K \in {V, V \cup {i}} : Closed(n, K) /\ (Temporary(m, H, owe, i) => i \in K)
  <2>1. CASE Backed(m, H, owe, i)
    <3>1. ~Temporary(m, H, owe, i)
      BY <1>2, <2>1, BackedIs
    <3>2. Closed(n, V)
      BY <1>3, <1>7 DEF Closed
    <3> QED BY <3>1, <3>2
  <2>2. CASE ToSet(m.elems[i]) \subseteq Roots
    <3>1. Closed(n, V \cup {i})
      BY <2>2, <1>3, <1>7 DEF Closed
    <3> QED BY <3>1
  <2> QED BY <1>1, <2>1, <2>2
<1>13. K \subseteq H
  BY <1>1, <1>4, <1>12
<1>14. Ledger(n, K, owe, S)
  <2>1. ASSUME NEW g \in Obj
        PROVE  /\ HeldBy(K, n, g) \subseteq HeldBy(H, m, g) /\ IsFiniteSet(HeldBy(K, n, g))
               /\ Cardinality(HeldBy(K, n, g)) \in Nat /\ Cardinality(HeldBy(H, m, g)) \in Nat
               /\ Cardinality(HeldBy(K, n, g)) =< Cardinality(HeldBy(H, m, g))
    <3>1. IsFiniteSet(HeldBy(H, m, g)) /\ \A c \in K : n.elems[c] = m.elems[c]
      BY <1>2, <1>7
    <3> QED BY <3>1, <1>13, HeldBySmaller
  <2>2. ASSUME NEW g \in m.alive, Backed(m, H, owe, g) PROVE Backed(n, K, owe, g)
    <3> DEFINE a == Cardinality(HeldBy(H, m, g))
               b == Cardinality(HeldBy(K, n, g))
               j == Intermediate(m, g)
    <3>1. g \in Obj
      BY <1>2
    <3>2. a \in Nat /\ b \in Nat /\ b =< a
      BY <2>1, <3>1
    <3>3. j \in Nat /\ Intermediate(n, g) = j /\ n.count[g] = m.count[g] /\ m.count[g] \in Int /\ owe[g] \in Nat
      BY <1>2, <1>6, <3>1 DEF Intermediate, i, Memory
    <3>4. m.count[g] > owe[g] + j + a
      BY <2>2 DEF Backed
    <3> HIDE DEF a, b, j
    <3>5. n.count[g] > owe[g] + Intermediate(n, g) + b
      BY <3>2, <3>3, <3>4
    <3> QED BY <3>5 DEF Backed, b
  <2>3. ASSUME NEW g \in m.alive, Temporary(m, H, owe, g) PROVE Temporary(n, K, owe, g)
    <3>1. g = i /\ g \in Obj /\ HeldBy(H, m, g) = {}
      BY <1>2, <2>3 DEF Temporary, i
    <3>2. g \in K /\ HeldBy(K, n, g) = {}
      BY <2>1, <2>3, <3>1, <1>12
    <3> QED BY <2>3, <3>2, <1>6, <1>7 DEF Temporary, i
  <2>4. K \subseteq n.alive
    BY <1>2, <1>7, <1>13
  <2>5. \A g \in n.alive \ S : Backed(n, K, owe, g) \/ Temporary(n, K, owe, g)
    BY <1>2, <1>7, <2>2, <2>3
  <2> QED BY <1>12, <2>1, <2>4, <2>5 DEF Ledger
<1>15. K \in {n.valid, n.valid \cup ({n.inter} \ {Nil})}
  BY <1>2, <1>6, <1>12
<1>16. (n.table \cup n.recursive) \cap n.valid = {}
  BY <1>6
<1>17. Typed(n, owe, T)
  BY <1>2, <1>6 DEF Typed
<1>18. Collected(n, Roots, owe, hl, K)
  BY <1>6, <1>8, <1>9, <1>10, <1>11, <1>14, <1>15, <1>16, <1>17 DEF Collected, S, T
<1> QED BY <1>6, <1>18 DEF CollectorSound, n

-----------------------------------------------------------------------------
(* The end of a statement, and the passes of the collector.                *)

\* _ADDGC notes lists that are there.
LEMMA SoundNoted ==
    ASSUME NEW m, NEW H, NEW owe, NEW T, Sound(m, H, owe, T), NEW S, S \subseteq m.alive
    PROVE  Sound(NotedUnlessCollected(m, S), H, owe, T)
<1> DEFINE s == S \ m.collected
           n == NotedUnlessCollected(m, S)
<1>1. /\ m \in Memory /\ owe \in [Obj -> Nat] /\ T \in SUBSET Obj /\ Tidy(m) /\ Idle(m)
      /\ KnownFrom(m, T) /\ Ledger(m, H, owe, {}) /\ H \in SUBSET Obj
      /\ m.alive \in SUBSET Obj
  BY DEF Sound, SoundBut, Typed, Ledger, Memory
<1>2. s \in SUBSET Obj /\ s \subseteq m.alive /\ s \cap m.collected = {}
  BY <1>1
<1>3. \A g \in s : m.count[g] > 0
  BY <1>2, CountsPositive
<1>4. n = Noted(m, s)
  BY DEF NotedUnlessCollected
<1> HIDE DEF s, n
<1>5. /\ n \in Memory /\ SameLists(m, n) /\ SameStatus(m, n)
      /\ n.inter = m.inter /\ n.count = m.count /\ n.collected = m.collected \ s
      /\ n.table = IF m.collecting THEN m.table ELSE Updated(m, s, m.table)
      /\ n.recursive = IF m.collecting THEN Updated(m, s, m.recursive) ELSE m.recursive
  BY <1>1, <1>2, <1>4, NotedIs
<1>6. Updated(m, s, m.table) = m.table \cup s
  BY <1>1, <1>3 DEF Updated, Idle
<1>7. n.table = m.table \cup s /\ n.recursive = m.recursive /\ n.collected = m.collected
  BY <1>1, <1>2, <1>5, <1>6 DEF Idle
<1>8. Idle(n)
  BY <1>1, <1>5, <1>7 DEF Idle, SameStatus
<1>9. Tidy(n)
  BY <1>1, <1>2, <1>5, <1>7 DEF Tidy, SameLists, SameStatus
<1>10. KnownFrom(n, T)
  <2>1. m.reused => n.reused
    BY <1>5 DEF SameStatus
  <2>2. \A g \in Obj \ m.alive : m.elems[g] = <<>>
    BY <1>1 DEF Tidy
  <2>3. Sources(m, T) \cap m.alive \subseteq Sources(n, T)
    BY <1>5, <1>7 DEF Sources
  <2> QED BY <1>1, <1>5, <2>1, <2>2, <2>3, KnownSame
<1>11. ASSUME NEW g \in m.alive PROVE Margin(n, owe, g) >= Margin(m, owe, g)
  <2>1. Margin(n, owe, g) = Margin(m, owe, g)
    BY <1>5 DEF Margin, Intermediate
  <2>2. Margin(m, owe, g) \in Int
    BY <1>1, BackedIs DEF Ledger
  <2> QED BY <2>1, <2>2
<1>12. \A g \in m.alive : Temporary(m, H, owe, g) => n.inter = g /\ n.count[g] = 1 /\ owe[g] = 0
  BY <1>5 DEF Temporary
<1>13. Ledger(n, H, owe, {})
  BY <1>1, <1>5, <1>11, <1>12, LedgerSame
<1> QED BY <1>1, <1>5, <1>8, <1>9, <1>10, <1>13 DEF Sound, SoundBut, Typed, n

\* At its end a statement gives back what it holds, and notes the intermediate value.
LEMMA EndSound ==
    ASSUME NEW sc \in [Var -> Obj \cup {Nil}], NEW hl \in Seq(Obj), NEW m,
           StatementSound(m, RootsOf(sc), Owe(sc, hl), hl),
           NEW given, given = UnrefEach(m, hl)
    PROVE  StatementSound(IF given.inter = Nil THEN given ELSE NotedUnlessCollected(given, {given.inter}),
                          RootsOf(sc), Owe(sc, <<>>), <<>>)
<1> DEFINE R == RootsOf(sc)
           owe == Owe(sc, hl)
           base == Owe(sc, <<>>)
           f == m.elems
           last == IF given.inter = Nil THEN given ELSE NotedUnlessCollected(given, {given.inter})
<1>1. PICK H \in SUBSET Obj : R \subseteq H /\ Sound(m, H, owe, R \cup ToSet(hl))
  BY DEF StatementSound
<1>2. m \in Memory /\ f \in [Obj -> Seq(Obj)]
  BY <1>1 DEF Sound, SoundBut, Typed, Memory
<1>3. R \in SUBSET Obj
  BY RootsAre
<1>4. base \in [Obj -> Nat] /\ \A g \in Obj : owe[g] = base[g] + Cardinality(Places(hl, g))
  <2>1. base \in [Obj -> Nat]
    BY HeldNone, OweNat DEF NoneHeld
  <2>2. ASSUME NEW g \in Obj PROVE owe[g] = base[g] + Cardinality(Places(hl, g))
    <3>1. Cardinality(Places(<<>>, g)) = 0
      BY PlacesFew
    <3>2. Cardinality(Vars(sc, g)) \in Nat /\ Cardinality(Places(hl, g)) \in Nat
      BY VarsFinite, PlacesFinite
    <3>3. owe[g] = Cardinality(Vars(sc, g)) + Cardinality(Places(hl, g)) /\ base[g] = Cardinality(Vars(sc, g)) + Cardinality(Places(<<>>, g))
      BY DEF Owe
    <3> QED BY <3>1, <3>2, <3>3
  <2> QED BY <2>1, <2>2
<1> HIDE DEF R, owe, base, f
<1>5. SameBooks(m, Relist(m, f)) /\ Relist(m, f) \in Memory
  BY <1>2, RelistIs DEF SameBooks, SameLists, f
<1>6. Sound(Relist(m, f), H, owe, R \cup ToSet(hl))
  BY <1>1, <1>2, <1>5, SoundFields
<1>7. Dropped(m, f, H, owe, given, base, R)
  BY <1>2, <1>3, <1>4, <1>6, SoundDropped
<1>8. given \in Memory /\ SameLists(m, given) /\ Sound(Relist(given, f), H, base, R)
  BY <1>7 DEF Dropped
<1>9. SameBooks(Relist(given, f), given)
  BY <1>2, <1>8, RelistIs DEF SameBooks, SameLists, SameTables, SameStatus, f
<1>10. Sound(given, H, base, R)
  BY <1>8, <1>9, SoundFields
<1>11. Sound(last, H, base, R)
  <2>1. CASE given.inter = Nil
    BY <1>10, <2>1
  <2>2. CASE given.inter # Nil
    <3>1. {given.inter} \subseteq given.alive
      BY <1>10, <2>2 DEF Sound, SoundBut, Tidy
    <3>2. Sound(NotedUnlessCollected(given, {given.inter}), H, base, R)
      BY <1>10, <3>1, SoundNoted
    <3> QED BY <2>2, <3>2
  <2> QED BY <2>1, <2>2
<1>12. R \cup ToSet(<<>>) = R
  BY HeldNone DEF NoneHeld
<1> QED BY <1>1, <1>11, <1>12 DEF StatementSound, R, base

\* The next pass takes up what the last one left.
LEMMA PassedOn ==
    ASSUME NEW m, NEW R, NEW owe, NEW hl, CollectorSound(m, R, owe, hl), m.table = {},
           NEW n, n = [m EXCEPT !.table = m.recursive, !.recursive = {}]
    PROVE  CollectorSound(n, R, owe, hl) /\ n \in Memory
<1> DEFINE T == R \cup ToSet(hl)
<1>1. PICK H : Collected(m, R, owe, hl, H)
  BY DEF CollectorSound
<1>2. m \in Memory /\ owe \in [Obj -> Nat] /\ T \in SUBSET Obj /\ Tidy(m) /\ KnownFrom(m, T)
  BY <1>1 DEF Collected, Typed
<1>3. /\ n \in Memory /\ SameLists(m, n) /\ SameStatus(m, n) /\ n.inter = m.inter /\ n.count = m.count
      /\ n.table = m.recursive /\ n.recursive = {} /\ n.collected = m.collected
  BY <1>2 DEF Memory, SameLists, SameStatus
<1>4. n.table \cup n.recursive = m.table \cup m.recursive
  BY <1>3
<1> HIDE DEF T
<1>5. KnownFrom(n, T)
  <2>1. m.reused => n.reused
    BY <1>3 DEF SameStatus
  <2>2. \A g \in Obj \ m.alive : m.elems[g] = <<>>
    BY <1>2 DEF Tidy
  <2>3. Sources(m, T) \cap m.alive \subseteq Sources(n, T)
    BY <1>3, <1>4 DEF Sources
  <2> QED BY <1>2, <1>3, <2>1, <2>2, <2>3, KnownSame
<1>6. Tidy(n)
  BY <1>2, <1>3, <1>4 DEF Tidy, SameLists, SameStatus
<1>7. R \in SUBSET Obj
  BY <1>2 DEF T
<1>8. Closure(n, R) = Closure(m, R)
  BY <1>2, <1>3, <1>7, ClosureSame DEF SameLists
<1>9. \A g : HeldBy(H, n, g) = HeldBy(H, m, g)
  BY <1>3 DEF HeldBy, SameLists
<1>10. Ledger(n, H, owe, n.table \cup n.recursive)
  <2>1. Ledger(m, H, owe, m.table \cup m.recursive)
    BY <1>1 DEF Collected
  <2>2. H \subseteq n.alive /\ Closed(n, H)
    BY <2>1, <1>3 DEF Ledger, Closed, SameLists
  <2>3. \A g \in Obj : IsFiniteSet(HeldBy(H, n, g))
    BY <2>1, <1>9 DEF Ledger
  <2>4. ASSUME NEW g \in n.alive \ (n.table \cup n.recursive) PROVE Backed(n, H, owe, g) \/ Temporary(n, H, owe, g)
    <3>1. g \in m.alive \ (m.table \cup m.recursive)
      BY <1>3, <1>4 DEF SameLists
    <3>2. Backed(m, H, owe, g) \/ Temporary(m, H, owe, g)
      BY <2>1, <3>1 DEF Ledger
    <3>3. Backed(m, H, owe, g) => Backed(n, H, owe, g)
      BY <1>3, <1>9 DEF Backed, Intermediate
    <3>4. Temporary(m, H, owe, g) => Temporary(n, H, owe, g)
      BY <1>3, <1>9 DEF Temporary, SameLists
    <3> QED BY <3>2, <3>3, <3>4
  <2> QED BY <2>2, <2>3, <2>4 DEF Ledger
<1>11. H \in {n.valid, n.valid \cup ({n.inter} \ {Nil})} /\ n.collecting /\ n.valid = Closure(n, R)
  BY <1>1, <1>3, <1>8 DEF Collected, SameStatus
<1>12. (n.table \cup n.recursive) \cap n.valid = {}
  BY <1>1, <1>3, <1>4 DEF Collected, SameStatus
<1>13. \A g \in n.alive : n.count[g] > 0
  BY <1>1, <1>3 DEF Collected, SameLists
<1>14. Typed(n, owe, T)
  BY <1>2, <1>3 DEF Typed
<1>15. Collected(n, R, owe, hl, H)
  BY <1>5, <1>6, <1>10, <1>11, <1>12, <1>13, <1>14 DEF Collected, T
<1> QED BY <1>3, <1>15 DEF CollectorSound

\* After the last pass the books are those of a statement again.
LEMMA PassesEnd ==
    ASSUME NEW m, NEW R, NEW owe, NEW hl, CollectorSound(m, R, owe, hl),
           m.table = {}, m.recursive = {},
           NEW n, n = [m EXCEPT !.collecting = FALSE, !.collected = {}, !.valid = {}]
    PROVE  StatementSound(n, R, owe, hl) /\ n \in Memory
<1> DEFINE T == R \cup ToSet(hl)
<1>1. PICK H : Collected(m, R, owe, hl, H)
  BY DEF CollectorSound
<1>2. m \in Memory /\ owe \in [Obj -> Nat] /\ T \in SUBSET Obj /\ Tidy(m) /\ KnownFrom(m, T)
  BY <1>1 DEF Collected, Typed
<1>3. /\ n \in Memory /\ SameLists(m, n) /\ n.inter = m.inter /\ n.count = m.count
      /\ n.table = {} /\ n.recursive = {} /\ n.collected = {} /\ n.reused = m.reused
      /\ ~n.collecting /\ n.valid = {}
  BY <1>2 DEF Memory, SameLists
<1> HIDE DEF T
<1>4. KnownFrom(n, T)
  <2>1. \A g \in Obj \ m.alive : m.elems[g] = <<>>
    BY <1>2 DEF Tidy
  <2>2. Sources(m, T) \cap m.alive \subseteq Sources(n, T)
    BY <1>3 DEF Sources
  <2> QED BY <1>2, <1>3, <2>1, <2>2, KnownSame
<1>5. Tidy(n) /\ Idle(n)
  BY <1>2, <1>3 DEF Tidy, SameLists, Idle
<1>6. Ledger(m, H, owe, {})
  <2>1. m.table \cup m.recursive = {}
    OBVIOUS
  <2>2. Ledger(m, H, owe, m.table \cup m.recursive)
    BY <1>1 DEF Collected
  <2> QED BY <2>1, <2>2
<1>7. R \subseteq H /\ H \in SUBSET Obj
  <2>1. R \in SUBSET Obj
    BY <1>2 DEF T
  <2>2. R \subseteq Closure(m, R)
    BY <1>2, <2>1, ClosureIsClosed
  <2>3. H \subseteq m.alive
    BY <1>6 DEF Ledger
  <2> QED BY <2>2, <2>3, <1>1, <1>2 DEF Collected, Memory
<1>8. \A g : HeldBy(H, n, g) = HeldBy(H, m, g)
  BY <1>3 DEF HeldBy, SameLists
<1>9. Ledger(n, H, owe, {})
  <2>1. H \subseteq n.alive /\ Closed(n, H)
    BY <1>6, <1>3 DEF Ledger, Closed, SameLists
  <2>2. \A g \in Obj : IsFiniteSet(HeldBy(H, n, g))
    BY <1>6, <1>8 DEF Ledger
  <2>3. ASSUME NEW g \in n.alive PROVE Backed(n, H, owe, g) \/ Temporary(n, H, owe, g)
    <3>1. g \in m.alive
      BY <1>3 DEF SameLists
    <3>2. Backed(m, H, owe, g) \/ Temporary(m, H, owe, g)
      BY <1>6, <3>1 DEF Ledger
    <3>3. Backed(m, H, owe, g) => Backed(n, H, owe, g)
      BY <1>3, <1>8 DEF Backed, Intermediate
    <3>4. Temporary(m, H, owe, g) => Temporary(n, H, owe, g)
      BY <1>3, <1>8 DEF Temporary, SameLists
    <3> QED BY <3>2, <3>3, <3>4
  <2> QED BY <2>1, <2>2, <2>3 DEF Ledger
<1>10. Sound(n, H, owe, T)
  BY <1>2, <1>3, <1>4, <1>5, <1>9 DEF Sound, SoundBut, Typed
<1> QED BY <1>3, <1>7, <1>10 DEF StatementSound, T

\* What a pass notes of the elements of o.
Fallen(m, o) == ((ToSet(m.elems[o]) \cap m.alive) \ m.collected) \ m.valid
Without(m, o) == [m EXCEPT !.table = @ \ {o}]

\* What a pass leaves of the list o: one reference less, or nothing.
SweptTo(m, o, n) ==
    /\ n \in Memory /\ SameStatus(m, n) /\ n.table = m.table \ {o}
    /\ n.elems = Put(m.elems, o, <<>>) /\ \A g \in Obj \ {o} : n.count[g] = m.count[g]
    /\ \/ /\ m.count[o] > 1 /\ n.count[o] = m.count[o] - 1 /\ n.alive = m.alive
          /\ n.recursive = m.recursive \cup Fallen(m, o) \cup {o}
          /\ n.inter = m.inter /\ n.collected = m.collected
       \/ /\ n.count[o] = 0 /\ n.alive = m.alive \ {o}
          /\ n.recursive = (m.recursive \cup Fallen(m, o)) \ {o}
          /\ n.inter = (IF m.inter = o THEN Nil ELSE m.inter)
          /\ n.collected = m.collected \cup {o}

\* Until the list itself is dropped.
Emptied(m, o, p) ==
    /\ p \in Memory /\ SameStatus(m, p) /\ p.alive = m.alive /\ p.table = m.table \ {o}
    /\ p.elems = Put(m.elems, o, <<>>) /\ p.count = m.count /\ p.inter = m.inter
    /\ p.recursive = m.recursive \cup Fallen(m, o) /\ p.collected = m.collected

\* What _gc_destroy_garbage does before it drops the list.
LEMMA EmptiedIs ==
    ASSUME NEW m \in Memory, m.collecting, Tidy(m), \A g \in m.alive : m.count[g] > 0,
           m.recursive \cap m.valid = {}, NEW o \in Obj
    PROVE  \E p : Emptied(m, o, p) /\ Swept(Without(m, o), o) = Unref(p, o)
<1> DEFINE E == ToSet(m.elems[o])
           rest == Without(m, o)
           s == E \ m.collected
           noted == Noted(rest, s)
           f == Put(m.elems, o, <<>>)
           p == [noted EXCEPT !.elems = f]
<1>1. E \in SUBSET Obj /\ s \in SUBSET Obj
  BY DEF Memory, ToSet
<1>2. /\ rest \in Memory /\ SameLists(m, rest) /\ SameStatus(m, rest) /\ rest.inter = m.inter
      /\ rest.count = m.count /\ rest.collected = m.collected /\ rest.table = m.table \ {o}
      /\ rest.recursive = m.recursive /\ rest.elems = m.elems
  BY DEF Memory, SameLists, SameStatus, Without
<1>3. Swept(rest, o) = Unref(p, o)
  <2>1. NotedUnlessCollected(rest, ToSet(rest.elems[o])) = noted
    BY <1>2 DEF NotedUnlessCollected
  <2>2. noted.elems = m.elems
    <3> HIDE DEF rest, s
    <3> QED BY <1>1, <1>2, NotedIs DEF SameLists
  <2>3. [noted EXCEPT !.elems = Put(@, o, <<>>)] = p
    BY <2>2
  <2> QED BY <2>1, <2>3 DEF Swept
<1> HIDE DEF rest, E, s
<1>4. /\ noted \in Memory /\ SameLists(rest, noted) /\ SameStatus(rest, noted)
      /\ noted.inter = rest.inter /\ noted.count = rest.count /\ noted.collected = rest.collected \ s
      /\ noted.table = IF rest.collecting THEN rest.table ELSE Updated(rest, s, rest.table)
      /\ noted.recursive = IF rest.collecting THEN Updated(rest, s, rest.recursive) ELSE rest.recursive
  BY <1>1, <1>2, NotedIs
<1>5. f \in [Obj -> Seq(Obj)]
  <2>1. m.elems \in [Obj -> Seq(Obj)] /\ <<>> \in Seq(Obj)
    BY DEF Memory
  <2> QED BY <2>1 DEF Put
<1> HIDE DEF noted, f
<1>6. /\ p \in Memory /\ p.alive = noted.alive /\ p.elems = f /\ p.count = noted.count
      /\ p.inter = noted.inter /\ SameTables(noted, p) /\ SameStatus(noted, p)
  BY <1>4, <1>5, ElemsIs
<1> HIDE DEF p
<1>7. Updated(rest, s, rest.recursive) = m.recursive \cup Fallen(m, o)
  <2>1. m.alive \subseteq Obj /\ \A g \in Obj : m.count[g] \in Int
    BY DEF Memory
  <2>2. \A g \in Obj : (m.count[g] > 0) <=> g \in m.alive
    BY <2>1 DEF Tidy
  <2>3. m.recursive \subseteq m.alive
    BY DEF Tidy
  <2>4. rest.count = m.count /\ rest.valid = m.valid /\ rest.recursive = m.recursive
    BY <1>2 DEF SameStatus
  <2>5. {g \in s : rest.count[g] > 0 /\ g \notin rest.valid} = Fallen(m, o)
    BY <1>1, <2>2, <2>4 DEF Fallen, s, E
  <2>6. m.recursive \cap s \subseteq Fallen(m, o)
    BY <2>3 DEF Fallen, s, E
  <2>7. (m.recursive \ s) \cup Fallen(m, o) = m.recursive \cup Fallen(m, o)
    BY <2>6
  <2> QED BY <2>4, <2>5, <2>7 DEF Updated
<1>8. Emptied(m, o, p)
  <2>1. SameStatus(m, p) /\ rest.collecting
    BY <1>2, <1>4, <1>6 DEF SameStatus
  <2>2. p.alive = m.alive /\ p.elems = Put(m.elems, o, <<>>) /\ p.count = m.count /\ p.inter = m.inter
    BY <1>2, <1>4, <1>6 DEF SameLists, f
  <2>3. p.table = m.table \ {o} /\ p.recursive = m.recursive \cup Fallen(m, o)
    BY <1>2, <1>4, <1>6, <1>7, <2>1 DEF SameTables
  <2>4. p.collected = m.collected
    BY <1>2, <1>4, <1>6 DEF SameTables, s
  <2> QED BY <1>6, <2>1, <2>2, <2>3, <2>4 DEF Emptied
<1> QED BY <1>3, <1>8 DEF rest

\* While the collector runs a list that lost a reference is for the next pass.
LEMMA LostCollecting ==
    ASSUME NEW m \in Memory, m.collecting, NEW o \in Obj
    PROVE  /\ Lost(m, o) \in Memory /\ SameLists(m, Lost(m, o)) /\ SameStatus(m, Lost(m, o))
           /\ Lost(m, o).inter = (IF m.count[o] > 1 \/ m.inter # o THEN m.inter ELSE Nil)
           /\ Lost(m, o).count = Plus(m.count, o, -1) /\ Lost(m, o).collected = m.collected \ {o}
           /\ Lost(m, o).table = m.table
           /\ Lost(m, o).recursive
                  = (m.recursive \ {o}) \cup IF m.count[o] > 1 /\ o \notin m.valid THEN {o} ELSE {}
<1> DEFINE l == Lost(m, o)
<1>1. /\ l \in Memory /\ SameLists(m, l) /\ SameStatus(m, l)
      /\ l.inter = (IF m.count[o] > 1 \/ m.inter # o THEN m.inter ELSE Nil)
      /\ l.count = Plus(m.count, o, -1) /\ l.collected = m.collected \ {o}
  BY LostIs
<1>2. l.table = m.table
  BY LostIs
<1>3. l.recursive = (m.recursive \ {o}) \cup IF m.count[o] > 1 /\ o \notin m.valid THEN {o} ELSE {}
  BY LostIs
<1> QED BY <1>1, <1>2, <1>3

\* A list that lost the last reference but one, or the last one, in a pass.
LEMMA SweptIs ==
    ASSUME NEW m \in Memory, m.collecting, Tidy(m), \A g \in m.alive : m.count[g] > 0,
           (m.table \cup m.recursive) \cap m.valid = {}, NEW o \in m.table
    PROVE  SweptTo(m, o, Swept(Without(m, o), o))
<1>1. o \in Obj /\ o \in m.alive /\ o \notin m.collected /\ o \notin m.valid /\ m.count[o] \in Int
  BY DEF Tidy, Memory
<1>2. PICK p : Emptied(m, o, p) /\ Swept(Without(m, o), o) = Unref(p, o)
  BY <1>1, EmptiedIs
<1>3. /\ p \in Memory /\ p.alive = m.alive /\ p.count = m.count /\ p.inter = m.inter /\ p.table = m.table \ {o}
      /\ p.collecting /\ p.valid = m.valid /\ p.reused = m.reused /\ p.collected = m.collected
      /\ p.elems = Put(m.elems, o, <<>>) /\ p.recursive = m.recursive \cup Fallen(m, o)
  BY <1>2 DEF Emptied, SameStatus
<1>4. m.elems \in [Obj -> Seq(Obj)] /\ m.count \in [Obj -> Int] /\ <<>> \in Seq(Obj) /\ -1 \in Int
  BY DEF Memory
<1>5. p.elems[o] = <<>>
  BY <1>1, <1>3, <1>4 DEF Put
<1>11. p \in Memory
  BY <1>2 DEF Emptied
<1> DEFINE l == Lost(p, o)
           q == Freed(l, o)
           put == IF p.count[o] > 1 /\ o \notin p.valid THEN {o} ELSE {}
<1>6. /\ l \in Memory /\ SameLists(p, l) /\ SameStatus(p, l)
      /\ l.inter = (IF p.count[o] > 1 \/ p.inter # o THEN p.inter ELSE Nil)
      /\ l.count = Plus(p.count, o, -1) /\ l.collected = p.collected \ {o}
      /\ l.table = p.table /\ l.recursive = (p.recursive \ {o}) \cup put
  <2>1. p.collecting
    BY <1>3
  <2> QED BY <1>1, <1>11, <2>1, LostCollecting
<1>7. Plus(m.count, o, -1)[o] = m.count[o] - 1 /\ \A g \in Obj \ {o} : Plus(m.count, o, -1)[g] = m.count[g]
  BY <1>1, <1>4 DEF Plus
<1> HIDE DEF l
<1>8. /\ l.alive = m.alive /\ l.elems = Put(m.elems, o, <<>>) /\ l.collected = m.collected
      /\ l.count[o] = m.count[o] - 1 /\ (\A g \in Obj \ {o} : l.count[g] = m.count[g])
      /\ l.table = m.table \ {o} /\ l.recursive = (p.recursive \ {o}) \cup put
      /\ l.collecting /\ SameStatus(m, l)
  BY <1>1, <1>3, <1>6, <1>7, <1>2 DEF SameLists, SameStatus, Emptied
<1>9. CASE m.count[o] > 1
  <2>1. Swept(Without(m, o), o) = l
    BY <1>1, <1>2, <1>3, <1>9, UnrefPlain DEF l
  <2>2. l.inter = m.inter /\ put = {o}
    BY <1>1, <1>3, <1>6, <1>9
  <2>3. l.recursive = m.recursive \cup Fallen(m, o) \cup {o}
    BY <1>3, <1>8, <2>2
  <2> QED BY <2>1, <2>2, <2>3, <1>6, <1>8, <1>9 DEF SweptTo
<1>10. CASE ~(m.count[o] > 1)
  <2>1. Swept(Without(m, o), o) = q
    BY <1>1, <1>2, <1>3, <1>5, <1>10, UnrefEmpty DEF l
  <2>2. /\ q \in Memory /\ SameStatus(l, q) /\ q.alive = l.alive \ {o}
        /\ q.elems = Put(l.elems, o, <<>>) /\ q.count = Put(l.count, o, 0)
        /\ q.inter = l.inter /\ q.collected = l.collected \cup {o}
        /\ q.table = (IF l.collecting THEN l.table ELSE l.table \ {o})
        /\ q.recursive = IF l.collecting THEN l.recursive \ {o} ELSE l.recursive
    BY <1>1, <1>6, FreedIs
  <2> HIDE DEF q
  <2>3. put = {}
    BY <1>3, <1>10
  <2>4. Put(Put(m.elems, o, <<>>), o, <<>>) = Put(m.elems, o, <<>>)
    BY DEF Put
  <2>5. Put(l.count, o, 0)[o] = 0 /\ \A g \in Obj \ {o} : Put(l.count, o, 0)[g] = l.count[g]
    <3>1. l.count \in [Obj -> Int]
      BY <1>6 DEF Memory
    <3> QED BY <1>1, <3>1 DEF Put
  <2>6. q.elems = Put(m.elems, o, <<>>) /\ q.alive = m.alive \ {o} /\ q.table = m.table \ {o} /\ q.collected = m.collected \cup {o}
    BY <1>8, <2>2, <2>4
  <2>7. q.recursive = (m.recursive \cup Fallen(m, o)) \ {o}
    BY <1>3, <1>8, <2>2, <2>3
  <2>8. q.count[o] = 0 /\ \A g \in Obj \ {o} : q.count[g] = m.count[g]
    BY <1>8, <2>2, <2>5
  <2>9. q.inter = IF m.inter = o THEN Nil ELSE m.inter
    BY <1>3, <1>6, <1>10, <2>2
  <2>10. SameStatus(m, q)
    BY <1>8, <2>2 DEF SameStatus
  <2> QED BY <2>1, <2>2, <2>6, <2>7, <2>8, <2>9, <2>10 DEF SweptTo
<1> QED BY <1>9, <1>10

\* What held a reference to a list noted for the next pass is accounted for there.
LEMMA SweptKnown ==
    ASSUME NEW m \in Memory, NEW R \in SUBSET Obj, NEW T \in SUBSET Obj, R \subseteq T, Tidy(m),
           KnownFrom(m, T), NEW o \in m.table, NEW n, SweptTo(m, o, n), m.valid = Closure(n, R)
    PROVE  KnownFrom(n, T)
<1>1. /\ n \in Memory /\ n.valid = m.valid /\ n.reused = m.reused /\ n.table = m.table \ {o}
      /\ n.elems = Put(m.elems, o, <<>>)
  BY DEF SweptTo, SameStatus
<1>2. /\ o \in Obj /\ o \in m.alive /\ m.alive \subseteq Obj /\ m.elems \in [Obj -> Seq(Obj)]
      /\ m.valid \in SUBSET Obj /\ n.table \in SUBSET Obj /\ n.recursive \in SUBSET Obj
      /\ n.inter \in Obj \cup {Nil} /\ <<>> \in Seq(Obj)
  BY <1>1 DEF Tidy, Memory
<1>3. \A g \in Obj \ {o} : n.elems[g] = m.elems[g]
  BY <1>1, <1>2 DEF Put
<1> DEFINE B == Sources(n, T) \cup m.valid
           gone == m.alive \ n.alive
<1>4. gone \subseteq {o} /\ n.alive \subseteq m.alive
  BY DEF SweptTo
<1>5. /\ m.recursive \cup Fallen(m, o) \subseteq B \cup gone
      /\ m.table \subseteq B \cup gone
      /\ T \subseteq B /\ m.valid \subseteq B
      /\ {m.inter} \ {Nil} \subseteq B \cup gone
  <2>1. CASE o \in n.alive
    <3>1. n.recursive = m.recursive \cup Fallen(m, o) \cup {o} /\ n.inter = m.inter
      BY <2>1 DEF SweptTo
    <3> QED BY <3>1, <1>1 DEF Sources
  <2>2. CASE o \notin n.alive
    <3>1. n.recursive = (m.recursive \cup Fallen(m, o)) \ {o} /\ n.inter \in {m.inter, Nil} /\ (n.inter # m.inter => m.inter = o)
      BY <2>2, <1>2 DEF SweptTo
    <3>2. o \in gone
      BY <2>2, <1>2
    <3> QED BY <3>1, <3>2, <1>1 DEF Sources
  <2> QED BY <2>1, <2>2
<1>6. B \in SUBSET Obj /\ gone \in SUBSET Obj
  BY <1>2 DEF Sources
<1>7. ASSUME NEW X \in SUBSET Obj, Closed(n, X), Sources(n, T) \subseteq X PROVE B \subseteq X
  <2>1. R \subseteq X
    BY <1>7 DEF Sources
  <2>2. Closure(n, R) \subseteq X
    BY <1>7, <2>1, ClosureLeast
  <2> QED BY <1>7, <2>2
<1>8. n.reused \/ ToSet(m.elems[o]) \cap m.alive \subseteq Fallen(m, o) \cup m.valid
  BY <1>1 DEF Tidy, Fallen
<1> HIDE DEF B
<1>9. n.reused \/ ToSet(m.elems[o]) \cap m.alive \subseteq B \cup gone
  BY <1>5, <1>8
<1>10. n.reused \/ \A g \in m.alive \ gone : ToSet(m.elems[g]) \cap m.alive \subseteq ToSet(n.elems[g]) \cup B \cup gone
  BY <1>2, <1>3, <1>9
<1>11. n.reused \/ \A g \in gone : ToSet(m.elems[g]) \cap m.alive \subseteq B \cup gone
  BY <1>4, <1>9
<1>12. Sources(m, T) \cap m.alive \subseteq B \cup gone
  BY <1>5 DEF Sources
<1>13. (m.reused => n.reused) /\ \A g \in Obj \ m.alive : m.elems[g] = <<>>
  BY <1>1 DEF Tidy
<1>14. n.alive \cap gone = {} /\ n.alive \subseteq m.alive \cup B
  BY <1>4
<1>15. LostNothing(m, T, n, T, gone, B)
  BY <1>7, <1>10, <1>11, <1>12, <1>13, <1>14 DEF LostNothing
<1> HIDE DEF gone
<1> QED BY <1>1, <1>6, <1>15, KnownStep

\* A pass keeps the tables tidy.
LEMMA SweptTidy ==
    ASSUME NEW m \in Memory, Tidy(m), NEW o \in m.table, NEW n, SweptTo(m, o, n)
    PROVE  Tidy(n)
<1>1. /\ n \in Memory /\ n.reused = m.reused /\ n.table = m.table \ {o}
      /\ n.elems = Put(m.elems, o, <<>>) /\ \A g \in Obj \ {o} : n.count[g] = m.count[g]
  BY DEF SweptTo, SameStatus
<1>2. /\ o \in Obj /\ o \in m.alive /\ o \notin m.collected /\ m.alive \subseteq Obj
      /\ m.elems \in [Obj -> Seq(Obj)] /\ <<>> \in Seq(Obj)
  BY DEF Tidy, Memory
<1>3. n.elems[o] = <<>> /\ \A g \in Obj \ {o} : n.elems[g] = m.elems[g]
  BY <1>1, <1>2 DEF Put
<1>4. Fallen(m, o) \subseteq m.alive \ m.collected
  BY DEF Fallen
<1>5. CASE n.alive = m.alive /\ n.recursive = m.recursive \cup Fallen(m, o) \cup {o}
           /\ n.inter = m.inter /\ n.collected = m.collected
  <2>1. n.inter \in n.alive \cup {Nil} /\ (n.reused \/ n.collected \cap n.alive = {})
    BY <1>1, <1>5 DEF Tidy
  <2>2. n.table \cup n.recursive \subseteq n.alive \ n.collected
    BY <1>1, <1>2, <1>4, <1>5 DEF Tidy
  <2>3. \A g \in Obj \ n.alive : n.elems[g] = <<>> /\ n.count[g] = 0
    BY <1>1, <1>2, <1>3, <1>5 DEF Tidy
  <2> QED BY <2>1, <2>2, <2>3 DEF Tidy
<1>6. CASE /\ n.count[o] = 0 /\ n.alive = m.alive \ {o}
           /\ n.recursive = (m.recursive \cup Fallen(m, o)) \ {o}
           /\ n.inter = (IF m.inter = o THEN Nil ELSE m.inter)
           /\ n.collected = m.collected \cup {o}
  <2>1. n.inter \in n.alive \cup {Nil} /\ (n.reused \/ n.collected \cap n.alive = {})
    BY <1>1, <1>6 DEF Tidy
  <2>2. n.table \cup n.recursive \subseteq n.alive \ n.collected
    BY <1>1, <1>2, <1>4, <1>6 DEF Tidy
  <2>3. \A g \in Obj \ n.alive : n.elems[g] = <<>> /\ n.count[g] = 0
    BY <1>1, <1>2, <1>3, <1>6 DEF Tidy
  <2> QED BY <2>1, <2>2, <2>3 DEF Tidy
<1> QED BY <1>5, <1>6 DEF SweptTo

\* A pass keeps the books of what can be reached.
LEMMA SweptSound ==
    ASSUME NEW m, NEW R, NEW owe, NEW hl, CollectorSound(m, R, owe, hl), NEW o \in m.table,
           NEW n, SweptTo(m, o, n)
    PROVE  CollectorSound(n, R, owe, hl) /\ n \in Memory
<1> DEFINE T == R \cup ToSet(hl)
           S == m.table \cup m.recursive
           V == m.valid
<1>1. PICK H : Collected(m, R, owe, hl, H)
  BY DEF CollectorSound
<1>2. /\ m \in Memory /\ owe \in [Obj -> Nat] /\ T \in SUBSET Obj /\ Tidy(m) /\ KnownFrom(m, T)
      /\ m.collecting /\ V = Closure(m, R) /\ S \cap V = {} /\ \A g \in m.alive : m.count[g] > 0
      /\ H \in {V, V \cup ({m.inter} \ {Nil})} /\ Ledger(m, H, owe, S)
  BY <1>1 DEF Collected, Typed
<1>3. /\ n \in Memory /\ n.valid = V /\ n.collecting /\ n.table = m.table \ {o}
      /\ n.elems = Put(m.elems, o, <<>>) /\ \A g \in Obj \ {o} : n.count[g] = m.count[g]
  BY <1>2 DEF SweptTo, SameStatus
<1>4. /\ o \in Obj /\ o \in m.alive /\ o \notin V /\ m.alive \subseteq Obj /\ R \in SUBSET Obj
      /\ m.elems \in [Obj -> Seq(Obj)] /\ <<>> \in Seq(Obj) /\ H \in SUBSET Obj
  BY <1>2 DEF Tidy, Memory, Ledger
<1>5. \A g \in Obj \ {o} : n.elems[g] = m.elems[g]
  BY <1>3, <1>4 DEF Put
<1>6. R \subseteq V /\ V \subseteq Obj /\ Closed(m, V)
  BY <1>2, <1>4, ClosureIsClosed
<1>7. Closure(n, R) = V
  <2>1. \A g \in Closure(m, R) : n.elems[g] = m.elems[g]
    BY <1>2, <1>4, <1>5, <1>6
  <2> QED BY <1>2, <1>3, <1>4, <2>1, ClosureSame
<1> HIDE DEF T, V
<1> DEFINE K == H \ {o}
<1>8. K \subseteq H /\ o \notin K
  OBVIOUS
<1>9. K \in {V, V \cup ({n.inter} \ {Nil})}
  <2>1. CASE m.inter = o
    <3>1. K = V
      BY <2>1, <1>2, <1>4
    <3> QED BY <3>1
  <2>2. CASE m.inter # o
    <3>1. n.inter = m.inter /\ K = H
      BY <2>2, <1>2, <1>4 DEF SweptTo
    <3> QED BY <3>1, <1>2
  <2> QED BY <2>1, <2>2
<1>10. Closed(n, K)
  <2>1. CASE K = V
    BY <2>1, <1>4, <1>5, <1>6 DEF Closed
  <2>2. CASE K = H
    BY <2>2, <1>2, <1>4, <1>5 DEF Closed, Ledger
  <2>3. K = V \/ K = H
    BY <1>2, <1>4
  <2> QED BY <2>1, <2>2, <2>3
<1>11. ASSUME NEW g \in Obj
       PROVE  /\ HeldBy(K, n, g) \subseteq HeldBy(H, m, g) /\ IsFiniteSet(HeldBy(K, n, g))
              /\ Cardinality(HeldBy(K, n, g)) \in Nat /\ Cardinality(HeldBy(H, m, g)) \in Nat
              /\ Cardinality(HeldBy(K, n, g)) =< Cardinality(HeldBy(H, m, g))
  <2>1. IsFiniteSet(HeldBy(H, m, g)) /\ (\A c \in K : n.elems[c] = m.elems[c]) /\ K \subseteq H
    BY <1>2, <1>4, <1>5 DEF Ledger
  <2> HIDE DEF K
  <2> QED BY <2>1, HeldBySmaller
<1> HIDE DEF K
<1>12. ASSUME NEW g \in m.alive, g # o, Backed(m, H, owe, g) PROVE Backed(n, K, owe, g)
  <2> DEFINE a == Cardinality(HeldBy(H, m, g))
             b == Cardinality(HeldBy(K, n, g))
             i == Intermediate(m, g)
             j == Intermediate(n, g)
  <2>1. g \in Obj
    BY <1>4
  <2>2. a \in Nat /\ b \in Nat /\ b =< a
    BY <1>11, <2>1
  <2>3. n.inter \in {m.inter, Nil} /\ g # Nil
    BY <2>1, ThresholdAssumption DEF SweptTo
  <2>4. i \in Nat /\ j \in Nat /\ j =< i
    BY <2>3 DEF Intermediate
  <2>5. n.count[g] = m.count[g] /\ m.count[g] \in Int /\ owe[g] \in Nat
    BY <1>2, <1>3, <1>12, <2>1 DEF Memory
  <2>6. m.count[g] > owe[g] + i + a
    BY <1>12 DEF Backed
  <2> HIDE DEF a, b, i, j
  <2>7. n.count[g] > owe[g] + j + b
    BY <2>2, <2>4, <2>5, <2>6
  <2> QED BY <2>7 DEF Backed, b, j
<1>13. ASSUME NEW g \in m.alive, g # o, Temporary(m, H, owe, g) PROVE Temporary(n, K, owe, g)
  <2>1. g \in Obj /\ m.inter = g /\ g \in H /\ HeldBy(H, m, g) = {}
    BY <1>4, <1>13 DEF Temporary
  <2>2. n.inter = g /\ g \in K /\ HeldBy(K, n, g) = {}
    BY <2>1, <1>11, <1>13 DEF SweptTo, K
  <2>3. n.count[g] = m.count[g] /\ n.elems[g] = m.elems[g]
    BY <2>1, <1>3, <1>5, <1>13
  <2> QED BY <1>13, <2>2, <2>3 DEF Temporary
<1>14. \A g \in n.alive \ (n.table \cup n.recursive) : g \in m.alive \ S /\ g # o
  <2>1. CASE n.alive = m.alive /\ n.recursive = m.recursive \cup Fallen(m, o) \cup {o}
    BY <1>3, <2>1
  <2>2. CASE n.alive = m.alive \ {o} /\ n.recursive = (m.recursive \cup Fallen(m, o)) \ {o}
    BY <1>3, <2>2
  <2> QED BY <2>1, <2>2 DEF SweptTo
<1>15. Ledger(n, K, owe, n.table \cup n.recursive)
  <2>1. \A g \in n.alive \ (n.table \cup n.recursive) : Backed(n, K, owe, g) \/ Temporary(n, K, owe, g)
    BY <1>2, <1>12, <1>13, <1>14 DEF Ledger
  <2>2. K \subseteq n.alive
    BY <1>2, <1>8 DEF Ledger, SweptTo
  <2> QED BY <1>10, <1>11, <2>1, <2>2 DEF Ledger
<1>16. \A g \in n.alive : n.count[g] > 0
  <2> SUFFICES ASSUME NEW g \in n.alive PROVE n.count[g] > 0
    OBVIOUS
  <2>1. CASE g # o
    BY <1>2, <1>3, <1>4, <2>1 DEF SweptTo
  <2>2. CASE g = o
    <3>1. m.count[o] > 1 /\ n.count[o] = m.count[o] - 1
      BY <2>2 DEF SweptTo
    <3>2. m.count[o] \in Int
      BY <1>2, <1>4 DEF Memory
    <3> QED BY <2>2, <3>1, <3>2
  <2> QED BY <2>1, <2>2
<1>17. Tidy(n)
  BY <1>2, SweptTidy
<1>18. KnownFrom(n, T)
  <2>1. R \subseteq T /\ m.valid = Closure(n, R)
    BY <1>7 DEF T, V
  <2> QED BY <1>2, <1>4, <2>1, SweptKnown
<1>19. (n.table \cup n.recursive) \cap n.valid = {}
  <2>1. Fallen(m, o) \cap V = {}
    BY DEF Fallen, V
  <2> QED BY <2>1, <1>2, <1>3, <1>4 DEF SweptTo
<1>20. Typed(n, owe, T)
  BY <1>2, <1>3 DEF Typed
<1>21. Collected(n, R, owe, hl, K)
  BY <1>3, <1>7, <1>9, <1>15, <1>16, <1>17, <1>18, <1>19, <1>20 DEF Collected, T
<1> QED BY <1>3, <1>21 DEF CollectorSound

-----------------------------------------------------------------------------
(* Every action keeps the invariant.                                       *)

\* The invariant, of a state given.
StateInv(m, sc, hl, ph) ==
    /\ m \in Memory /\ sc \in [Var -> Obj \cup {Nil}] /\ hl \in Seq(Obj)
    /\ ph \in {"run", "collect", "end"}
    /\ ph = "run" => hl = <<>>
    /\ ph # "collect" => StatementSound(m, RootsOf(sc), Owe(sc, hl), hl)
    /\ ph = "collect" => CollectorSound(m, RootsOf(sc), Owe(sc, hl), hl)

\* GcInv, before and after a step.
LEMMA StateInvIs ==
    /\ GcInv <=> StateInv(mem, scope, held, phase)
    /\ GcInv' <=> StateInv(mem', scope', held', phase')
<1>1. Roots = RootsOf(scope) /\ Roots' = RootsOf(scope')
  BY DEF Roots, RootsOf
<1> QED BY <1>1 DEF GcInv, GcTypes, StateInv

\* Between statements the program refers to what its variables hold.
LEMMA BeginsSound ==
    ASSUME GcInv, Begins
    PROVE  /\ scope \in [Var -> Obj \cup {Nil}] /\ mem \in Memory /\ held = <<>> /\ phase = "run"
           /\ RootsOf(scope) = Roots /\ Roots \in SUBSET Obj
           /\ \E H \in SUBSET Obj : /\ RootsOf(scope) \subseteq H
                                    /\ Sound(mem, H, Owe(scope, <<>>), RootsOf(scope))
<1>1. phase = "run" /\ held = <<>> /\ scope \in [Var -> Obj \cup {Nil}] /\ mem \in Memory
  BY DEF GcInv, GcTypes, Begins
<1>2. RootsOf(scope) = Roots
  BY DEF Roots, RootsOf
<1>3. StatementSound(mem, Roots, Owe(scope, <<>>), <<>>)
  BY <1>1 DEF GcInv
<1>4. RootsOf(scope) \cup ToSet(<<>>) = RootsOf(scope)
  BY HeldNone DEF NoneHeld
<1>5. Roots \in SUBSET Obj
  BY <1>1, <1>2, HeldNone, RootsAre DEF NoneHeld
<1> QED BY <1>1, <1>2, <1>3, <1>4, <1>5 DEF StatementSound

\* mb_push_value, where what it leaves is sound.
LEMMA PushedInv ==
    ASSUME scope \in [Var -> Obj \cup {Nil}], Roots \in SUBSET Obj, RootsOf(scope) = Roots,
           NEW m, NEW o, NEW hl \in Seq(Obj),
           Leaves(PutDown(m, o), RootsOf(scope), Owe(scope, hl), hl), PushValue(m, o, hl)
    PROVE  GcInv'
<1> DEFINE left == PutDown(m, o)
           owe == Owe(scope, hl)
<1>1. held' = hl /\ scope' = scope
  BY DEF PushValue
<1>2. Leaves(left, Roots, owe, hl)
  OBVIOUS
<1>3. CASE Cardinality(left.table) >= Threshold
  <2>1. mem' = Collecting(left) /\ phase' = "collect"
    BY <1>3 DEF PushValue
  <2> HIDE DEF left, owe
  <2>2. CollectorSound(Collecting(left), Roots, owe, hl) /\ Collecting(left) \in Memory
    BY <1>2, CollectingSound
  <2> QED BY <1>1, <2>1, <2>2, StateInvIs DEF StateInv, owe
<1>4. CASE ~(Cardinality(left.table) >= Threshold)
  <2>1. mem' = left /\ phase' = "end"
    BY <1>4 DEF PushValue
  <2> HIDE DEF left, owe
  <2>2. StatementSound(left, Roots, owe, hl) /\ left \in Memory
    BY <1>2, LeavesSound
  <2> QED BY <1>1, <2>1, <2>2, StateInvIs DEF StateInv, owe
<1> QED BY <1>3, <1>4

\* A backed value is pushed.
LEMMA PushableInv ==
    ASSUME GcInv, Begins, NEW m, NEW o, NEW hl \in Seq(Obj),
           Pushable(m, RootsOf(scope), Owe(scope, hl), hl, o), PushValue(m, o, hl)
    PROVE  GcInv'
<1>1. scope \in [Var -> Obj \cup {Nil}] /\ RootsOf(scope) = Roots /\ Roots \in SUBSET Obj
  BY BeginsSound
<1>2. RootsOf(scope) \in SUBSET Obj /\ \A c \in RootsOf(scope) : Owe(scope, hl)[c] >= 1
  BY <1>1, RootsAre
<1> DEFINE R == RootsOf(scope)
           owe == Owe(scope, hl)
<1> HIDE DEF R, owe
<1>3. Leaves(PutDown(m, o), R, owe, hl)
  <2>1. R \in SUBSET Obj /\ (\A c \in R : owe[c] >= 1) /\ Pushable(m, R, owe, hl, o)
    BY <1>2 DEF R, owe
  <2> QED BY <2>1, PutDownLeaves
<1>4. Leaves(PutDown(m, o), RootsOf(scope), Owe(scope, hl), hl)
  BY <1>3 DEF R, owe
<1> QED BY <1>1, <1>4, PushedInv

\* A value of an expression between statements.
LEMMA BeginsValue ==
    ASSUME GcInv, Begins, NEW r \in Values(mem)
    PROVE  /\ \E H, K : /\ RootsOf(scope) \subseteq H /\ Sound(mem, H, Owe(scope, <<>>), RootsOf(scope))
                        /\ Valued(mem, H, Owe(scope, <<>>), RootsOf(scope), r[1], r[2], K)
           /\ \E K : ValuedAt(scope, r[1], r[2], K)
<1>1. /\ scope \in [Var -> Obj \cup {Nil}] /\ RootsOf(scope) = Roots
  BY BeginsSound
<1>2. PICK H \in SUBSET Obj : RootsOf(scope) \subseteq H /\ Sound(mem, H, Owe(scope, <<>>), RootsOf(scope))
  BY BeginsSound
<1>3. \E K : Valued(mem, H, Owe(scope, <<>>), RootsOf(scope), r[1], r[2], K) /\ ValuedAt(scope, r[1], r[2], K)
  BY <1>1, <1>2, ValuesAt
<1> QED BY <1>2, <1>3

\* v = value keeps the invariant.
LEMMA AssignInv ==
    ASSUME GcInv, Assign
    PROVE  GcInv'
<1>1. /\ Begins /\ held' = held /\ phase' = phase
      /\ \E v \in Var, r \in Values(mem) : /\ mem' = Ref(UnrefIfAny(r[1], scope[v]), r[2])
                                           /\ scope' = [scope EXCEPT ![v] = r[2]]
  BY DEF Assign
<1>2. PICK v \in Var, r \in Values(mem) : /\ mem' = Ref(UnrefIfAny(r[1], scope[v]), r[2])
                                         /\ scope' = [scope EXCEPT ![v] = r[2]]
  BY <1>1
<1>3. scope \in [Var -> Obj \cup {Nil}] /\ held = <<>> /\ phase = "run"
  BY <1>1, BeginsSound
<1>4. PICK H, K : /\ RootsOf(scope) \subseteq H /\ Sound(mem, H, Owe(scope, <<>>), RootsOf(scope))
                  /\ Valued(mem, H, Owe(scope, <<>>), RootsOf(scope), r[1], r[2], K)
  BY <1>1, BeginsValue
<1>5. scope' = Put(scope, v, r[2])
  BY <1>2 DEF Put
<1>6. StatementSound(mem', RootsOf(scope'), Owe(scope', <<>>), <<>>) /\ r[2] \in Obj
  <2>1. /\ StatementSound(Ref(UnrefIfAny(r[1], scope[v]), r[2]), RootsOf(Put(scope, v, r[2])),
                          Owe(Put(scope, v, r[2]), <<>>), <<>>)
        /\ r[2] \in Obj
    BY <1>3, <1>4, SoundAssigned
  <2> QED BY <2>1, <1>2, <1>5
<1>7. mem' \in Memory
  BY <1>6 DEF StatementSound, Sound, SoundBut, Typed
<1>8. scope' \in [Var -> Obj \cup {Nil}]
  BY <1>2, <1>3, <1>6
<1> QED BY <1>1, <1>3, <1>6, <1>7, <1>8, StateInvIs, HeldNone DEF StateInv, NoneHeld

\* v = 0 keeps the invariant.
LEMMA ForgetInv ==
    ASSUME GcInv, Forget
    PROVE  GcInv'
<1>1. Begins /\ held' = held /\ phase' = phase
  BY DEF Forget
<1>2. PICK v \in Var : /\ scope[v] # Nil /\ mem' = Unref(mem, scope[v])
                       /\ scope' = [scope EXCEPT ![v] = Nil]
  BY DEF Forget
<1>3. scope \in [Var -> Obj \cup {Nil}] /\ held = <<>> /\ phase = "run"
  BY <1>1, BeginsSound
<1>4. PICK H \in SUBSET Obj : RootsOf(scope) \subseteq H /\ Sound(mem, H, Owe(scope, <<>>), RootsOf(scope))
  BY <1>1, BeginsSound
<1>5. scope' = Put(scope, v, Nil)
  BY <1>2 DEF Put
<1>6. StatementSound(mem', RootsOf(scope'), Owe(scope', <<>>), <<>>)
  <2>1. StatementSound(Unref(mem, scope[v]), RootsOf(Put(scope, v, Nil)), Owe(Put(scope, v, Nil), <<>>), <<>>)
    BY <1>2, <1>3, <1>4, SoundForgotten
  <2> QED BY <2>1, <1>2, <1>5
<1>7. mem' \in Memory
  BY <1>6 DEF StatementSound, Sound, SoundBut, Typed
<1>8. scope' \in [Var -> Obj \cup {Nil}]
  BY <1>2, <1>3
<1> QED BY <1>1, <1>3, <1>6, <1>7, <1>8, StateInvIs, HeldNone DEF StateInv, NoneHeld

\* PUSH(c, value) keeps the invariant.
LEMMA PushOnInv ==
    ASSUME GcInv, PushOn
    PROVE  GcInv'
<1>1. Begins
  BY DEF PushOn
<1>7. PICK r \in Values(mem) : \E s \in Values(Ref(r[1], r[2])) :
        PushValue([Ref(s[1], s[2]) EXCEPT !.elems = Put(@, r[2], Append(@[r[2]], s[2]))], r[2], <<r[2]>>)
  BY DEF PushOn
<1>2. PICK s \in Values(Ref(r[1], r[2])) :
        PushValue([Ref(s[1], s[2]) EXCEPT !.elems = Put(@, r[2], Append(@[r[2]], s[2]))], r[2], <<r[2]>>)
  BY <1>7
<1>3. scope \in [Var -> Obj \cup {Nil}] /\ RootsOf(scope) = Roots
  BY <1>1, BeginsSound
<1>4. PICK K : ValuedAt(scope, r[1], r[2], K)
  BY <1>1, BeginsValue
<1>5. /\ Pushable([Ref(s[1], s[2]) EXCEPT !.elems = Put(@, r[2], Append(@[r[2]], s[2]))],
                  RootsOf(scope), Owe(scope, <<r[2]>>), <<r[2]>>, r[2])
      /\ r[2] \in Obj
  BY <1>3, <1>4, PushPushable
<1>6. <<r[2]>> \in Seq(Obj)
  BY <1>5
<1> QED BY <1>1, <1>2, <1>5, <1>6, PushableInv

\* POP(c) keeps the invariant.
LEMMA PopOffInv ==
    ASSUME GcInv, PopOff
    PROVE  GcInv'
<1>1. Begins
  BY DEF PopOff
<1>2. PICK r \in Values(mem) :
        /\ r[1].elems[r[2]] # <<>>
        /\ PushValue(Shorter(r[1], r[2]), Last(r[1].elems[r[2]]), <<Last(r[1].elems[r[2]]), r[2]>>)
  BY DEF PopOff
<1>3. scope \in [Var -> Obj \cup {Nil}]
  BY <1>1, BeginsSound
<1>4. PICK K : ValuedAt(scope, r[1], r[2], K)
  BY <1>1, BeginsValue
<1> DEFINE e == Last(r[1].elems[r[2]])
<1>5. /\ Pushable(Shorter(r[1], r[2]), RootsOf(scope), Owe(scope, <<e, r[2]>>), <<e, r[2]>>, e)
      /\ r[2] \in Obj /\ e \in Obj
  BY <1>2, <1>3, <1>4, PopPushable
<1>6. <<e, r[2]>> \in Seq(Obj)
  BY <1>5
<1> QED BY <1>1, <1>2, <1>5, <1>6, PushableInv

\* GET(c, i) keeps the invariant.
LEMMA GetAtInv ==
    ASSUME GcInv, GetAt
    PROVE  GcInv'
<1>1. Begins
  BY DEF GetAt
<1>2. PICK r \in Values(mem) : \E i \in DOMAIN r[1].elems[r[2]] :
        PushValue(Ref(r[1], r[2]), r[1].elems[r[2]][i], <<r[2]>>)
  BY DEF GetAt
<1>3. PICK i \in DOMAIN r[1].elems[r[2]] : PushValue(Ref(r[1], r[2]), r[1].elems[r[2]][i], <<r[2]>>)
  BY <1>2
<1>4. scope \in [Var -> Obj \cup {Nil}]
  BY <1>1, BeginsSound
<1>5. PICK K : ValuedAt(scope, r[1], r[2], K)
  BY <1>1, BeginsValue
<1>6. /\ Pushable(Ref(r[1], r[2]), RootsOf(scope), Owe(scope, <<r[2]>>), <<r[2]>>, r[1].elems[r[2]][i])
      /\ r[2] \in Obj
  BY <1>4, <1>5, GetPushable
<1>7. <<r[2]>> \in Seq(Obj)
  BY <1>6
<1> QED BY <1>1, <1>3, <1>6, <1>7, PushableInv

\* CLEAR(c) keeps the invariant.
LEMMA ClearAllInv ==
    ASSUME GcInv, ClearAll
    PROVE  GcInv'
<1>1. Begins
  BY DEF ClearAll
<1>2. PICK r \in Values(mem) :
        LET c == r[2]
            counted == Ref(r[1], c)
            emptied == UnrefEach(counted, counted.elems[c])
        IN PushValue([emptied EXCEPT !.elems = Put(@, c, <<>>)], c, <<c>>)
  BY DEF ClearAll
<1>3. scope \in [Var -> Obj \cup {Nil}]
  BY <1>1, BeginsSound
<1>4. PICK K : ValuedAt(scope, r[1], r[2], K)
  BY <1>1, BeginsValue
<1> DEFINE c == r[2]
           counted == Ref(r[1], c)
           emptied == UnrefEach(counted, counted.elems[c])
           x == [emptied EXCEPT !.elems = Put(@, c, <<>>)]
<1>5. Pushable(x, RootsOf(scope), Owe(scope, <<c>>), <<c>>, c) /\ c \in Obj
  BY <1>3, <1>4, ClearPushable
<1>6. PushValue(x, c, <<c>>)
  BY <1>2
<1>7. <<c>> \in Seq(Obj)
  BY <1>5
<1> HIDE DEF c, x
<1> QED BY <1>1, <1>5, <1>6, <1>7, PushableInv

\* LIST() keeps the invariant.
LEMMA MakeListInv ==
    ASSUME GcInv, MakeList
    PROVE  GcInv'
<1>1. Begins
  BY DEF MakeList
<1>2. PICK o \in Obj \ mem.alive, e \in Elements : PushValue(Created(mem, o, e), o, <<>>)
  BY DEF MakeList
<1>3. scope \in [Var -> Obj \cup {Nil}] /\ RootsOf(scope) = Roots /\ Roots \in SUBSET Obj
  BY <1>1, BeginsSound
<1>4. PICK H \in SUBSET Obj : RootsOf(scope) \subseteq H /\ Sound(mem, H, Owe(scope, <<>>), RootsOf(scope))
  BY <1>1, BeginsSound
<1>5. Leaves(PutDown(Created(mem, o, e), o), RootsOf(scope), Owe(scope, <<>>), <<>>)
  BY <1>3, <1>4, MadeLeaves
<1> QED BY <1>2, <1>3, <1>5, PushedInv, HeldNone DEF NoneHeld

\* The end of a statement keeps the invariant.
LEMMA EndStatementInv ==
    ASSUME GcInv, EndStatement
    PROVE  GcInv'
<1> DEFINE given == UnrefEach(mem, held)
<1>1. /\ phase = "end" /\ phase' = "run" /\ held' = <<>> /\ scope' = scope
      /\ mem' = IF given.inter = Nil THEN given ELSE NotedUnlessCollected(given, {given.inter})
  BY DEF EndStatement
<1>2. /\ scope \in [Var -> Obj \cup {Nil}] /\ held \in Seq(Obj)
      /\ StatementSound(mem, RootsOf(scope), Owe(scope, held), held)
  BY <1>1, StateInvIs DEF StateInv
<1>3. StatementSound(mem', RootsOf(scope), Owe(scope, <<>>), <<>>)
  BY <1>1, <1>2, EndSound
<1>4. mem' \in Memory
  BY <1>3 DEF StatementSound, Sound, SoundBut, Typed
<1> HIDE DEF given
<1> QED BY <1>1, <1>2, <1>3, <1>4, StateInvIs, HeldNone DEF StateInv, NoneHeld

\* A list of the table is visited by _gc_destroy_garbage: the invariant is kept.
LEMMA VisitInv ==
    ASSUME GcInv, Visit
    PROVE  GcInv'
<1>1. phase = "collect" /\ scope' = scope /\ held' = held /\ phase' = phase
  BY DEF Visit
<1>2. PICK o \in mem.table : mem' = IF o \in mem.collected THEN Without(mem, o) ELSE Swept(Without(mem, o), o)
  BY DEF Visit, Without
<1>3. CollectorSound(mem, RootsOf(scope), Owe(scope, held), held) /\ StateInv(mem, scope, held, phase)
  BY <1>1, StateInvIs DEF StateInv
<1>4. PICK H : Collected(mem, RootsOf(scope), Owe(scope, held), held, H)
  BY <1>3 DEF CollectorSound
<1>5. /\ mem \in Memory /\ mem.collecting /\ Tidy(mem) /\ \A g \in mem.alive : mem.count[g] > 0
      /\ (mem.table \cup mem.recursive) \cap mem.valid = {}
  BY <1>4 DEF Collected, Typed
<1>6. mem' = Swept(Without(mem, o), o)
  BY <1>2, <1>5 DEF Tidy
<1>7. SweptTo(mem, o, mem')
  BY <1>5, <1>6, SweptIs
<1>8. CollectorSound(mem', RootsOf(scope), Owe(scope, held), held) /\ mem' \in Memory
  BY <1>3, <1>7, SweptSound
<1> QED BY <1>1, <1>3, <1>8, StateInvIs DEF StateInv

\* The next pass, or the end of _gc_collect_garbage, keeps the invariant.
LEMMA NextPassInv ==
    ASSUME GcInv, NextPass
    PROVE  GcInv'
<1>1. phase = "collect" /\ scope' = scope /\ held' = held /\ mem.table = {}
  BY DEF NextPass
<1>2. CollectorSound(mem, RootsOf(scope), Owe(scope, held), held) /\ StateInv(mem, scope, held, phase)
  BY <1>1, StateInvIs DEF StateInv
<1>3. CASE mem.recursive # {}
  <2>1. mem' = [mem EXCEPT !.table = mem.recursive, !.recursive = {}] /\ phase' = phase
    BY <1>3 DEF NextPass
  <2>2. CollectorSound(mem', RootsOf(scope), Owe(scope, held), held) /\ mem' \in Memory
    BY <1>1, <1>2, <2>1, PassedOn
  <2> QED BY <1>1, <1>2, <2>1, <2>2, StateInvIs DEF StateInv
<1>4. CASE mem.recursive = {}
  <2>1. mem' = [mem EXCEPT !.collecting = FALSE, !.collected = {}, !.valid = {}] /\ phase' = "end"
    BY <1>4 DEF NextPass
  <2>2. StatementSound(mem', RootsOf(scope), Owe(scope, held), held) /\ mem' \in Memory
    BY <1>1, <1>2, <1>4, <2>1, PassesEnd
  <2> QED BY <1>1, <1>2, <2>1, <2>2, StateInvIs DEF StateInv
<1> QED BY <1>3, <1>4

-----------------------------------------------------------------------------
(* The theorems.                                                           *)

\* At the start there is no list.
LEMMA FreshInv ==
    ASSUME GcInit
    PROVE  GcInv
<1> DEFINE R == RootsOf(scope)
           owe == Owe(scope, <<>>)
<1>1. /\ mem = Fresh /\ held = <<>> /\ phase = "run" /\ scope \in [Var -> Obj \cup {Nil}]
      /\ \A v \in Var : scope[v] = Nil
  BY DEF GcInit
<1>2. /\ mem \in Memory /\ mem.alive = {} /\ (\A g \in Obj : mem.elems[g] = <<>> /\ mem.count[g] = 0)
      /\ mem.inter = Nil /\ mem.table = {} /\ mem.recursive = {} /\ mem.collected = {} /\ mem.valid = {}
      /\ ~mem.collecting
  BY <1>1, HeldNone DEF Fresh, Memory, NoneHeld
<1>3. R = {} /\ owe \in [Obj -> Nat] /\ ToSet(<<>>) = {} /\ <<>> \in Seq(Obj)
  BY <1>1, HeldNone, OweNat DEF RootsOf, NoneHeld
<1> HIDE DEF R, owe
<1>4. Idle(mem) /\ Tidy(mem)
  BY <1>2 DEF Idle, Tidy
<1>5. Ledger(mem, {}, owe, {})
  <2>1. \A g \in Obj : HeldBy({}, mem, g) = {}
    BY DEF HeldBy
  <2> QED BY <1>2, <2>1, FS_EmptySet DEF Ledger, Closed
<1>6. KnownFrom(mem, {})
  BY <1>2 DEF KnownFrom
<1>7. Sound(mem, {}, owe, {})
  BY <1>2, <1>3, <1>4, <1>5, <1>6 DEF Sound, SoundBut, Typed
<1>8. StatementSound(mem, R, owe, <<>>)
  <2>1. R \cup ToSet(<<>>) = {}
    BY <1>3
  <2> QED BY <1>3, <1>7, <2>1 DEF StatementSound
<1>9. StatementSound(mem, RootsOf(scope), Owe(scope, <<>>), <<>>)
  BY <1>8 DEF R, owe
<1> QED BY <1>1, <1>2, <1>3, <1>9, StateInvIs DEF StateInv

\* Every step keeps the books.
LEMMA NextInv ==
    ASSUME GcInv, [GcNext]_gcVars
    PROVE  GcInv'
<1>1. CASE UNCHANGED gcVars
  BY <1>1, StateInvIs DEF gcVars
<1>2. CASE GcNext
  BY <1>2, AssignInv, ForgetInv, PushOnInv, PopOffInv, GetAtInv, ClearAllInv, MakeListInv,
     EndStatementInv, VisitInv, NextPassInv DEF GcNext
<1> QED BY <1>1, <1>2

\* GcInv is an invariant: every statement and every pass keeps the books.
THEOREM BooksKept == GcSpec => []GcInv
<1>1. GcInit => GcInv
  BY FreshInv
<1>2. GcInv /\ [GcNext]_gcVars => GcInv'
  BY NextInv
<1> QED BY <1>1, <1>2, PTL DEF GcSpec

\* A list is there as long as references to it are counted.
CountedAreThere == \A o \in Obj : mem.count[o] >= 0 /\ (o \in mem.alive <=> mem.count[o] > 0)

LEMMA CountedByBooks ==
    ASSUME GcInv
    PROVE  CountedAreThere
<1>1. mem \in Memory /\ mem.alive \subseteq Obj
  BY DEF GcInv, GcTypes, Memory
<1>2. Tidy(mem) /\ \A g \in mem.alive : mem.count[g] > 0
  <2>1. CASE phase # "collect"
    <3>1. PICK H \in SUBSET Obj : Sound(mem, H, Owe(scope, held), Roots \cup ToSet(held))
      BY <2>1 DEF GcInv, StatementSound
    <3>2. \A g \in mem.alive : mem.count[g] > 0
      BY <3>1, CountsPositive
    <3> QED BY <3>1, <3>2 DEF Sound, SoundBut
  <2>2. CASE phase = "collect"
    BY <2>2 DEF GcInv, CollectorSound, Collected
  <2> QED BY <2>1, <2>2
<1>3. \A o \in Obj \ mem.alive : mem.count[o] = 0
  BY <1>2 DEF Tidy
<1>4. ASSUME NEW o \in Obj PROVE mem.count[o] >= 0 /\ (o \in mem.alive <=> mem.count[o] > 0)
  <2>1. mem.count[o] \in Int
    BY <1>1 DEF Memory
  <2>2. CASE o \in mem.alive
    BY <1>2, <2>1, <2>2
  <2>3. CASE o \notin mem.alive
    BY <1>3, <2>3
  <2> QED BY <2>2, <2>3
<1> QED BY <1>4 DEF CountedAreThere

\* CountedAreThere is an invariant: _unref, the passes of the collector and the freeing
\* of what lists contain never leave a list without references, nor a reference to none.
THEOREM ListsAreCounted == GcSpec => []CountedAreThere
<1>1. GcInv => CountedAreThere
  BY CountedByBooks
<1> QED BY <1>1, BooksKept, PTL

\* GcTypeOK is an invariant: the variables keep their types, and no count becomes
\* negative.
THEOREM GcTyped == GcSpec => []GcTypeOK
<1>1. GcInv => GcTypeOK
  <2> SUFFICES ASSUME GcInv PROVE GcTypeOK
    OBVIOUS
  <2>1. GcTypes
    BY DEF GcInv
  <2>2. \A o \in Obj : mem.count[o] \in Nat
    <3>1. ASSUME NEW o \in Obj PROVE mem.count[o] \in Nat
      <4>1. mem.count[o] \in Int /\ mem.count[o] >= 0
        BY <2>1, CountedByBooks DEF GcTypes, Memory, CountedAreThere
      <4> QED BY <4>1
    <3> QED BY <3>1
  <2> QED BY <2>1, <2>2 DEF GcTypes, GcTypeOK
<1> QED BY <1>1, BooksKept, PTL

\* What a variable can reach is there.
LEMMA KeptByBooks ==
    ASSUME GcInv
    PROVE  ReachableKept
<1>1. mem \in Memory /\ Roots \in SUBSET Obj
  <2>1. Roots = RootsOf(scope)
    BY DEF Roots, RootsOf
  <2>2. scope \in [Var -> Obj \cup {Nil}]
    BY DEF GcInv, GcTypes
  <2> QED BY <2>1, <2>2, HeldNone, RootsAre DEF GcInv, GcTypes, NoneHeld
<1>2. CASE phase # "collect"
  <2>1. PICK H \in SUBSET Obj : Roots \subseteq H /\ Sound(mem, H, Owe(scope, held), Roots \cup ToSet(held))
    BY <1>2 DEF GcInv, StatementSound
  <2>2. H \subseteq mem.alive /\ Closed(mem, H)
    BY <2>1 DEF Sound, SoundBut, Ledger
  <2>3. Closure(mem, Roots) \subseteq H
    BY <2>1, <2>2, ClosureLeast
  <2> QED BY <2>2, <2>3 DEF ReachableKept, Reachable
<1>3. CASE phase = "collect"
  <2>1. PICK H : Collected(mem, Roots, Owe(scope, held), held, H)
    BY <1>3 DEF GcInv, CollectorSound
  <2>2. mem.valid = Closure(mem, Roots) /\ mem.valid \subseteq H /\ H \subseteq mem.alive
    BY <2>1 DEF Collected, Ledger
  <2> QED BY <2>2 DEF ReachableKept, Reachable
<1> QED BY <1>2, <1>3

\* ReachableKept is an invariant: what a variable can reach is never freed by _unref or
\* _gc_collect_garbage, however lists are shared, nested or cyclic.
THEOREM NothingReachableFreed == GcSpec => []ReachableKept
<1>1. GcInv => ReachableKept
  BY KeptByBooks
<1> QED BY <1>1, BooksKept, PTL

\* And what no variable can reach is known to the collector.
LEMMA KnownByBooks ==
    ASSUME GcInv
    PROVE  GarbageKnown
<1> SUFFICES ASSUME phase = "run", ~mem.reused
             PROVE  mem.alive \subseteq Closure(mem, Roots \cup mem.table \cup ({mem.inter} \ {Nil}))
  BY DEF GarbageKnown
<1> DEFINE S == Roots \cup mem.table \cup ({mem.inter} \ {Nil})
           X == Closure(mem, S)
<1>1. held = <<>>
  BY DEF GcInv
<1>2. PICK H \in SUBSET Obj : Roots \subseteq H /\ Sound(mem, H, Owe(scope, held), Roots \cup ToSet(held))
  BY DEF GcInv, StatementSound
<1>3. Roots \cup ToSet(held) = Roots
  BY <1>1, HeldNone DEF NoneHeld
<1>4. mem \in Memory /\ Idle(mem) /\ KnownFrom(mem, Roots)
  BY <1>2, <1>3 DEF Sound, SoundBut, Typed
<1>5. S \in SUBSET Obj
  BY <1>2, <1>4 DEF Memory
<1>6. S \subseteq X /\ X \subseteq Obj /\ Closed(mem, X)
  BY <1>4, <1>5, ClosureIsClosed
<1>7. Sources(mem, Roots) = S
  BY <1>4 DEF Sources, Idle
<1> HIDE DEF S, X
<1>8. mem.alive \subseteq X
  BY <1>4, <1>6, <1>7 DEF KnownFrom
<1> QED BY <1>8 DEF X, S

\* GarbageKnown is an invariant: between statements every list is reachable from the
\* variables, the intermediate value or the table of garbage.
THEOREM NoGarbageForgotten == GcSpec => []GarbageKnown
<1>1. GcInv => GarbageKnown
  BY KnownByBooks
<1> QED BY <1>1, BooksKept, PTL
=============================================================================
