----------------------- MODULE BasicCollectionProofs -----------------------
(***************************************************************************)
(* The lists and dictionaries of MY-BASIC, for any number of iterators,    *)
(* nodes, keys, buckets and elements.                                      *)
(*                                                                         *)
(* First, chains: what the statements on a list do to one.  A node is      *)
(* linked in, one is unlinked, one gets another integer, and _ls_sort      *)
(* brings them into order.  A sequence of steps is a recursive function,   *)
(* whose existence and values are found by the least counterexample.       *)
(*                                                                         *)
(* Then the list.  The lock does its work: an iterator it calls valid is   *)
(* where the list is.  A write makes the lock negative only when it was    *)
(* positive; so the proof needs that its magnitude counts the iterators    *)
(* there are, and a lock of 0 means that there is none that could notice   *)
(* (IInv).  The list is a sequence: the chain has no node twice, the count *)
(* is its length, the cached node is the one at its index, a range has no  *)
(* chain (ListOK); and while the list has not changed under them,          *)
(* iterators are at elements and a loop's variable is the element it is at *)
(* (ItsOK).                                                                *)
(*                                                                         *)
(* Last, the dictionary: a map from keys to values, with any hash.  What   *)
(* hides the buckets is that a chain has no key twice and none of another  *)
(* bucket, and that the lock counts the iterators, so that it is negative  *)
(* only while one that saw the change is alive; an iterator of a           *)
(* dictionary that has not changed is then at a key that is held, in that  *)
(* key's bucket.                                                           *)
(***************************************************************************)
EXTENDS BasicList, BasicDict, FiniteSetTheorems, SequenceTheorems, WellFoundedInduction, TLAPS

-----------------------------------------------------------------------------
(* Sequences.                                                              *)

\* No node is in a chain twice.
Distinct(s) == \A i, j \in DOMAIN s : s[i] = s[j] => i = j
ChainOK(s) == s \in Seq(Node) /\ Distinct(s)

\* The integers in a chain.
Elements(s, d) == [k \in 1..Len(s) |-> d[s[k]]]

\* What becomes of a sequence when an element is put in after the i-th, or the i-th goes.
PutIn(s, i, e) == SubSeq(s, 1, i) \o <<e>> \o SubSeq(s, i + 1, Len(s))
CutOut(s, i) == SubSeq(s, 1, i - 1) \o SubSeq(s, i + 1, Len(s))

\* The elements after one is put in.
LEMMA PutAt ==
    ASSUME NEW S, NEW s \in Seq(S), NEW e \in S, NEW i \in 0..Len(s)
    PROVE  LET t == PutIn(s, i, e)
           IN  /\ t \in Seq(S) /\ Len(t) = Len(s) + 1 /\ DOMAIN t = 1..(Len(s) + 1)
               /\ \A k \in 1..(Len(s) + 1) :
                     t[k] = IF k <= i THEN s[k] ELSE IF k = i + 1 THEN e ELSE s[k - 1]
<1> DEFINE n == Len(s)
           left == SubSeq(s, 1, i)
           right == SubSeq(s, i + 1, n)
<1>1. n \in Nat /\ i \in Nat /\ i <= n /\ \A k \in 1..n : s[k] \in S
  BY LenProperties, ElementOfSeq
<1>2. /\ left \in Seq(S) /\ Len(left) = i
      /\ \A k \in 1..i : left[k] = s[k]
  <2>1. 1 \in Int /\ i \in Int /\ \A k \in 1..i : s[k] \in S
    BY <1>1
  <2>2. /\ left \in Seq(S) /\ Len(left) = (IF 1 <= i THEN i - 1 + 1 ELSE 0)
        /\ \A k \in 1..i - 1 + 1 : left[k] = s[1 + k - 1]
    BY <2>1, SubSeqProperties
  <2> HIDE DEF left
  <2> QED BY <1>1, <2>2
<1>3. /\ right \in Seq(S) /\ Len(right) = n - i
      /\ \A k \in 1..n - i : right[k] = s[i + k]
  <2>1. i + 1 \in Int /\ n \in Int /\ \A k \in i + 1..n : s[k] \in S
    BY <1>1
  <2>2. /\ right \in Seq(S) /\ Len(right) = (IF i + 1 <= n THEN n - (i + 1) + 1 ELSE 0)
        /\ \A k \in 1..n - (i + 1) + 1 : right[k] = s[i + 1 + k - 1]
    BY <2>1, SubSeqProperties
  <2> HIDE DEF right, n
  <2>3. ASSUME NEW k \in 1..n - i PROVE right[k] = s[i + k]
    <3>1. k \in 1..n - (i + 1) + 1 /\ i + 1 + k - 1 = i + k
      BY <1>1
    <3> QED BY <2>2, <3>1
  <2>4. Len(right) = n - i
    BY <1>1, <2>2
  <2> QED BY <2>2, <2>3, <2>4
<1> HIDE DEF left, right, n
<1>4. <<e>> \in Seq(S) /\ Len(<<e>>) = 1 /\ <<e>>[1] = e
  OBVIOUS
<1> DEFINE first == left \o <<e>>
           t == first \o right
<1>5. /\ first \in Seq(S) /\ Len(first) = i + 1
      /\ \A k \in 1..i + 1 : first[k] = IF k <= i THEN s[k] ELSE e
  <2>1. /\ first \in Seq(S) /\ Len(first) = i + 1
        /\ \A k \in 1..i + 1 : first[k] = IF k <= i THEN left[k] ELSE <<e>>[k - i]
    BY <1>2, <1>4, ConcatProperties
  <2> HIDE DEF first
  <2>2. ASSUME NEW k \in 1..i + 1 PROVE first[k] = IF k <= i THEN s[k] ELSE e
    <3>1. k <= i => k \in 1..i
      BY <1>1
    <3>2. ~(k <= i) => k - i = 1
      BY <1>1
    <3> QED BY <1>2, <1>4, <2>1, <3>1, <3>2
  <2> QED BY <2>1, <2>2
<1>6. /\ t \in Seq(S) /\ Len(t) = (i + 1) + (n - i)
      /\ \A k \in 1..(i + 1) + (n - i) : t[k] = IF k <= i + 1 THEN first[k] ELSE right[k - (i + 1)]
  <2> HIDE DEF first
  <2>1. /\ t \in Seq(S) /\ Len(t) = Len(first) + Len(right)
        /\ \A k \in 1..Len(first) + Len(right) :
              t[k] = IF k <= Len(first) THEN first[k] ELSE right[k - Len(first)]
    BY <1>3, <1>5, ConcatProperties
  <2> QED BY <1>3, <1>5, <2>1
<1> HIDE DEF first, t
<1>7. (i + 1) + (n - i) = n + 1
  BY <1>1
<1>8. ASSUME NEW k \in 1..n + 1
      PROVE  t[k] = IF k <= i THEN s[k] ELSE IF k = i + 1 THEN e ELSE s[k - 1]
  <2>1. k <= i + 1 => k \in 1..i + 1
    BY <1>1
  <2>2. ~(k <= i + 1) => k - (i + 1) \in 1..n - i /\ i + (k - (i + 1)) = k - 1
    BY <1>1
  <2>3. k <= i => k <= i + 1
    BY <1>1
  <2>4. k <= i + 1 /\ ~(k <= i) <=> k = i + 1
    BY <1>1
  <2> QED BY <1>3, <1>5, <1>6, <1>7, <2>1, <2>2, <2>3, <2>4
<1>9. DOMAIN t = 1..n + 1
  BY <1>6, <1>7, LenProperties
<1> QED BY <1>6, <1>7, <1>8, <1>9 DEF PutIn, t, first, left, right, n

\* The elements after one goes.
LEMMA CutAt ==
    ASSUME NEW S, NEW s \in Seq(S), NEW i \in 1..Len(s)
    PROVE  LET t == CutOut(s, i)
           IN  /\ t \in Seq(S) /\ Len(t) = Len(s) - 1 /\ DOMAIN t = 1..(Len(s) - 1)
               /\ \A k \in 1..(Len(s) - 1) : t[k] = IF k < i THEN s[k] ELSE s[k + 1]
<1> DEFINE n == Len(s)
           left == SubSeq(s, 1, i - 1)
           right == SubSeq(s, i + 1, n)
<1>1. n \in Nat /\ i \in Nat /\ 1 <= i /\ i <= n /\ \A k \in 1..n : s[k] \in S
  BY LenProperties, ElementOfSeq
<1>2. /\ left \in Seq(S) /\ Len(left) = i - 1
      /\ \A k \in 1..i - 1 : left[k] = s[k]
  <2>1. 1 \in Int /\ i - 1 \in Int /\ \A k \in 1..i - 1 : s[k] \in S
    BY <1>1
  <2>2. /\ left \in Seq(S) /\ Len(left) = (IF 1 <= i - 1 THEN i - 1 - 1 + 1 ELSE 0)
        /\ \A k \in 1..i - 1 - 1 + 1 : left[k] = s[1 + k - 1]
    BY <2>1, SubSeqProperties
  <2> HIDE DEF left
  <2> QED BY <1>1, <2>2
<1>3. /\ right \in Seq(S) /\ Len(right) = n - i
      /\ \A k \in 1..n - i : right[k] = s[i + k]
  <2>1. i + 1 \in Int /\ n \in Int /\ \A k \in i + 1..n : s[k] \in S
    BY <1>1
  <2>2. /\ right \in Seq(S) /\ Len(right) = (IF i + 1 <= n THEN n - (i + 1) + 1 ELSE 0)
        /\ \A k \in 1..n - (i + 1) + 1 : right[k] = s[i + 1 + k - 1]
    BY <2>1, SubSeqProperties
  <2> HIDE DEF right, n
  <2>3. ASSUME NEW k \in 1..n - i PROVE right[k] = s[i + k]
    <3>1. k \in 1..n - (i + 1) + 1 /\ i + 1 + k - 1 = i + k
      BY <1>1
    <3> QED BY <2>2, <3>1
  <2>4. Len(right) = n - i
    BY <1>1, <2>2
  <2> QED BY <2>2, <2>3, <2>4
<1> DEFINE t == left \o right
<1> HIDE DEF left, right, n
<1>4. /\ t \in Seq(S) /\ Len(t) = (i - 1) + (n - i)
      /\ \A k \in 1..(i - 1) + (n - i) : t[k] = IF k <= i - 1 THEN left[k] ELSE right[k - (i - 1)]
  <2>1. /\ t \in Seq(S) /\ Len(t) = Len(left) + Len(right)
        /\ \A k \in 1..Len(left) + Len(right) :
              t[k] = IF k <= Len(left) THEN left[k] ELSE right[k - Len(left)]
    BY <1>2, <1>3, ConcatProperties
  <2> HIDE DEF t
  <2> QED BY <1>2, <1>3, <2>1
<1> HIDE DEF t
<1>5. (i - 1) + (n - i) = n - 1
  BY <1>1
<1>6. ASSUME NEW k \in 1..n - 1 PROVE t[k] = IF k < i THEN s[k] ELSE s[k + 1]
  <2>1. k < i => k <= i - 1 /\ k \in 1..i - 1
    BY <1>1
  <2>2. ~(k < i) => ~(k <= i - 1) /\ k - (i - 1) \in 1..n - i /\ i + (k - (i - 1)) = k + 1
    BY <1>1
  <2> QED BY <1>2, <1>3, <1>4, <1>5, <2>1, <2>2
<1>7. DOMAIN t = 1..n - 1
  BY <1>4, <1>5, LenProperties
<1> QED BY <1>4, <1>5, <1>6, <1>7 DEF CutOut, t, left, right, n

\* A chain has as many elements as nodes.
LEMMA ElementsAre ==
    ASSUME NEW s \in Seq(Node), NEW d \in [Node -> Int]
    PROVE  /\ Elements(s, d) \in Seq(Int) /\ Len(Elements(s, d)) = Len(s)
           /\ Len(s) \in Nat /\ DOMAIN s = 1..Len(s)
           /\ \A k \in 1..Len(s) : s[k] \in Node /\ Elements(s, d)[k] = d[s[k]] /\ d[s[k]] \in Int
<1>1. Len(s) \in Nat /\ DOMAIN s = 1..Len(s) /\ \A k \in 1..Len(s) : s[k] \in Node
  BY LenProperties, ElementOfSeq
<1>2. \A k \in 1..Len(s) : Elements(s, d)[k] = d[s[k]] /\ d[s[k]] \in Int
  BY <1>1 DEF Elements
<1>3. Elements(s, d) \in [1..Len(s) -> Int]
  BY <1>2 DEF Elements
<1>4. Elements(s, d) \in Seq(Int) /\ Len(Elements(s, d)) = Len(s)
  BY <1>1, <1>3
<1> QED BY <1>1, <1>2, <1>4

\* A function, or a sequence, that takes another value at one place.
Rewritten(f, k, v) == [f EXCEPT ![k] = v]

\* A node that is new, at place i + 1.
LEMMA Linking ==
    ASSUME NEW s, ChainOK(s), NEW d \in [Node -> Int], NEW n \in Node, n \notin Chain(s),
           NEW v \in Int, NEW i \in 0..Len(s)
    PROVE  LET t == PutIn(s, i, n)
               e == Elements(s, d)
               u == PutIn(e, i, v)
           IN  /\ ChainOK(t) /\ Len(t) = Len(s) + 1
               /\ Rewritten(d, n, v) \in [Node -> Int]
               /\ Elements(t, Rewritten(d, n, v)) = u
<1> DEFINE t == PutIn(s, i, n)
           e == Elements(s, d)
           u == PutIn(e, i, v)
           dd == [d EXCEPT ![n] = v]
           len == Len(s)
<1>1. s \in Seq(Node) /\ Distinct(s)
  BY DEF ChainOK
<1>2. /\ e \in Seq(Int) /\ Len(e) = len /\ len \in Nat /\ DOMAIN s = 1..len
      /\ \A k \in 1..len : s[k] \in Node /\ e[k] = d[s[k]]
  BY <1>1, ElementsAre
<1>3. /\ t \in Seq(Node) /\ Len(t) = len + 1 /\ DOMAIN t = 1..len + 1
      /\ \A k \in 1..len + 1 : t[k] = IF k <= i THEN s[k] ELSE IF k = i + 1 THEN n ELSE s[k - 1]
  BY <1>1, PutAt
<1>4. /\ u \in Seq(Int) /\ Len(u) = len + 1
      /\ \A k \in 1..len + 1 : u[k] = IF k <= i THEN e[k] ELSE IF k = i + 1 THEN v ELSE e[k - 1]
  <2> DEFINE Z == Int
  <2>1. i \in 0..Len(e) /\ e \in Seq(Z) /\ v \in Z
    BY <1>2 DEF len
  <2> HIDE DEF e, u, len, Z
  <2>2. /\ u \in Seq(Z) /\ Len(u) = Len(e) + 1
        /\ \A k \in 1..Len(e) + 1 : u[k] = IF k <= i THEN e[k] ELSE IF k = i + 1 THEN v ELSE e[k - 1]
    BY <2>1, PutAt DEF u
  <2> QED BY <1>2, <2>2 DEF Z
<1>5. dd \in [Node -> Int] /\ dd[n] = v /\ \A m \in Node : m # n => dd[m] = d[m]
  OBVIOUS
<1>6. \A k \in 1..len : s[k] # n
  BY <1>2 DEF Chain
<1>7. i \in Nat /\ i <= len
  BY <1>2
<1> HIDE DEF t, e, u, dd, len
<1>8. Distinct(t)
  <2> SUFFICES ASSUME NEW j \in 1..len + 1, NEW k \in 1..len + 1, t[j] = t[k] PROVE j = k
    BY <1>3 DEF Distinct
  <2>1. \A m \in 1..len + 1 : /\ m <= i => m \in 1..len
                              /\ ~(m <= i) /\ m # i + 1 => m - 1 \in 1..len /\ m - 1 > i
    BY <1>2, <1>7
  <2>2. \A p, q \in 1..len : s[p] = s[q] => p = q
    BY <1>1, <1>2 DEF Distinct
  <2>3. CASE j = i + 1 \/ k = i + 1
    <3>1. \A m \in 1..len + 1 : t[m] = n <=> m = i + 1
      <4> SUFFICES ASSUME NEW m \in 1..len + 1 PROVE t[m] = n <=> m = i + 1
        OBVIOUS
      <4>1. m <= i => t[m] # n /\ m # i + 1
        <5> SUFFICES ASSUME m <= i PROVE t[m] # n /\ m # i + 1
          OBVIOUS
        <5>1. t[m] = s[m] /\ s[m] # n
          BY <1>3, <1>6, <2>1
        <5> QED BY <1>7, <5>1
      <4>2. m = i + 1 => t[m] = n
        BY <1>3, <1>7
      <4>3. ~(m <= i) /\ m # i + 1 => t[m] # n
        BY <1>3, <1>6, <2>1
      <4> QED BY <4>1, <4>2, <4>3
    <3> QED BY <2>3, <3>1
  <2>4. CASE j # i + 1 /\ k # i + 1
    <3>1. CASE j <= i /\ k <= i
      BY <1>3, <2>1, <2>2, <3>1
    <3>2. CASE j <= i /\ ~(k <= i)
      <4>1. s[j] = s[k - 1]
        BY <1>3, <2>4, <3>2
      <4>2. j = k - 1
        BY <2>1, <2>2, <2>4, <3>2, <4>1
      <4> QED BY <2>1, <2>4, <3>2, <4>2, <1>7
    <3>3. CASE ~(j <= i) /\ k <= i
      <4>1. s[j - 1] = s[k]
        BY <1>3, <2>4, <3>3
      <4>2. j - 1 = k
        BY <2>1, <2>2, <2>4, <3>3, <4>1
      <4> QED BY <2>1, <2>4, <3>3, <4>2, <1>7
    <3>4. CASE ~(j <= i) /\ ~(k <= i)
      <4>1. s[j - 1] = s[k - 1]
        BY <1>3, <2>4, <3>4
      <4>2. j - 1 = k - 1
        BY <2>1, <2>2, <2>4, <3>4, <4>1
      <4> QED BY <4>2
    <3> QED BY <3>1, <3>2, <3>3, <3>4
  <2> QED BY <2>3, <2>4
<1>9. Elements(t, dd) = u
  <2>1. /\ Elements(t, dd) \in Seq(Int) /\ Len(Elements(t, dd)) = len + 1
        /\ \A k \in 1..len + 1 : Elements(t, dd)[k] = dd[t[k]]
    BY <1>3, <1>5, ElementsAre
  <2>2. ASSUME NEW k \in 1..len + 1 PROVE dd[t[k]] = u[k]
    <3>1. CASE k <= i
      <4>1. k \in 1..len
        BY <1>2, <1>7, <3>1
      <4> QED BY <1>2, <1>3, <1>4, <1>5, <1>6, <3>1, <4>1
    <3>2. CASE k = i + 1
      <4>1. ~(k <= i)
        BY <1>7, <3>2
      <4> QED BY <1>3, <1>4, <1>5, <3>2, <4>1
    <3>3. CASE ~(k <= i) /\ k # i + 1
      <4>1. k - 1 \in 1..len
        BY <1>2, <1>7, <3>3
      <4>2. t[k] = s[k - 1] /\ u[k] = e[k - 1]
        BY <1>3, <1>4, <3>3
      <4> QED BY <1>2, <1>5, <1>6, <4>1, <4>2
    <3> QED BY <3>1, <3>2, <3>3
  <2> QED BY <1>4, <2>1, <2>2, SeqEqual
<1> QED BY <1>1, <1>3, <1>5, <1>8, <1>9 DEF ChainOK, Rewritten, t, e, u, dd, len

\* A node that goes from place i.
LEMMA Unlinking ==
    ASSUME NEW s, ChainOK(s), NEW d \in [Node -> Int], NEW i \in 1..Len(s)
    PROVE  LET e == Elements(s, d)
               t == CutOut(s, i)
               dd == Zeroed(d, {s[i]})
           IN  /\ ChainOK(t) /\ Len(t) = Len(s) - 1 /\ dd \in [Node -> Int]
               /\ Elements(t, dd) = CutOut(e, i)
<1> DEFINE t == CutOut(s, i)
           e == Elements(s, d)
           u == CutOut(e, i)
           dd == Zeroed(d, {s[i]})
           len == Len(s)
<1>1. s \in Seq(Node) /\ Distinct(s)
  BY DEF ChainOK
<1>2. /\ e \in Seq(Int) /\ Len(e) = len /\ len \in Nat /\ DOMAIN s = 1..len
      /\ \A k \in 1..len : s[k] \in Node /\ e[k] = d[s[k]]
  BY <1>1, ElementsAre
<1>3. /\ t \in Seq(Node) /\ Len(t) = len - 1 /\ DOMAIN t = 1..len - 1
      /\ \A k \in 1..len - 1 : t[k] = IF k < i THEN s[k] ELSE s[k + 1]
  BY <1>1, CutAt
<1>4. /\ u \in Seq(Int) /\ Len(u) = len - 1
      /\ \A k \in 1..len - 1 : u[k] = IF k < i THEN e[k] ELSE e[k + 1]
  <2> HIDE DEF e, u, len
  <2>1. i \in 1..Len(e)
    BY <1>2 DEF len
  <2>2. /\ u \in Seq(Int) /\ Len(u) = Len(e) - 1
        /\ \A k \in 1..Len(e) - 1 : u[k] = IF k < i THEN e[k] ELSE e[k + 1]
    BY <1>2, <2>1, CutAt DEF u
  <2> QED BY <1>2, <2>2
<1>5. dd \in [Node -> Int] /\ \A m \in Node : m # s[i] => dd[m] = d[m]
  BY DEF Zeroed
<1>6. i \in 1..len /\ i \in Nat
  BY <1>2
<1>7. \A k \in 1..len - 1 : k \in 1..len /\ k + 1 \in 1..len /\ (k < i => k # i) /\ (~(k < i) => k + 1 # i)
  BY <1>2, <1>6
<1>8. \A p, q \in 1..len : s[p] = s[q] => p = q
  BY <1>1, <1>2 DEF Distinct
<1> HIDE DEF t, e, u, dd, len
<1>9. Distinct(t)
  <2> SUFFICES ASSUME NEW j \in 1..len - 1, NEW k \in 1..len - 1, t[j] = t[k] PROVE j = k
    BY <1>3 DEF Distinct
  <2>1. CASE j < i /\ k < i
    BY <1>3, <1>7, <1>8, <2>1
  <2>2. CASE j < i /\ ~(k < i)
    <3>1. j = k + 1
      BY <1>3, <1>7, <1>8, <2>2
    <3> QED BY <1>6, <2>2, <3>1
  <2>3. CASE ~(j < i) /\ k < i
    <3>1. s[j + 1] = s[k]
      BY <1>3, <2>3
    <3>2. j + 1 = k
      BY <1>7, <1>8, <3>1
    <3> QED BY <1>6, <2>3, <3>2
  <2>4. CASE ~(j < i) /\ ~(k < i)
    <3>1. j + 1 = k + 1
      BY <1>3, <1>7, <1>8, <2>4
    <3> QED BY <3>1
  <2> QED BY <2>1, <2>2, <2>3, <2>4
<1>10. Elements(t, dd) = u
  <2>1. /\ Elements(t, dd) \in Seq(Int) /\ Len(Elements(t, dd)) = len - 1
        /\ \A k \in 1..len - 1 : Elements(t, dd)[k] = dd[t[k]]
    BY <1>3, <1>5, ElementsAre
  <2>2. ASSUME NEW k \in 1..len - 1 PROVE dd[t[k]] = u[k]
    <3>1. CASE k < i
      <4>1. s[k] # s[i] /\ s[k] \in Node
        BY <1>2, <1>6, <1>7, <1>8, <3>1
      <4> QED BY <1>2, <1>3, <1>4, <1>5, <1>7, <3>1, <4>1
    <3>2. CASE ~(k < i)
      <4>1. s[k + 1] # s[i] /\ s[k + 1] \in Node
        BY <1>2, <1>6, <1>7, <1>8, <3>2
      <4> QED BY <1>2, <1>3, <1>4, <1>5, <1>7, <3>2, <4>1
    <3> QED BY <3>1, <3>2
  <2> QED BY <1>4, <2>1, <2>2, SeqEqual
<1> QED BY <1>1, <1>3, <1>5, <1>9, <1>10 DEF ChainOK, t, e, u, dd, len

\* An element that changes in place.
LEMMA Altering ==
    ASSUME NEW s, ChainOK(s), NEW d \in [Node -> Int], NEW i \in 1..Len(s), NEW v \in Int
    PROVE  /\ Rewritten(d, s[i], v) \in [Node -> Int]
           /\ Elements(s, Rewritten(d, s[i], v)) = Rewritten(Elements(s, d), i, v)
<1> DEFINE e == Elements(s, d)
           dd == [d EXCEPT ![s[i]] = v]
           u == [e EXCEPT ![i] = v]
<1>1. s \in Seq(Node) /\ Distinct(s)
  BY DEF ChainOK
<1>2. /\ e \in Seq(Int) /\ Len(e) = Len(s) /\ DOMAIN s = 1..Len(s)
      /\ \A k \in 1..Len(s) : s[k] \in Node /\ e[k] = d[s[k]]
  BY <1>1, ElementsAre
<1>3. dd \in [Node -> Int] /\ dd[s[i]] = v /\ \A m \in Node : m # s[i] => dd[m] = d[m]
  BY <1>2
<1>4. u \in Seq(Int) /\ Len(u) = Len(s) /\ \A k \in 1..Len(s) : u[k] = IF k = i THEN v ELSE e[k]
  <2> HIDE DEF e
  <2> QED BY <1>2, ExceptSeq
<1> HIDE DEF dd, u, e
<1>5. /\ Elements(s, dd) \in Seq(Int) /\ Len(Elements(s, dd)) = Len(s)
      /\ \A k \in 1..Len(s) : Elements(s, dd)[k] = dd[s[k]]
  BY <1>1, <1>3, ElementsAre
<1>6. ASSUME NEW k \in 1..Len(s) PROVE dd[s[k]] = u[k]
  BY <1>1, <1>2, <1>3, <1>4 DEF Distinct
<1> QED BY <1>3, <1>4, <1>5, <1>6, SeqEqual DEF Rewritten, dd, u, e

-----------------------------------------------------------------------------
(* _ls_sort.                                                               *)

\* A set of numbers has a least one.
LEMMA LeastOf ==
    ASSUME NEW S, S \subseteq Nat, S # {}
    PROVE  \E least \in S : \A other \in S : least <= other
<1>1. PICK least \in S : \A other \in S : <<other, least>> \notin OpToRel(<, Nat)
  BY NatLessThanWellFounded, WFMin
<1>2. ASSUME NEW other \in S PROVE least <= other
  <2>1. <<other, least>> \notin {pair \in Nat \X Nat : pair[1] < pair[2]}
    BY <1>1 DEF OpToRel
  <2> QED BY <2>1
<1> QED BY <1>2

\* Induction up to a bound, on a set.
LEMMA UpTo ==
    ASSUME NEW n \in Nat, NEW P, 0 \in P, \A k \in 0..(n - 1) : k \in P => k + 1 \in P
    PROVE  \A k \in 0..n : k \in P
<1> DEFINE Bad == {k \in 0..n : k \notin P}
<1> SUFFICES ASSUME Bad # {} PROVE FALSE
  OBVIOUS
<1>1. PICK m \in Bad : \A other \in Bad : m <= other
  <2>1. Bad \subseteq Nat
    OBVIOUS
  <2> HIDE DEF Bad
  <2> QED BY <2>1, LeastOf
<1>2. m \in 1..n
  OBVIOUS
<1>3. m - 1 \notin Bad
  <2>1. ~(m <= m - 1)
    BY <1>2
  <2> HIDE DEF Bad
  <2> QED BY <1>1, <2>1
<1>4. m - 1 \in P /\ m - 1 \in 0..(n - 1) /\ m - 1 + 1 = m
  BY <1>2, <1>3
<1> QED BY <1>4

\* The recursive functions that Merge, Pass and Sorted define, up to their n-th values.
NoneMerged == [i |-> 0, j |-> 0, out |-> <<>>]
AreMerged(f, p, q, n) == f = [k \in 0..n |-> IF k = 0 THEN NoneMerged ELSE MergeStep(p, q, f[k - 1])]
NonePassed == [from |-> 0, out |-> <<>>]
ArePassed(f, s, size, n) == f = [k \in 0..n |-> IF k = 0 THEN NonePassed ELSE PassStep(s, size, f[k - 1])]
Unsorted(s) == [list |-> s, insize |-> 1]
ArePasses(f, s, n) == f = [k \in 0..n |-> IF k = 0 THEN Unsorted(s) ELSE SortStep(f[k - 1])]

\* There is a function of the steps of a merge,
LEMMA MergedExist ==
    ASSUME NEW p, NEW q, NEW n \in Nat
    PROVE  \E f : AreMerged(f, p, q, n)
<1> DEFINE P == {k \in Nat : \E f : AreMerged(f, p, q, k)}
<1>1. 0 \in P
  <2>1. AreMerged([k \in 0..0 |-> NoneMerged], p, q, 0)
    BY DEF AreMerged
  <2> QED BY <2>1
<1>2. ASSUME NEW m \in 0..(n - 1), m \in P PROVE m + 1 \in P
  <2>1. PICK f : AreMerged(f, p, q, m)
    BY <1>2
  <2> DEFINE g == [k \in 0..m + 1 |-> IF k = m + 1 THEN MergeStep(p, q, f[m]) ELSE f[k]]
  <2>2. ASSUME NEW k \in 0..m + 1
        PROVE  g[k] = IF k = 0 THEN NoneMerged ELSE MergeStep(p, q, g[k - 1])
    <3>1. CASE k = m + 1
      <4>1. k # 0 /\ k - 1 = m /\ m \in 0..m + 1 /\ m # m + 1
        BY <3>1
      <4> QED BY <3>1, <4>1
    <3>2. CASE k # m + 1
      <4>1. k \in 0..m /\ (k # 0 => k - 1 \in 0..m + 1 /\ k - 1 # m + 1)
        BY <3>2
      <4>2. g[k] = f[k] /\ (k # 0 => g[k - 1] = f[k - 1])
        BY <3>2, <4>1
      <4> QED BY <2>1, <4>1, <4>2 DEF AreMerged
    <3> QED BY <3>1, <3>2
  <2>3. AreMerged(g, p, q, m + 1)
    BY <2>2 DEF AreMerged
  <2> QED BY <2>3
<1> HIDE DEF P
<1>3. n \in P
  BY <1>1, <1>2, UpTo
<1> QED BY <1>3 DEF P

\* of a pass over the list,
LEMMA PassedExist ==
    ASSUME NEW s, NEW size, NEW n \in Nat
    PROVE  \E f : ArePassed(f, s, size, n)
<1> DEFINE P == {k \in Nat : \E f : ArePassed(f, s, size, k)}
<1>1. 0 \in P
  <2>1. ArePassed([k \in 0..0 |-> NonePassed], s, size, 0)
    BY DEF ArePassed
  <2> QED BY <2>1
<1>2. ASSUME NEW m \in 0..(n - 1), m \in P PROVE m + 1 \in P
  <2>1. PICK f : ArePassed(f, s, size, m)
    BY <1>2
  <2> DEFINE g == [k \in 0..m + 1 |-> IF k = m + 1 THEN PassStep(s, size, f[m]) ELSE f[k]]
  <2>2. ASSUME NEW k \in 0..m + 1
        PROVE  g[k] = IF k = 0 THEN NonePassed ELSE PassStep(s, size, g[k - 1])
    <3>1. CASE k = m + 1
      <4>1. k # 0 /\ k - 1 = m /\ m \in 0..m + 1 /\ m # m + 1
        BY <3>1
      <4> QED BY <3>1, <4>1
    <3>2. CASE k # m + 1
      <4>1. k \in 0..m /\ (k # 0 => k - 1 \in 0..m + 1 /\ k - 1 # m + 1)
        BY <3>2
      <4>2. g[k] = f[k] /\ (k # 0 => g[k - 1] = f[k - 1])
        BY <3>2, <4>1
      <4> QED BY <2>1, <4>1, <4>2 DEF ArePassed
    <3> QED BY <3>1, <3>2
  <2>3. ArePassed(g, s, size, m + 1)
    BY <2>2 DEF ArePassed
  <2> QED BY <2>3
<1> HIDE DEF P
<1>3. n \in P
  BY <1>1, <1>2, UpTo
<1> QED BY <1>3 DEF P

\* and of all passes.
LEMMA PassesExist ==
    ASSUME NEW s, NEW n \in Nat
    PROVE  \E f : ArePasses(f, s, n)
<1> DEFINE P == {k \in Nat : \E f : ArePasses(f, s, k)}
<1>1. 0 \in P
  <2>1. ArePasses([k \in 0..0 |-> Unsorted(s)], s, 0)
    BY DEF ArePasses
  <2> QED BY <2>1
<1>2. ASSUME NEW m \in 0..(n - 1), m \in P PROVE m + 1 \in P
  <2>1. PICK f : ArePasses(f, s, m)
    BY <1>2
  <2> DEFINE g == [k \in 0..m + 1 |-> IF k = m + 1 THEN SortStep(f[m]) ELSE f[k]]
  <2>2. ASSUME NEW k \in 0..m + 1
        PROVE  g[k] = IF k = 0 THEN Unsorted(s) ELSE SortStep(g[k - 1])
    <3>1. CASE k = m + 1
      <4>1. k # 0 /\ k - 1 = m /\ m \in 0..m + 1 /\ m # m + 1
        BY <3>1
      <4> QED BY <3>1, <4>1
    <3>2. CASE k # m + 1
      <4>1. k \in 0..m /\ (k # 0 => k - 1 \in 0..m + 1 /\ k - 1 # m + 1)
        BY <3>2
      <4>2. g[k] = f[k] /\ (k # 0 => g[k - 1] = f[k - 1])
        BY <3>2, <4>1
      <4> QED BY <2>1, <4>1, <4>2 DEF ArePasses
    <3> QED BY <3>1, <3>2
  <2>3. ArePasses(g, s, m + 1)
    BY <2>2 DEF ArePasses
  <2> QED BY <2>3
<1> HIDE DEF P
<1>3. n \in P
  BY <1>1, <1>2, UpTo
<1> QED BY <1>3 DEF P

\* What a merge gives is in its last step;
LEMMA MergeIsLast ==
    ASSUME NEW p, NEW q, Len(p) \in Nat, Len(q) \in Nat
    PROVE  \E f : AreMerged(f, p, q, Len(p) + Len(q)) /\ Merge(p, q) = f[Len(p) + Len(q)].out
<1> DEFINE n == Len(p) + Len(q)
           merged[k \in 0..n] ==
               IF k = 0 THEN [i |-> 0, j |-> 0, out |-> <<>>] ELSE MergeStep(p, q, merged[k - 1])
<1>1. Merge(p, q) = merged[n].out
  BY DEF Merge
<1>2. AreMerged(merged, p, q, n)
  <2>1. PICK f : AreMerged(f, p, q, n)
    BY MergedExist
  <2> QED BY <2>1 DEF AreMerged, NoneMerged
<1> QED BY <1>1, <1>2

\* so it is for a pass,
LEMMA PassIsLast ==
    ASSUME NEW s, NEW size, Len(s) \in Nat
    PROVE  \E f : ArePassed(f, s, size, Len(s)) /\ Pass(s, size) = f[Len(s)].out
<1> DEFINE n == Len(s)
           pass[k \in 0..n] == IF k = 0 THEN [from |-> 0, out |-> <<>>] ELSE PassStep(s, size, pass[k - 1])
<1>1. Pass(s, size) = pass[n].out
  BY DEF Pass
<1>2. ArePassed(pass, s, size, n)
  <2>1. PICK f : ArePassed(f, s, size, n)
    BY PassedExist
  <2> QED BY <2>1 DEF ArePassed, NonePassed
<1> QED BY <1>1, <1>2

\* and for the sort.
LEMMA SortedIsLast ==
    ASSUME NEW s, Len(s) \in Nat
    PROVE  \E f : ArePasses(f, s, Len(s)) /\ Sorted(s) = f[Len(s)].list
<1> DEFINE n == Len(s)
           passes[k \in 0..n] == IF k = 0 THEN [list |-> s, insize |-> 1] ELSE SortStep(passes[k - 1])
<1>1. Sorted(s) = passes[n].list
  BY DEF Sorted
<1>2. ArePasses(passes, s, n)
  <2>1. PICK f : ArePasses(f, s, n)
    BY PassesExist
  <2> QED BY <2>1 DEF ArePasses, Unsorted
<1> QED BY <1>1, <1>2

\* Of two elements in order the left one is not above the right one.
InOrder(s) == \A k \in 1..(Len(s) - 1) : ~Above(data[s[k]], data[s[k + 1]])
FirstOf(s, n) == {s[k] : k \in 1..n}

\* i elements of p and j of q are merged, and what comes next is not above the last.
Merging(p, q, i, j, out) ==
    /\ i \in 0..Len(p) /\ j \in 0..Len(q)
    /\ out \in Seq(Node) /\ Len(out) = i + j
    /\ Chain(out) = FirstOf(p, i) \cup FirstOf(q, j)
    /\ InOrder(out)
    /\ i + j > 0 /\ i < Len(p) => ~Above(data[out[i + j]], data[p[i + 1]])
    /\ i + j > 0 /\ j < Len(q) => ~Above(data[out[i + j]], data[q[j + 1]])
MergedTo(p, q, m, k) == m.i + m.j = k /\ Merging(p, q, m.i, m.j, m.out)

\* Of two elements at most one is above the other, whatever their signs.
LEMMA AboveOneWay ==
    ASSUME NEW a \in Int, NEW b \in Int, Above(a, b)
    PROVE  ~Above(b, a)
BY DEF Above

\* A node more in the output.
LEMMA Appending ==
    ASSUME NEW s \in Seq(Node), NEW n \in Node, InOrder(s),
           Len(s) > 0 => ~Above(data[s[Len(s)]], data[n])
    PROVE  /\ Append(s, n) \in Seq(Node) /\ Len(Append(s, n)) = Len(s) + 1
           /\ Append(s, n)[Len(s) + 1] = n
           /\ Chain(Append(s, n)) = Chain(s) \cup {n}
           /\ InOrder(Append(s, n))
<1> DEFINE t == Append(s, n)
           len == Len(s)
<1>1. len \in Nat /\ DOMAIN s = 1..len /\ \A k \in 1..len : s[k] \in Node
  BY LenProperties, ElementOfSeq
<1>2. /\ t \in Seq(Node) /\ Len(t) = len + 1 /\ DOMAIN t = 1..len + 1
      /\ t[len + 1] = n /\ \A k \in 1..len : t[k] = s[k]
  BY <1>1
<1> HIDE DEF t
<1>3. \A k \in 1..len + 1 : k \in 1..len \/ k = len + 1
  BY <1>1
<1>4. len + 1 \in 1..len + 1 /\ \A k \in 1..len : k \in 1..len + 1
  BY <1>1
<1>5. Chain(t) = Chain(s) \cup {n}
  BY <1>1, <1>2, <1>3, <1>4 DEF Chain
<1>6. ASSUME NEW k \in 1..len PROVE ~Above(data[t[k]], data[t[k + 1]])
  <2>1. CASE k = len
    BY <1>1, <1>2, <2>1
  <2>2. CASE k # len
    <3>1. k \in 1..len - 1 /\ k + 1 \in 1..len
      <4> HIDE DEF len
      <4> QED BY <1>1, <2>2
    <3> QED BY <1>2, <3>1 DEF InOrder
  <2> QED BY <2>1, <2>2
<1>7. InOrder(t)
  <2>1. len + 1 - 1 = len
    BY <1>1
  <2> QED BY <1>2, <1>6, <2>1 DEF InOrder
<1> QED BY <1>2, <1>5, <1>7 DEF t

\* A node more taken from a run.
LEMMA FirstMore ==
    ASSUME NEW s, NEW n \in Nat
    PROVE  FirstOf(s, n + 1) = FirstOf(s, n) \cup {s[n + 1]}
<1>1. \A k \in 1..n + 1 : k \in 1..n \/ k = n + 1
  OBVIOUS
<1>2. n + 1 \in 1..n + 1 /\ \A k \in 1..n : k \in 1..n + 1
  OBVIOUS
<1> QED BY <1>1, <1>2 DEF FirstOf

\* A step that takes the next node of p.
LEMMA TakeOne ==
    ASSUME NEW p \in Seq(Node), InOrder(p), NEW q \in Seq(Node), NEW i, NEW j, NEW out,
           Merging(p, q, i, j, out), i < Len(p),
           j < Len(q) => ~Above(data[p[i + 1]], data[q[j + 1]])
    PROVE  Merging(p, q, i + 1, j, Append(out, p[i + 1]))
<1> DEFINE a == Len(p)
           b == Len(q)
           n == p[i + 1]
           o == Append(out, n)
<1>1. /\ a \in Nat /\ b \in Nat /\ i \in 0..a /\ j \in 0..b /\ i < a
      /\ out \in Seq(Node) /\ Len(out) = i + j /\ InOrder(out)
      /\ Chain(out) = FirstOf(p, i) \cup FirstOf(q, j)
      /\ i + j > 0 => ~Above(data[out[i + j]], data[n])
  BY LenProperties DEF Merging
<1>2. n \in Node
  <2>1. i + 1 \in 1..a
    BY <1>1
  <2> QED BY <2>1, ElementOfSeq
<1> HIDE DEF a, b, n, o
<1>3. /\ o \in Seq(Node) /\ Len(o) = i + j + 1 /\ o[i + j + 1] = n
      /\ Chain(o) = Chain(out) \cup {n} /\ InOrder(o)
  BY <1>1, <1>2, Appending DEF o
<1>4. i \in Nat /\ j \in Nat /\ i + 1 \in 0..a /\ i + j + 1 = (i + 1) + j
  BY <1>1
<1>5. Chain(o) = FirstOf(p, i + 1) \cup FirstOf(q, j)
  BY <1>1, <1>3, <1>4, FirstMore DEF n
<1>6. i + 1 < a => ~Above(data[n], data[p[(i + 1) + 1]])
  <2>1. i + 1 < a => i + 1 \in 1..a - 1
    BY <1>1
  <2> QED BY <2>1 DEF InOrder, a, n
<1>7. j < b => ~Above(data[n], data[q[j + 1]])
  BY DEF n, b
<1> QED BY <1>1, <1>3, <1>4, <1>5, <1>6, <1>7 DEF Merging, a, b, o, n

\* The two runs of a merge may change places.
LEMMA OtherWay ==
    ASSUME NEW p \in Seq(Node), NEW q \in Seq(Node), NEW i, NEW j, NEW out, Merging(p, q, i, j, out)
    PROVE  Merging(q, p, j, i, out)
<1>1. Len(p) \in Nat /\ Len(q) \in Nat
  BY LenProperties
<1>2. i + j = j + i
  BY <1>1 DEF Merging
<1> QED BY <1>2 DEF Merging

\* Each step of a merge takes one node more, and keeps the order.
LEMMA MergeOne ==
    ASSUME data \in [Node -> Int], NEW p \in Seq(Node), NEW q \in Seq(Node), InOrder(p), InOrder(q),
           NEW m, NEW k \in 0..(Len(p) + Len(q) - 1), MergedTo(p, q, m, k)
    PROVE  MergedTo(p, q, MergeStep(p, q, m), k + 1)
<1> DEFINE i == m.i
           j == m.j
           Left == i < Len(p) /\ (j = Len(q) \/ ~Above(data[p[i + 1]], data[q[j + 1]]))
<1>1. Len(p) \in Nat /\ Len(q) \in Nat
  BY LenProperties
<1>2. i \in 0..Len(p) /\ j \in 0..Len(q) /\ i + j = k /\ Merging(p, q, i, j, m.out)
  BY DEF MergedTo, Merging
<1>3. MergeStep(p, q, m) = IF Left THEN [i |-> i + 1, j |-> j, out |-> Append(m.out, p[i + 1])]
                           ELSE [i |-> i, j |-> j + 1, out |-> Append(m.out, q[j + 1])]
  BY DEF MergeStep
<1> HIDE DEF i, j
<1>4. CASE Left
  <2>1. j < Len(q) => ~Above(data[p[i + 1]], data[q[j + 1]])
    BY <1>1, <1>2, <1>4
  <2>2. Merging(p, q, i + 1, j, Append(m.out, p[i + 1]))
    BY <1>2, <1>4, <2>1, TakeOne
  <2>3. (i + 1) + j = k + 1
    BY <1>1, <1>2
  <2> QED BY <1>3, <1>4, <2>2, <2>3 DEF MergedTo
<1>5. CASE ~Left
  <2>1. i < Len(p) \/ j < Len(q)
    BY <1>1, <1>2
  <2>2. j < Len(q)
    BY <1>1, <1>2, <1>5, <2>1
  <2>3. i < Len(p) => ~Above(data[q[j + 1]], data[p[i + 1]])
    <3>1. i < Len(p) => i + 1 \in 1..Len(p) /\ j + 1 \in 1..Len(q)
      BY <1>1, <1>2, <2>2
    <3>2. i < Len(p) => data[p[i + 1]] \in Int /\ data[q[j + 1]] \in Int
      BY <3>1, ElementOfSeq
    <3>3. i < Len(p) => Above(data[p[i + 1]], data[q[j + 1]])
      BY <1>5
    <3> QED BY <3>2, <3>3, AboveOneWay
  <2>4. Merging(q, p, j, i, m.out)
    BY <1>2, OtherWay
  <2>5. Merging(q, p, j + 1, i, Append(m.out, q[j + 1]))
    BY <2>2, <2>3, <2>4, TakeOne
  <2>6. Merging(p, q, i, j + 1, Append(m.out, q[j + 1]))
    BY <2>5, OtherWay
  <2>7. i + (j + 1) = k + 1
    BY <1>1, <1>2
  <2> QED BY <1>3, <1>5, <2>6, <2>7 DEF MergedTo
<1> QED BY <1>4, <1>5

\* Two chains in order become one.
LEMMA MergeIs ==
    ASSUME data \in [Node -> Int], NEW p \in Seq(Node), NEW q \in Seq(Node), InOrder(p), InOrder(q)
    PROVE  /\ Merge(p, q) \in Seq(Node) /\ Len(Merge(p, q)) = Len(p) + Len(q)
           /\ Chain(Merge(p, q)) = Chain(p) \cup Chain(q) /\ InOrder(Merge(p, q))
<1> DEFINE n == Len(p) + Len(q)
<1>1. Len(p) \in Nat /\ Len(q) \in Nat /\ DOMAIN p = 1..Len(p) /\ DOMAIN q = 1..Len(q)
  BY LenProperties
<1>2. PICK f : AreMerged(f, p, q, n) /\ Merge(p, q) = f[n].out
  BY <1>1, MergeIsLast
<1> DEFINE P == {k \in 0..n : MergedTo(p, q, f[k], k)}
<1>3. 0 \in P
  <2>1. f[0] = NoneMerged
    BY <1>1, <1>2 DEF AreMerged
  <2>2. <<>> \in Seq(Node) /\ Len(<<>>) = 0 /\ Chain(<<>>) = {} /\ InOrder(<<>>)
    BY DEF Chain, InOrder
  <2>3. FirstOf(p, 0) = {} /\ FirstOf(q, 0) = {}
    BY DEF FirstOf
  <2>4. /\ f[0].i = 0 /\ f[0].j = 0 /\ f[0].out = <<>>
        /\ 0 + 0 = 0 /\ 0 \in 0..Len(p) /\ 0 \in 0..Len(q) /\ ~(0 > 0) /\ 0 \in 0..n
    BY <1>1, <2>1 DEF NoneMerged
  <2>5. Merging(p, q, 0, 0, <<>>)
    BY <2>2, <2>3, <2>4 DEF Merging
  <2>6. MergedTo(p, q, f[0], 0)
    BY <2>4, <2>5 DEF MergedTo
  <2> QED BY <2>4, <2>6
<1>4. ASSUME NEW k \in 0..(n - 1), k \in P PROVE k + 1 \in P
  <2>1. k + 1 \in 0..n /\ k + 1 # 0 /\ (k + 1) - 1 = k
    BY <1>1
  <2>2. f[k + 1] = MergeStep(p, q, f[k])
    BY <1>2, <2>1 DEF AreMerged
  <2>3. MergedTo(p, q, f[k], k)
    BY <1>4
  <2>4. MergedTo(p, q, MergeStep(p, q, f[k]), k + 1)
    BY <2>3, MergeOne
  <2> QED BY <2>1, <2>2, <2>4
<1>5. MergedTo(p, q, f[n], n)
  <2>1. n \in Nat /\ n \in 0..n
    BY <1>1
  <2> HIDE DEF P, n
  <2>2. n \in P
    BY <1>3, <1>4, <2>1, UpTo
  <2> QED BY <2>2 DEF P
<1>6. f[n].i = Len(p) /\ f[n].j = Len(q) /\ Merging(p, q, Len(p), Len(q), f[n].out)
  <2>1. f[n].i \in 0..Len(p) /\ f[n].j \in 0..Len(q) /\ f[n].i + f[n].j = n
    BY <1>5 DEF MergedTo, Merging
  <2>2. f[n].i = Len(p) /\ f[n].j = Len(q)
    BY <1>1, <2>1
  <2> QED BY <1>5, <2>2 DEF MergedTo
<1>7. FirstOf(p, Len(p)) = Chain(p) /\ FirstOf(q, Len(q)) = Chain(q)
  BY <1>1 DEF FirstOf, Chain
<1> QED BY <1>2, <1>6, <1>7 DEF Merging

Multiples(size) == {size * k : k \in Nat}

\* No multiple of the length of a run is within a run.
LEMMA MultiplesAre ==
    ASSUME NEW size \in Nat \ {0}
    PROVE  /\ Multiples(size) \subseteq Nat /\ 0 \in Multiples(size)
           /\ \A n \in Multiples(2 * size) : /\ n \in Multiples(size) /\ n + size \in Multiples(size)
                                             /\ n + 2 * size \in Multiples(2 * size)
           /\ \A n \in Multiples(size) : \A k \in 1..(size - 1) : n + k \notin Multiples(size)
<1>1. \A k \in Nat : size * k \in Nat
  OBVIOUS
<1>2. Multiples(size) \subseteq Nat
  BY <1>1 DEF Multiples
<1>3. 0 \in Multiples(size)
  <2>1. size * 0 = 0
    OBVIOUS
  <2> QED BY <2>1 DEF Multiples
<1>4. ASSUME NEW n \in Multiples(2 * size)
      PROVE  /\ n \in Multiples(size) /\ n + size \in Multiples(size)
             /\ n + 2 * size \in Multiples(2 * size)
  <2>1. PICK k \in Nat : n = (2 * size) * k
    BY DEF Multiples
  <2>2. n = size * (2 * k) /\ 2 * k \in Nat
    BY <2>1
  <2>3. n + size = size * (2 * k + 1) /\ 2 * k + 1 \in Nat
    BY <2>1
  <2>4. n + 2 * size = (2 * size) * (k + 1) /\ k + 1 \in Nat
    BY <2>1
  <2> QED BY <2>2, <2>3, <2>4 DEF Multiples
<1>5. ASSUME NEW n \in Multiples(size), NEW k \in 1..(size - 1), n + k \in Multiples(size) PROVE FALSE
  <2>1. PICK a \in Nat : n = size * a
    BY DEF Multiples
  <2>2. PICK b \in Nat : n + k = size * b
    BY <1>5 DEF Multiples
  <2>3. CASE b <= a
    <3>1. size * b <= size * a
      BY <2>3
    <3> QED BY <2>1, <2>2, <3>1
  <2>4. CASE ~(b <= a)
    <3>1. b >= a + 1 /\ a + 1 \in Nat
      BY <2>4
    <3>2. size * b >= size * (a + 1)
      BY <3>1
    <3>3. size * (a + 1) = size * a + size
      OBVIOUS
    <3>4. size * a \in Nat
      OBVIOUS
    <3> QED BY <2>1, <2>2, <3>2, <3>3, <3>4
  <2> QED BY <2>3, <2>4
<1> QED BY <1>2, <1>3, <1>4, <1>5

\* The chain consists of runs in order; a pass merges them in pairs.
InRuns(s, size) == \A k \in 1..(Len(s) - 1) : k \notin Multiples(size) => ~Above(data[s[k]], data[s[k + 1]])
Upto(s, n) == IF n < Len(s) THEN n ELSE Len(s)
Between(s, a, b) == {s[k] : k \in a + 1..b}

\* A run is a part of the list,
LEMMA RunIs ==
    ASSUME NEW s \in Seq(Node), NEW from \in Nat, NEW size \in Nat
    PROVE  LET r == Run(s, from, size)
           IN  /\ r \in Seq(Node) /\ Len(r) = Upto(s, from + size) - Upto(s, from)
               /\ \A k \in 1..Len(r) : r[k] = s[Upto(s, from) + k]
               /\ Chain(r) = Between(s, Upto(s, from), Upto(s, from + size))
<1> DEFINE n == Len(s)
           a == Upto(s, from)
           b == Upto(s, from + size)
           r == Run(s, from, size)
<1>1. n \in Nat /\ \A k \in 1..n : s[k] \in Node
  BY LenProperties, ElementOfSeq
<1>2. a \in Nat /\ b \in Nat /\ a <= b /\ b <= n /\ b <= from + size
      /\ (from < n => a = from) /\ (~(from < n) => a = n /\ b = n)
  <2> HIDE DEF n
  <2>1. /\ a = IF from < n THEN from ELSE n
        /\ b = IF from + size < n THEN from + size ELSE n
    BY DEF Upto, n
  <2> QED BY <1>1, <2>1
<1>3. r = SubSeq(s, from + 1, b)
  BY DEF Run, Upto
<1> HIDE DEF n, a, b, r
<1>4. r \in Seq(Node) /\ Len(r) = b - a /\ \A k \in 1..b - a : r[k] = s[a + k]
  <2>1. from + 1 \in Int /\ b \in Int /\ \A k \in from + 1..b : s[k] \in Node
    BY <1>1, <1>2
  <2>2. /\ r \in Seq(Node) /\ Len(r) = (IF from + 1 <= b THEN b - (from + 1) + 1 ELSE 0)
        /\ \A k \in 1..b - (from + 1) + 1 : r[k] = s[from + 1 + k - 1]
    BY <1>3, <2>1, SubSeqProperties
  <2>3. CASE from < n
    <3>1. a = from /\ (IF from + 1 <= b THEN b - (from + 1) + 1 ELSE 0) = b - a /\ b - (from + 1) + 1 = b - a
      BY <1>2, <2>3
    <3>2. \A k \in Int : from + 1 + k - 1 = a + k
      BY <3>1
    <3> QED BY <2>2, <3>1, <3>2
  <2>4. CASE ~(from < n)
    <3>1. ~(from + 1 <= b) /\ b - a = 0
      BY <1>1, <1>2, <2>4
    <3> QED BY <2>2, <3>1
  <2> QED BY <2>3, <2>4
<1>5. Chain(r) = Between(s, a, b)
  <2>1. DOMAIN r = 1..b - a
    BY <1>4, LenProperties
  <2>2. \A k \in 1..b - a : a + k \in a + 1..b
    BY <1>2
  <2>3. \A k \in a + 1..b : k - a \in 1..b - a /\ a + (k - a) = k
    BY <1>2
  <2>4. Chain(r) \subseteq Between(s, a, b)
    BY <1>4, <2>1, <2>2 DEF Chain, Between
  <2>5. ASSUME NEW k \in a + 1..b PROVE s[k] \in Chain(r)
    <3>1. r[k - a] = s[k] /\ k - a \in DOMAIN r
      BY <1>4, <2>1, <2>3
    <3> QED BY <3>1 DEF Chain
  <2> QED BY <2>4, <2>5 DEF Between
<1> QED BY <1>4, <1>5 DEF r, a, b

\* and in order.
LEMMA RunInOrder ==
    ASSUME NEW s \in Seq(Node), NEW size \in Nat \ {0}, NEW from \in Multiples(size), InRuns(s, size)
    PROVE  InOrder(Run(s, from, size))
<1> DEFINE r == Run(s, from, size)
           n == Len(s)
           a == Upto(s, from)
           b == Upto(s, from + size)
<1>1. from \in Nat /\ n \in Nat /\ \A k \in 1..(size - 1) : from + k \notin Multiples(size)
  BY MultiplesAre, LenProperties
<1>2. Len(r) = b - a /\ \A k \in 1..Len(r) : r[k] = s[a + k]
  BY <1>1, RunIs
<1>3. a \in Nat /\ b \in Nat /\ b <= n /\ b - a <= size /\ (a # from => b = a)
  <2> HIDE DEF n
  <2>1. /\ a = IF from < n THEN from ELSE n
        /\ b = IF from + size < n THEN from + size ELSE n
    BY DEF Upto, n
  <2> QED BY <1>1, <2>1
<1> HIDE DEF r, n, a, b
<1>4. ASSUME NEW k \in 1..Len(r) - 1 PROVE ~Above(data[r[k]], data[r[k + 1]])
  <2>1. k \in 1..b - a /\ k + 1 \in 1..b - a /\ a = from /\ k \in 1..size - 1
    BY <1>1, <1>2, <1>3
  <2>2. a + k \in 1..n - 1 /\ a + (k + 1) = a + k + 1
    BY <1>1, <1>3, <2>1
  <2>3. r[k] = s[a + k] /\ r[k + 1] = s[a + k + 1]
    BY <1>2, <2>1, <2>2
  <2>4. a + k \notin Multiples(size)
    BY <1>1, <2>1
  <2> QED BY <2>2, <2>3, <2>4 DEF InRuns, n
<1> QED BY <1>4 DEF InOrder, r

\* k steps of a pass.
PassedTo(s, size, m, k) ==
    /\ m.from \in Multiples(2 * size) /\ m.from >= k
    /\ m.out \in Seq(Node) /\ Len(m.out) = Upto(s, m.from)
    /\ Chain(m.out) = FirstOf(s, Upto(s, m.from))
    /\ InRuns(m.out, 2 * size)

\* A step of a pass makes one run of two.
LEMMA PassOne ==
    ASSUME data \in [Node -> Int], NEW s \in Seq(Node), NEW size \in Nat \ {0}, InRuns(s, size),
           NEW m, NEW k \in Nat, PassedTo(s, size, m, k)
    PROVE  PassedTo(s, size, PassStep(s, size, m), k + 1)
<1> DEFINE from == m.from
           p == Run(s, from, size)
           q == Run(s, from + size, size)
           w == 2 * size
           n == Len(s)
           a == Upto(s, from)
           b == Upto(s, from + w)
           u == Merge(p, q)
           o == m.out
           t == o \o u
<1>1. /\ w \in Nat \ {0} /\ from \in Multiples(w) /\ from \in Nat /\ from >= k /\ n \in Nat
      /\ from \in Multiples(size) /\ from + size \in Multiples(size) /\ from + w \in Multiples(w)
  <2>1. w \in Nat \ {0} /\ from \in Multiples(w) /\ from >= k /\ n \in Nat
    BY LenProperties DEF PassedTo
  <2> HIDE DEF from
  <2>2. from \in Nat
    <3> HIDE DEF w
    <3> QED BY <2>1, MultiplesAre
  <2> QED BY <2>1, <2>2, MultiplesAre
<1>2. PassStep(s, size, m) = [from |-> from + w, out |-> t]
  BY DEF PassStep
<1>3. o \in Seq(Node) /\ Len(o) = a /\ Chain(o) = FirstOf(s, a) /\ InRuns(o, w)
  BY DEF PassedTo
<1> HIDE DEF from, o
<1> DEFINE c == Upto(s, from + size)
<1>4. /\ a \in Nat /\ b \in Nat /\ c \in Nat /\ a <= c /\ c <= b /\ b <= n
      /\ a # from => a = n
      /\ (from + size) + size = from + w
  <2> HIDE DEF n
  <2>1. /\ a = IF from < n THEN from ELSE n
        /\ b = IF from + w < n THEN from + w ELSE n
        /\ c = IF from + size < n THEN from + size ELSE n
    BY DEF Upto, n
  <2> QED BY <1>1, <2>1
<1>5. /\ p \in Seq(Node) /\ Len(p) = c - a /\ Chain(p) = Between(s, a, c) /\ InOrder(p)
  BY <1>1, RunIs, RunInOrder
<1>6. /\ q \in Seq(Node) /\ Len(q) = b - c /\ Chain(q) = Between(s, c, b) /\ InOrder(q)
  <2> DEFINE f == from + size
  <2>1. f \in Nat /\ f \in Multiples(size) /\ b = Upto(s, f + size)
    BY <1>1, <1>4
  <2> HIDE DEF b, f
  <2> QED BY <2>1, RunIs, RunInOrder DEF f
<1> HIDE DEF p, q, a, b, c, n, w
<1>7. u \in Seq(Node) /\ Len(u) = b - a /\ Chain(u) = Between(s, a, c) \cup Between(s, c, b) /\ InOrder(u)
  <2>1. /\ u \in Seq(Node) /\ Len(u) = Len(p) + Len(q) /\ Chain(u) = Chain(p) \cup Chain(q) /\ InOrder(u)
    BY <1>5, <1>6, MergeIs
  <2>2. (c - a) + (b - c) = b - a
    BY <1>4
  <2> QED BY <1>5, <1>6, <2>1, <2>2
<1> HIDE DEF u
<1>8. t \in Seq(Node) /\ Len(t) = b /\ \A i \in 1..b : t[i] = IF i <= a THEN o[i] ELSE u[i - a]
  <2>1. /\ t \in Seq(Node) /\ Len(t) = Len(o) + Len(u)
        /\ \A i \in 1..Len(o) + Len(u) : t[i] = IF i <= Len(o) THEN o[i] ELSE u[i - Len(o)]
    BY <1>3, <1>7, ConcatProperties
  <2>2. Len(o) + Len(u) = b
    BY <1>3, <1>4, <1>7
  <2> QED BY <1>3, <2>1, <2>2
<1> HIDE DEF t
<1>9. DOMAIN t = 1..b /\ DOMAIN o = 1..a /\ DOMAIN u = 1..b - a
  BY <1>3, <1>7, <1>8, LenProperties
<1>10. Chain(t) = FirstOf(s, b)
  <2>1. \A i \in 1..b : /\ i <= a => i \in 1..a
                        /\ ~(i <= a) => i - a \in 1..b - a
                        /\ i \in 1..a \/ i \in a + 1..c \/ i \in c + 1..b
    BY <1>4
  <2>2. /\ \A i \in 1..a : i \in 1..b /\ i <= a
        /\ \A i \in 1..b - a : a + i \in 1..b /\ ~(a + i <= a) /\ (a + i) - a = i
    BY <1>4
  <2>3. Chain(t) = Chain(o) \cup Chain(u)
    <3>1. ASSUME NEW i \in 1..b PROVE t[i] \in Chain(o) \cup Chain(u)
      BY <1>8, <1>9, <2>1 DEF Chain
    <3>2. ASSUME NEW i \in 1..a PROVE o[i] \in Chain(t)
      <4>1. i \in 1..b /\ t[i] = o[i]
        BY <1>8, <2>2
      <4> QED BY <1>9, <4>1 DEF Chain
    <3>3. ASSUME NEW i \in 1..b - a PROVE u[i] \in Chain(t)
      <4>1. a + i \in 1..b /\ t[a + i] = u[i]
        BY <1>8, <2>2
      <4> QED BY <1>9, <4>1 DEF Chain
    <3> QED BY <1>9, <3>1, <3>2, <3>3 DEF Chain
  <2>4. FirstOf(s, b) = FirstOf(s, a) \cup Between(s, a, c) \cup Between(s, c, b)
    <3>1. /\ \A i \in a + 1..c : i \in 1..b
          /\ \A i \in c + 1..b : i \in 1..b
      BY <1>4
    <3> QED BY <2>1, <2>2, <3>1 DEF FirstOf, Between
  <2> QED BY <1>3, <1>7, <2>3, <2>4
<1>11. ASSUME NEW i \in 1..b - 1, i \notin Multiples(w) PROVE ~Above(data[t[i]], data[t[i + 1]])
  <2>1. i \in 1..b /\ i + 1 \in 1..b
    BY <1>4
  <2>2. CASE i < a
    <3>1. i <= a /\ i + 1 <= a /\ i \in 1..a - 1
      BY <1>4, <2>2
    <3>2. t[i] = o[i] /\ t[i + 1] = o[i + 1]
      BY <1>8, <2>1, <3>1
    <3> QED BY <1>3, <1>11, <3>1, <3>2 DEF InRuns
  <2>3. CASE i = a
    <3>1. a = n
      BY <1>1, <1>4, <1>11, <2>3
    <3> QED BY <1>4, <2>3, <3>1
  <2>4. CASE i > a
    <3>1. ~(i <= a) /\ ~(i + 1 <= a) /\ (i + 1) - a = (i - a) + 1 /\ i - a \in 1..(b - a) - 1
      BY <1>4, <2>4
    <3>2. t[i] = u[i - a] /\ t[i + 1] = u[(i - a) + 1]
      BY <1>8, <2>1, <3>1
    <3> QED BY <1>7, <3>1, <3>2 DEF InOrder
  <2> QED BY <1>4, <2>2, <2>3, <2>4
<1>12. InRuns(t, w)
  BY <1>8, <1>11 DEF InRuns
<1>13. from + w >= k + 1
  BY <1>1
<1>14. /\ PassStep(s, size, m).from = from + w /\ PassStep(s, size, m).out = t
       /\ w = 2 * size /\ b = Upto(s, from + w)
  BY <1>2 DEF w, b
<1> QED BY <1>1, <1>8, <1>10, <1>12, <1>13, <1>14 DEF PassedTo

\* A pass doubles the length of the runs that are in order.
LEMMA PassIs ==
    ASSUME data \in [Node -> Int], NEW s \in Seq(Node), NEW size \in Nat \ {0}, InRuns(s, size)
    PROVE  LET t == Pass(s, size)
           IN  t \in Seq(Node) /\ Len(t) = Len(s) /\ Chain(t) = Chain(s) /\ InRuns(t, 2 * size)
<1> DEFINE n == Len(s)
<1>1. n \in Nat /\ DOMAIN s = 1..n
  BY LenProperties
<1>2. PICK f : ArePassed(f, s, size, n) /\ Pass(s, size) = f[n].out
  BY <1>1, PassIsLast
<1> DEFINE P == {k \in 0..n : PassedTo(s, size, f[k], k)}
<1>3. 0 \in P
  <2>1. f[0].from = 0 /\ f[0].out = <<>> /\ 0 \in 0..n /\ 0 >= 0
    BY <1>1, <1>2 DEF ArePassed, NonePassed
  <2>2. <<>> \in Seq(Node) /\ Len(<<>>) = 0 /\ Chain(<<>>) = {} /\ InRuns(<<>>, 2 * size)
    BY DEF Chain, InRuns
  <2>3. Upto(s, 0) = 0 /\ FirstOf(s, 0) = {}
    BY <1>1 DEF Upto, FirstOf
  <2>4. 0 \in Multiples(2 * size)
    <3> DEFINE w == 2 * size
    <3>1. w \in Nat \ {0}
      OBVIOUS
    <3> HIDE DEF w
    <3>2. 0 \in Multiples(w)
      BY <3>1, MultiplesAre
    <3> QED BY <3>2 DEF w
  <2>5. PassedTo(s, size, f[0], 0)
    BY <2>1, <2>2, <2>3, <2>4 DEF PassedTo
  <2> QED BY <2>1, <2>5
<1>4. ASSUME NEW k \in 0..(n - 1), k \in P PROVE k + 1 \in P
  <2>1. k \in Nat /\ k + 1 \in 0..n /\ k + 1 # 0 /\ (k + 1) - 1 = k
    BY <1>1
  <2>2. f[k + 1] = PassStep(s, size, f[k])
    BY <1>2, <2>1 DEF ArePassed
  <2>3. PassedTo(s, size, PassStep(s, size, f[k]), k + 1)
    BY <1>4, <2>1, PassOne
  <2> QED BY <2>1, <2>2, <2>3
<1>5. PassedTo(s, size, f[n], n)
  <2>1. n \in 0..n
    BY <1>1
  <2> HIDE DEF P, n
  <2>2. n \in P
    BY <1>1, <1>3, <1>4, <2>1, UpTo
  <2> QED BY <2>2 DEF P
<1>6. Upto(s, f[n].from) = n
  <2>1. f[n].from \in Nat /\ f[n].from >= n
    <3> DEFINE w == 2 * size
    <3>1. w \in Nat \ {0} /\ f[n].from \in Multiples(w) /\ f[n].from >= n
      BY <1>5 DEF PassedTo
    <3> HIDE DEF w
    <3> QED BY <3>1, MultiplesAre
  <2>2. ~(f[n].from < n)
    BY <1>1, <2>1
  <2> QED BY <2>2 DEF Upto
<1>7. FirstOf(s, n) = Chain(s)
  BY <1>1 DEF FirstOf, Chain
<1> QED BY <1>2, <1>5, <1>6, <1>7 DEF PassedTo

\* k passes are made.
SortedTo(s, m, k) ==
    /\ m.list \in Seq(Node) /\ Len(m.list) = Len(s) /\ Chain(m.list) = Chain(s)
    /\ m.insize \in Nat /\ m.insize > k /\ InRuns(m.list, m.insize)

\* After k passes the runs are longer than k.
LEMMA SortOne ==
    ASSUME data \in [Node -> Int], NEW s, NEW m, NEW k \in Nat, SortedTo(s, m, k)
    PROVE  SortedTo(s, SortStep(m), k + 1)
<1>1. /\ m.list \in Seq(Node) /\ Len(m.list) = Len(s) /\ Chain(m.list) = Chain(s)
      /\ m.insize \in Nat \ {0} /\ m.insize > k /\ InRuns(m.list, m.insize)
  BY DEF SortedTo
<1>2. /\ Pass(m.list, m.insize) \in Seq(Node) /\ Len(Pass(m.list, m.insize)) = Len(m.list)
      /\ Chain(Pass(m.list, m.insize)) = Chain(m.list)
      /\ InRuns(Pass(m.list, m.insize), 2 * m.insize)
  BY <1>1, PassIs
<1>3. 2 * m.insize \in Nat /\ 2 * m.insize > k + 1
  BY <1>1
<1>4. SortStep(m).list = Pass(m.list, m.insize) /\ SortStep(m).insize = 2 * m.insize
  BY DEF SortStep
<1> QED BY <1>1, <1>2, <1>3, <1>4 DEF SortedTo

\* After as many passes as there are nodes, the list is one run.
LEMMA SortedIs ==
    ASSUME data \in [Node -> Int], NEW s \in Seq(Node)
    PROVE  /\ Sorted(s) \in Seq(Node) /\ Len(Sorted(s)) = Len(s) /\ Chain(Sorted(s)) = Chain(s)
           /\ InOrder(Sorted(s))
<1> DEFINE n == Len(s)
<1>1. n \in Nat
  BY LenProperties
<1>2. PICK f : ArePasses(f, s, n) /\ Sorted(s) = f[n].list
  BY <1>1, SortedIsLast
<1> DEFINE P == {k \in 0..n : SortedTo(s, f[k], k)}
<1>3. 0 \in P
  <2>1. f[0].list = s /\ f[0].insize = 1 /\ 0 \in 0..n
    BY <1>1, <1>2 DEF ArePasses, Unsorted
  <2>2. InRuns(s, 1)
    <3>1. \A k \in Nat : 1 * k = k
      OBVIOUS
    <3>2. \A k \in 1..Len(s) - 1 : k \in Nat
      BY <1>1
    <3> QED BY <3>1, <3>2 DEF InRuns, Multiples
  <2>3. SortedTo(s, f[0], 0)
    BY <2>1, <2>2 DEF SortedTo
  <2> QED BY <2>1, <2>3
<1>4. ASSUME NEW k \in 0..(n - 1), k \in P PROVE k + 1 \in P
  <2>1. k \in Nat /\ k + 1 \in 0..n /\ k + 1 # 0 /\ (k + 1) - 1 = k
    BY <1>1
  <2>2. f[k + 1] = SortStep(f[k])
    BY <1>2, <2>1 DEF ArePasses
  <2>3. SortedTo(s, SortStep(f[k]), k + 1)
    BY <1>4, <2>1, SortOne
  <2> QED BY <2>1, <2>2, <2>3
<1>5. SortedTo(s, f[n], n)
  <2>1. n \in 0..n
    BY <1>1
  <2> HIDE DEF P, n
  <2>2. n \in P
    BY <1>1, <1>3, <1>4, <2>1, UpTo
  <2> QED BY <2>2 DEF P
<1>6. InOrder(f[n].list)
  <2> DEFINE size == f[n].insize
  <2>1. size \in Nat \ {0} /\ size > n /\ InRuns(f[n].list, size) /\ Len(f[n].list) = n
    BY <1>1, <1>5 DEF SortedTo
  <2> HIDE DEF size, n
  <2>2. ASSUME NEW k \in 1..n - 1 PROVE k \notin Multiples(size)
    <3>1. k \in 1..size - 1 /\ 0 + k = k
      BY <1>1, <2>1
    <3> QED BY <2>1, <3>1, MultiplesAre
  <2> QED BY <2>1, <2>2 DEF InRuns, InOrder
<1> QED BY <1>2, <1>5, <1>6 DEF SortedTo

PlacesOf(s, d, v) == {k \in 1..Len(s) : d[s[k]] = v}
NodesOf(c, d, v) == {n \in c : d[n] = v}

\* As many elements of a chain have a value as nodes of it have it.
LEMMA CountedIn ==
    ASSUME NEW s, ChainOK(s), NEW d \in [Node -> Int], NEW v
    PROVE  Cardinality(NodesOf(Chain(s), d, v)) = Cardinality(PlacesOf(s, d, v))
<1> DEFINE at == {k \in 1..Len(s) : d[s[k]] = v}
           all == {n \in Chain(s) : d[n] = v}
           f == [k \in at |-> s[k]]
<1>1. Len(s) \in Nat /\ DOMAIN s = 1..Len(s) /\ Distinct(s)
  BY LenProperties DEF ChainOK
<1>2. IsFiniteSet(at)
  <2>1. IsFiniteSet(1..Len(s)) /\ at \subseteq 1..Len(s)
    BY <1>1, FS_Interval
  <2> HIDE DEF at
  <2> QED BY <2>1, FS_Subset
<1>3. f \in Bijection(at, all)
  <2>1. f \in [at -> all]
    BY <1>1 DEF Chain
  <2>2. \A a, b \in at : f[a] = f[b] => a = b
    BY <1>1 DEF Distinct
  <2>3. \A n \in all : \E k \in at : f[k] = n
    <3> SUFFICES ASSUME NEW n \in all PROVE \E k \in at : f[k] = n
      OBVIOUS
    <3>1. PICK k \in 1..Len(s) : s[k] = n
      BY <1>1 DEF Chain
    <3>2. k \in at
      BY <3>1
    <3> QED BY <3>1, <3>2
  <2> HIDE DEF f, at, all
  <2> QED BY <2>1, <2>2, <2>3 DEF Bijection, Injection, Surjection, IsInjective
<1> HIDE DEF at, all, f
<1>4. ExistsBijection(at, all)
  BY <1>3 DEF ExistsBijection
<1>5. IsFiniteSet(all) /\ Cardinality(all) = Cardinality(at)
  BY <1>2, <1>4, FS_Bijection
<1> QED BY <1>5 DEF at, all, PlacesOf, NodesOf

\* How many of the first n elements are v.
Times(e, n, v) == Cardinality({k \in 1..n : e[k] = v})

\* _ls_sort: the sorted chain has the same nodes, each once, and so the same elements,
\* and no element is above the next.
THEOREM Sorting ==
    ASSUME data \in [Node -> Int], NEW s, ChainOK(s)
    PROVE  LET t == Sorted(s)
               e == Elements(s, data)
               u == Elements(t, data)
           IN  /\ ChainOK(t) /\ Len(t) = Len(s) /\ Len(u) = Len(e)
               /\ \A k \in 2..Len(e) : ~Above(u[k - 1], u[k])
               /\ \A v : Times(e, Len(e), v) = Times(u, Len(e), v)
<1> DEFINE t == Sorted(s)
           e == Elements(s, data)
           u == Elements(t, data)
           n == Len(s)
<1>1. s \in Seq(Node) /\ Distinct(s) /\ n \in Nat /\ DOMAIN s = 1..n
  BY LenProperties DEF ChainOK
<1>2. t \in Seq(Node) /\ Len(t) = n /\ Chain(t) = Chain(s) /\ InOrder(t)
  BY <1>1, SortedIs
<1> HIDE DEF t, n
<1>3. DOMAIN t = 1..n /\ \A k \in 1..n : s[k] \in Node /\ t[k] \in Node
  BY <1>1, <1>2, LenProperties, ElementOfSeq DEF n
<1>4. Distinct(t)
  <2> DEFINE all == Chain(s)
             f == [k \in 1..n |-> t[k]]
             g == [k \in 1..n |-> s[k]]
  <2>1. IsFiniteSet(1..n)
    BY <1>1, FS_Interval
  <2>2. g \in Bijection(1..n, all)
    <3>1. g \in [1..n -> all] /\ \A a, b \in 1..n : g[a] = g[b] => a = b
      BY <1>1 DEF Chain, Distinct
    <3>2. \A m \in all : \E k \in 1..n : g[k] = m
      BY <1>1 DEF Chain
    <3> HIDE DEF g, all
    <3> QED BY <3>1, <3>2 DEF Bijection, Injection, Surjection, IsInjective
  <2>3. f \in Surjection(1..n, all)
    <3>1. f \in [1..n -> all]
      BY <1>2, <1>3 DEF Chain
    <3>2. \A m \in all : \E k \in 1..n : f[k] = m
      BY <1>2, <1>3 DEF Chain
    <3> HIDE DEF f, all
    <3> QED BY <3>1, <3>2 DEF Surjection
  <2> HIDE DEF f, g, all
  <2>4. ExistsBijection(1..n, all)
    BY <2>2 DEF ExistsBijection
  <2>5. Cardinality(1..n) = Cardinality(all)
    BY <2>1, <2>4, FS_Bijection
  <2>6. f \in Injection(1..n, all)
    BY <2>1, <2>3, <2>5, FS_SurjSameCardinalityImpliesInj
  <2>7. \A a, b \in 1..n : f[a] = f[b] => a = b
    BY <2>6 DEF Injection, IsInjective
  <2> QED BY <1>3, <2>7 DEF Distinct, f
<1>5. /\ Len(e) = n /\ \A k \in 1..n : e[k] = data[s[k]]
      /\ Len(u) = n /\ \A k \in 1..n : u[k] = data[t[k]]
  BY <1>1, <1>2, ElementsAre DEF n
<1> HIDE DEF e, u
<1>6. ASSUME NEW k \in 2..n PROVE ~Above(u[k - 1], u[k])
  <2>1. k - 1 \in 1..n /\ k \in 1..n /\ k - 1 \in 1..n - 1 /\ (k - 1) + 1 = k
    BY <1>1
  <2> QED BY <1>2, <1>5, <2>1 DEF InOrder
<1>7. ASSUME NEW v PROVE Times(e, n, v) = Times(u, n, v)
  <2>1. Cardinality(NodesOf(Chain(s), data, v)) = Cardinality(PlacesOf(s, data, v))
    BY CountedIn
  <2>2. ChainOK(t)
    BY <1>2, <1>4 DEF ChainOK
  <2>3. Cardinality(NodesOf(Chain(t), data, v)) = Cardinality(PlacesOf(t, data, v))
    BY <2>2, CountedIn
  <2>4. {k \in 1..n : e[k] = v} = PlacesOf(s, data, v) /\ {k \in 1..n : u[k] = v} = PlacesOf(t, data, v)
    BY <1>2, <1>5 DEF PlacesOf, n
  <2> QED BY <1>2, <2>1, <2>3, <2>4 DEF Times
<1> QED BY <1>2, <1>4, <1>5, <1>6, <1>7 DEF ChainOK, t, e, u, n

-----------------------------------------------------------------------------
(* The list.                                                               *)

\* Each iterator is a record: what _create_list_it allocates.
Shape ==
    /\ its = [it \in Iterators |-> its[it]]
    /\ \A it \in Iterators : /\ its[it] = [alive |-> its[it].alive, curr |-> its[it].curr]
                             /\ its[it].alive \in BOOLEAN

\* list->lock counts the iterators, below zero after a write (_lock_ref_object and
\* _unlock_ref_object in _create_list_it and _destroy_list_it).
LockCounts ==
    /\ lock \in Int
    /\ lock = Cardinality(Live) \/ lock = -Cardinality(Live)

IInv == Shape /\ LockCounts /\ IteratorsAlive

\* The two ways in which a statement leaves the iterators alone.
Kept == UNCHANGED <<nodes, count, range, lock, its, x>>
Wrote == lock' = WriteOn(lock) /\ UNCHANGED its

-----------------------------------------------------------------------------
\* There are finitely many iterators.
LEMMA AliveFinite == IsFiniteSet(Live) /\ Cardinality(Live) \in Nat
<1>1. IsFiniteSet(Iterators)
  BY IteratorsAssumption
<1>2. Live \subseteq Iterators
  BY DEF Live
<1> QED BY <1>1, <1>2, FS_Subset, FS_CardinalityType

\* A lock of 0: nobody iterates.
LEMMA UnlockedNone == LockCounts /\ lock = 0 => Live = {}
<1>1. LockCounts /\ lock = 0 => Cardinality(Live) = 0
  BY AliveFinite DEF LockCounts
<1> QED BY <1>1, AliveFinite, FS_EmptySet

\* A statement that keeps the list and the lock keeps the invariant.
LEMMA KeptIInv == IInv /\ Kept => IInv'
BY DEF Kept, IInv, Shape, LockCounts, IteratorsAlive, InPlace, Live, Loop, Chain

\* So does one that writes: whoever iterates, the lock says that the list has changed.
LEMMA WroteIInv == IInv /\ Wrote => IInv'
<1> SUFFICES ASSUME IInv, Wrote PROVE IInv'
  OBVIOUS
<1>1. Live' = Live /\ Shape'
  BY DEF Wrote, Live, Shape, IInv
<1>2. LockCounts'
  BY <1>1, AliveFinite DEF IInv, LockCounts, Wrote, WriteOn
<1>3. IteratorsAlive'
  <2>1. CASE lock = 0
    <3>1. Live' = {}
      BY <2>1, <1>1, UnlockedNone DEF IInv
    <3>2. \A it \in Iterators : ~its'[it].alive
      BY <3>1 DEF Live
    <3> QED BY <3>2, IteratorsAssumption DEF IteratorsAlive, Loop
  <2>2. CASE lock # 0
    <3>1. ~(lock' >= 0)
      BY <2>2 DEF IInv, LockCounts, Wrote, WriteOn
    <3> QED BY <3>1 DEF IteratorsAlive
  <2> QED BY <2>1, <2>2
<1> QED BY <1>1, <1>2, <1>3 DEF IInv

-----------------------------------------------------------------------------
\* A statement that fills the range and then writes marks the lock twice.
LEMMA WriteOnce == lock \in Int => WriteOn(WriteOn(lock)) = WriteOn(lock)
BY DEF WriteOn

\* What filling a range does to the lock.
LEMMA FilledLock ==
    /\ "lock" \in DOMAIN FillRanged
    /\ FillRanged.lock = (IF range = <<>> THEN lock ELSE WriteOn(lock))
    /\ range = <<>> => FillRanged = This
BY DEF FillRanged, This, Written

\* A statement that fills the range and then does as little as a read.
LEMMA FillFinish ==
    ASSUME NEW c, NEW a, FreesNone, Finish(c, a),
           c.lock = FillRanged.lock, c.nodes = FillRanged.nodes,
           c.count = FillRanged.count, c.range = FillRanged.range
    PROVE  Kept \/ Wrote
<1>1. CASE range = <<>>
  BY <1>1, FilledLock DEF Finish, Become, FreesNone, Kept, This
<1>2. CASE range # <<>>
  BY <1>2, FilledLock DEF Finish, Become, Wrote
<1> QED BY <1>1, <1>2

\* A statement that writes, after it has filled the range.
LEMMA WrittenFinish ==
    ASSUME NEW c, NEW s, NEW d, NEW n, NEW a, Finish(Written(c, s, d, n), a),
           lock \in Int, c.lock \in {lock, WriteOn(lock)}
    PROVE  Wrote
<1>1. Written(c, s, d, n).lock = WriteOn(c.lock)
  BY DEF Written
<1>2. lock' = WriteOn(c.lock) /\ its' = its
  BY <1>1 DEF Finish, Become
<1> QED BY <1>2, WriteOnce DEF Wrote

-----------------------------------------------------------------------------
(* The statements on the list.                                             *)

\* Statements that read, and the assignment to a loop's variable.
LEMMA ReadStep ==
    ASSUME IInv,
           \/ Length \/ Back \/ Clone \/ ToArray
           \/ \E i \in Indices : Get(i)
           \/ \E v \in Ints : Exists(v) \/ IndexOf(v) \/ ForAssign(v)
    PROVE  Kept \/ Wrote
<1>1. ASSUME Length \/ Back \/ Clone \/ ToArray PROVE Kept
  BY <1>1 DEF Length, Back, Clone, ToArray, Finish, Become, This, FreesNone, Kept
<1>2. ASSUME NEW i \in Indices, Get(i) PROVE Kept \/ Wrote
  <2>1. CASE ~InBounds(FillRanged, i)
    BY <1>2, <2>1, FillFinish DEF Get
  <2>2. CASE InBounds(FillRanged, i)
    <3> DEFINE c == LookedUp(FillRanged, i)
    <3>1. /\ c.lock = FillRanged.lock /\ c.nodes = FillRanged.nodes
          /\ c.count = FillRanged.count /\ c.range = FillRanged.range
      BY DEF LookedUp
    <3>2. FreesNone /\ Finish(c, Value(c.data[Found(FillRanged, i)]))
      BY <1>2, <2>2 DEF Get, LookedUp
    <3> QED BY <3>1, <3>2, FillFinish
  <2> QED BY <2>1, <2>2
<1>3. ASSUME NEW v \in Ints, Exists(v) \/ IndexOf(v) PROVE Kept \/ Wrote
  <2>1. FreesNone /\ \E a : Finish(FillRanged, a)
    BY <1>3 DEF Exists, IndexOf
  <2> QED BY <2>1, FillFinish
<1>4. ASSUME NEW v \in Ints, ForAssign(v) PROVE Kept
  BY <1>4 DEF ForAssign, Kept
<1> QED BY <1>1, <1>2, <1>3, <1>4

\* Statements that write.
LEMMA WriteStep ==
    ASSUME IInv,
           \/ Pop \/ Clear \/ Sort
           \/ \E i \in Indices : RemoveIndex(i)
           \/ \E v \in Ints : Push(v)
           \/ \E i \in Indices, v \in Ints : Insert(i, v) \/ Set(i, v)
    PROVE  Kept \/ Wrote
<1> DEFINE c == FillRanged
           Writes == \E s, d, n, a : Finish(Written(c, s, d, n), a)
           Reads == \E a : FreesNone /\ Finish(c, a)
<1>1. lock \in Int /\ c.lock \in {lock, WriteOn(lock)}
  BY FilledLock DEF IInv, LockCounts
<1>2. ASSUME Clear \/ Sort PROVE Wrote
  BY <1>1, <1>2 DEF Clear, Sort, Finish, Become, Written, This, Wrote
<1>3. ASSUME Pop PROVE Writes \/ Reads
  BY <1>3 DEF Pop
<1>4. ASSUME NEW i \in Indices, RemoveIndex(i) PROVE Writes \/ Reads
  BY <1>4 DEF RemoveIndex
<1>5. ASSUME NEW v \in Ints, Push(v) PROVE Writes
  BY <1>5 DEF Push
<1>6. ASSUME NEW i \in Indices, NEW v \in Ints, Insert(i, v) PROVE Writes \/ Reads
  BY <1>6 DEF Insert
<1>7. ASSUME NEW i \in Indices, NEW v \in Ints, Set(i, v) PROVE Writes \/ Reads
  BY <1>7 DEF Set
<1>8. ASSUME Writes PROVE Wrote
  <2> HIDE DEF c
  <2> QED BY <1>1, <1>8, WrittenFinish
<1>9. ASSUME Reads PROVE Kept \/ Wrote
  BY <1>9, FillFinish
<1> HIDE DEF Writes, Reads
<1> QED BY <1>2, <1>3, <1>4, <1>5, <1>6, <1>7, <1>8, <1>9

-----------------------------------------------------------------------------
(* The iterators.                                                          *)

\* Wherever an iterator begins or moves to, it is in place.
LEMMA Placed == InPlace(Begun) /\ \A curr : InPlace(Onward(curr))
<1>1. InPlace(Begun)
  BY DEF InPlace, Begun, Start, AtNumber
<1>2. \A n : InPlace(NodeAfter(n)) \/ range # <<>>
  BY DEF InPlace, NodeAfter, Linked, AtEnd, AtNode, Start, Chain
<1>3. \A curr : InPlace(Onward(curr))
  BY <1>2 DEF InPlace, Onward, AtNumber, AtEnd, AtNode, Start, Chain
<1> QED BY <1>1, <1>3

\* One iterator more, or one less.
LEMMA Counting ==
    ASSUME NEW it \in Iterators
    PROVE  /\ it \notin Live => Cardinality(Live \cup {it}) = Cardinality(Live) + 1
           /\ it \in Live => Cardinality(Live \ {it}) = Cardinality(Live) - 1
BY AliveFinite, FS_AddElement, FS_RemoveElement

\* The lock says that it has a single iterator: there is no other.
LEMMA OnlyOne ==
    ASSUME NEW it \in Live, Cardinality(Live) = 1
    PROVE  Live = {it}
<1>1. IsFiniteSet(Live \ {it}) /\ Cardinality(Live \ {it}) = 0
  BY AliveFinite, FS_RemoveElement
<1>2. Live \ {it} = {}
  BY <1>1, FS_EmptySet
<1> QED BY <1>2

\* An iterator is created in the place of what the variable held.
LEMMA Started ==
    ASSUME IInv, NEW it \in Iterators, NEW curr,
           its' = [its EXCEPT ![it] = [alive |-> TRUE, curr |-> curr]],
           lock' = LockOn(Disposed(it))
    PROVE  /\ Shape' /\ LockCounts' /\ Live' = Live \cup {it}
           /\ its'[it] = [alive |-> TRUE, curr |-> curr]
           /\ \A jt \in Iterators \ {it} : its'[jt] = its[jt]
           /\ lock' < 0 <=> lock < 0 /\ Live \ {it} # {}
           /\ lock' >= 0 => lock >= 0 \/ Live \ {it} = {}
<1>1. /\ Shape' /\ its'[it] = [alive |-> TRUE, curr |-> curr]
      /\ \A jt \in Iterators \ {it} : its'[jt] = its[jt]
  BY DEF IInv, Shape
<1>2. Live' = Live \cup {it}
  BY <1>1 DEF Live
<1>3. /\ IsFiniteSet(Live) /\ Cardinality(Live) \in Nat
      /\ it \in Live => Cardinality(Live) >= 1 /\ (Cardinality(Live) = 1 <=> Live \ {it} = {})
  <2>1. it \in Live => Cardinality(Live) >= 1
    BY AliveFinite, FS_EmptySet
  <2>2. it \in Live /\ Cardinality(Live) = 1 => Live \ {it} = {}
    BY OnlyOne
  <2>3. it \in Live /\ Live \ {it} = {} => Cardinality(Live) = 1
    <3>1. it \in Live /\ Live \ {it} = {} => Live = {it}
      OBVIOUS
    <3> QED BY <3>1, FS_Singleton
  <2> QED BY <2>1, <2>2, <2>3, AliveFinite
<1>4. it \notin Live => Live \ {it} = Live /\ (Live = {} <=> Cardinality(Live) = 0)
  BY AliveFinite, FS_EmptySet
<1>5. lock \in Int /\ (lock = Cardinality(Live) \/ lock = -Cardinality(Live))
  BY DEF IInv, LockCounts
<1>6. CASE it \in Live
  <2>1. Live' = Live /\ lock' = LockOn(Unlock(lock))
    BY <1>6, <1>2 DEF Live, Disposed
  <2>2. LockCounts'
    BY <2>1, <1>3, <1>5, <1>6 DEF LockCounts, LockOn, Unlock
  <2>3. /\ lock' < 0 <=> lock < 0 /\ Cardinality(Live) # 1
        /\ lock' >= 0 => lock >= 0 \/ Cardinality(Live) = 1
    BY <2>1, <1>3, <1>5, <1>6 DEF LockOn, Unlock
  <2> QED BY <1>1, <1>2, <1>3, <1>6, <2>2, <2>3 DEF LockCounts
<1>7. CASE it \notin Live
  <2>1. Cardinality(Live') = Cardinality(Live) + 1 /\ lock' = LockOn(lock)
    BY <1>7, <1>2, Counting DEF Live, Disposed
  <2>2. LockCounts'
    BY <2>1, <1>3, <1>5 DEF LockCounts, LockOn
  <2>3. /\ lock' < 0 <=> lock < 0 /\ Cardinality(Live) # 0
        /\ lock' >= 0 => lock >= 0 \/ Cardinality(Live) = 0
    BY <2>1, <1>3, <1>5 DEF LockOn
  <2> QED BY <1>1, <1>2, <1>4, <1>7, <2>2, <2>3 DEF LockCounts
<1> QED BY <1>6, <1>7

\* An iterator that begins where it may keeps the invariant.
LEMMA StartIInv ==
    ASSUME IInv, NEW it \in Iterators, NEW curr, InPlace(curr), UNCHANGED <<nodes, range>>,
           its' = [its EXCEPT ![it] = [alive |-> TRUE, curr |-> curr]],
           lock' = LockOn(Disposed(it)),
           lock' >= 0 => x' \in Chain(nodes) \cup {Null} \/ (it # "loop" /\ x' = x)
    PROVE  IInv'
<1>1. /\ Shape' /\ LockCounts' /\ Live' = Live \cup {it} /\ its'[it] = [alive |-> TRUE, curr |-> curr]
      /\ \A jt \in Iterators \ {it} : its'[jt] = its[jt]
      /\ lock' >= 0 => lock >= 0 \/ Live \ {it} = {}
  BY Started
<1>2. ASSUME lock' >= 0, NEW jt \in Iterators \ {it}, its'[jt].alive
      PROVE  lock >= 0 /\ its[jt].alive
  BY <1>1, <1>2 DEF Live
<1>3. \A c : InPlace(c)' = InPlace(c) /\ Chain(nodes)' = Chain(nodes)
  BY DEF InPlace, Chain
<1>4. \A jt \in Iterators : lock' >= 0 /\ its'[jt].alive => InPlace(its'[jt].curr)
  BY <1>1, <1>2 DEF IInv, IteratorsAlive
<1>5. lock' >= 0 /\ Loop'.alive => x' \in Chain(nodes) \cup {Null}
  BY <1>1, <1>2, IteratorsAssumption DEF IInv, IteratorsAlive, Loop
<1>6. IteratorsAlive'
  BY <1>3, <1>4, <1>5 DEF IteratorsAlive, InPlace, Chain
<1> QED BY <1>1, <1>6 DEF IInv

\* An iterator is disposed of; without it the loop's variable is nobody's.
LEMMA Ended ==
    ASSUME IInv, NEW it \in Iterators,
           its' = [its EXCEPT ![it] = Gone], lock' = Disposed(it)
    PROVE  /\ Shape' /\ LockCounts' /\ Live' = Live \ {it}
           /\ ~its'[it].alive /\ \A jt \in Iterators \ {it} : its'[jt] = its[jt]
           /\ lock' < 0 <=> lock < 0 /\ Live \ {it} # {}
           /\ lock' >= 0 => lock >= 0 \/ Live \ {it} = {}
<1>1. /\ Shape' /\ ~its'[it].alive
      /\ \A jt \in Iterators \ {it} : its'[jt] = its[jt]
  BY DEF IInv, Shape, Gone
<1>2. Live' = Live \ {it}
  BY <1>1 DEF Live
<1>3. Cardinality(Live) \in Nat /\ (it \in Live => Cardinality(Live) >= 1)
  BY AliveFinite, FS_EmptySet
<1>4. lock \in Int /\ (lock = Cardinality(Live) \/ lock = -Cardinality(Live))
  BY DEF IInv, LockCounts
<1>5. Cardinality(Live') \in Nat /\ (Live' = {} <=> Cardinality(Live') = 0)
  <2>1. IsFiniteSet(Live \ {it})
    BY AliveFinite, FS_RemoveElement
  <2> QED BY <1>2, <2>1, FS_EmptySet, FS_CardinalityType
<1>6. CASE it \in Live
  <2>1. Cardinality(Live') = Cardinality(Live) - 1 /\ lock' = Unlock(lock)
    BY <1>6, <1>2, Counting DEF Live, Disposed
  <2>2. /\ LockCounts' /\ (lock' < 0 <=> lock < 0 /\ Cardinality(Live') # 0)
        /\ lock' >= 0 => lock >= 0 \/ Cardinality(Live') = 0
    BY <2>1, <1>3, <1>4, <1>6 DEF LockCounts, Unlock
  <2> QED BY <1>1, <1>2, <1>5, <2>2 DEF LockCounts
<1>7. CASE it \notin Live
  <2>1. Live' = Live /\ lock' = lock
    BY <1>7, <1>2 DEF Live, Disposed
  <2>2. /\ LockCounts' /\ (lock' < 0 <=> lock < 0 /\ Cardinality(Live') # 0)
        /\ lock' >= 0 => lock >= 0 \/ Cardinality(Live') = 0
    BY <2>1, <1>3, <1>4 DEF LockCounts
  <2> QED BY <1>1, <1>2, <1>5, <2>2 DEF LockCounts
<1> QED BY <1>6, <1>7

\* An iterator less keeps the invariant.
LEMMA EndIInv ==
    ASSUME IInv, NEW it \in Iterators, UNCHANGED <<nodes, range>>,
           its' = [its EXCEPT ![it] = Gone], lock' = Disposed(it), it # "loop" => x' = x
    PROVE  IInv'
<1>1. /\ Shape' /\ LockCounts' /\ Live' = Live \ {it} /\ ~its'[it].alive
      /\ \A jt \in Iterators \ {it} : its'[jt] = its[jt]
      /\ lock' >= 0 => lock >= 0 \/ Live \ {it} = {}
  BY Ended
<1>2. ASSUME lock' >= 0, NEW jt \in Iterators, its'[jt].alive
      PROVE  jt # it /\ lock >= 0 /\ its[jt].alive
  BY <1>1, <1>2 DEF Live
<1>3. \A c : InPlace(c)' = InPlace(c) /\ Chain(nodes)' = Chain(nodes)
  BY DEF InPlace, Chain
<1>4. \A jt \in Iterators : lock' >= 0 /\ its'[jt].alive => InPlace(its'[jt].curr)
  BY <1>1, <1>2 DEF IInv, IteratorsAlive
<1>5. lock' >= 0 /\ Loop'.alive => x' \in Chain(nodes) \cup {Null}
  BY <1>1, <1>2, IteratorsAssumption DEF IInv, IteratorsAlive, Loop
<1>6. IteratorsAlive'
  BY <1>3, <1>4, <1>5 DEF IteratorsAlive, InPlace, Chain
<1> QED BY <1>1, <1>6 DEF IInv

\* An iterator moves, if the lock says that it may.
LEMMA MoveIInv ==
    ASSUME IInv, NEW it \in Iterators, its[it].alive, NEW curr, InPlace(curr),
           UNCHANGED <<nodes, range, lock>>,
           its' = [its EXCEPT ![it].curr = curr],
           x' \in Chain(nodes) \cup {Null} \/ (it # "loop" /\ x' = x)
    PROVE  IInv'
<1>1. Shape' /\ its'[it].alive /\ its'[it].curr = curr
  BY DEF IInv, Shape
<1>2. \A jt \in Iterators : jt # it => its'[jt] = its[jt]
  BY DEF IInv, Shape
<1>3. Live' = Live
  BY <1>1, <1>2 DEF Live
<1>4. LockCounts'
  BY <1>3 DEF IInv, LockCounts
<1>5. \A c : InPlace(c)' = InPlace(c) /\ Chain(nodes)' = Chain(nodes)
  BY DEF InPlace, Chain
<1>6. IteratorsAlive'
  BY <1>1, <1>2, <1>5, IteratorsAssumption DEF IInv, IteratorsAlive, InPlace, Chain, Loop
<1> QED BY <1>1, <1>4, <1>6 DEF IInv

\* What a program does with an iterator.
LEMMA IteratorStep ==
    ASSUME IInv, NEW it \in Iterators \ {"loop"},
           Iterator(it) \/ Drop(it) \/ MoveNext(it) \/ Current(it)
    PROVE  IInv'
<1>1. CASE Iterator(it)
  BY <1>1, Placed, StartIInv DEF Iterator, Rest
<1>2. CASE Drop(it)
  BY <1>2, EndIInv DEF Drop, Rest
<1>3. CASE MoveNext(it)
  <2>1. CASE lock < 0
    BY <1>3, <2>1, KeptIInv DEF MoveNext, Kept, Rest
  <2>2. CASE ~(lock < 0)
    BY <1>3, <2>2, Placed, MoveIInv DEF MoveNext, Rest
  <2> QED BY <2>1, <2>2
<1>4. CASE Current(it)
  BY <1>4, KeptIInv DEF Current, Kept, Rest
<1> QED BY <1>1, <1>2, <1>3, <1>4

\* Where a loop goes on, its variable is an element of the list.
LEMMA LoopVariable ==
    ASSUME NEW curr
    PROVE  (IF Onward(curr).kind = "node" THEN Onward(curr).at ELSE Null) \in Chain(nodes) \cup {Null}
<1>1. Onward(curr).kind = "node" => range = <<>> /\ InPlace(Onward(curr))
  BY Placed DEF Onward, AtNumber
<1> QED BY <1>1 DEF InPlace

\* What FOR x IN l does with its own.
LEMMA LoopStep ==
    ASSUME IInv, ForIn \/ ForNext \/ ForExit
    PROVE  IInv'
<1> "loop" \in Iterators /\ lock \in Int /\ its["loop"] = [alive |-> Loop.alive, curr |-> Loop.curr]
  BY IteratorsAssumption DEF IInv, LockCounts, Shape, Loop
<1>1. CASE ForIn
  <2> DEFINE lk == LockOn(lock)
             next == Onward(Begun)
  <2>1. ~its["loop"].alive /\ Turn(Begun, lk) /\ Rest /\ Disposed("loop") = lock
    BY <1>1 DEF ForIn, Loop, Disposed
  <2>5. lk \in Int
    BY DEF LockOn
  <2>2. CASE lk < 0
    <3>1. ~(lk >= 0)
      BY <2>2, <2>5
    <3>2. UNCHANGED <<its, lock, x>>
      BY <2>1, <2>2, <3>1 DEF Turn
    <3> QED BY <2>1, <3>2, KeptIInv DEF Rest, Kept
  <2>3. CASE lk >= 0 /\ Past(next)
    <3>1. lock' = lock /\ its' = [its EXCEPT !["loop"] = Gone]
      BY <2>1, <2>3 DEF Turn, LockOn, Unlock
    <3>2. nodes' = nodes /\ range' = range
      BY <2>1 DEF Rest
    <3> QED BY <2>1, <3>1, <3>2, EndIInv
  <2>4. CASE lk >= 0 /\ ~Past(next)
    <3>1. /\ lock' = lk /\ its' = [its EXCEPT !["loop"] = [alive |-> TRUE, curr |-> next]]
          /\ x' = (IF next.kind = "node" THEN next.at ELSE Null)
      BY <2>1, <2>4 DEF Turn, LockOn
    <3> QED BY <2>1, <3>1, Placed, LoopVariable, StartIInv DEF Rest
  <2> QED BY <2>2, <2>3, <2>4, <2>5
<1>2. CASE ForNext
  <2> DEFINE next == Onward(its["loop"].curr)
  <2>1. its["loop"].alive /\ Turn(its["loop"].curr, lock) /\ Rest /\ Disposed("loop") = Unlock(lock)
    BY <1>2 DEF ForNext, Loop, Disposed
  <2>2. CASE lock < 0
    BY <2>1, <2>2, KeptIInv DEF Turn, Rest, Kept
  <2>3. CASE lock >= 0 /\ Past(next)
    <3>1. lock' = Unlock(lock) /\ its' = [its EXCEPT !["loop"] = Gone]
      BY <2>1, <2>3 DEF Turn
    <3>2. nodes' = nodes /\ range' = range
      BY <2>1 DEF Rest
    <3> QED BY <2>1, <3>1, <3>2, EndIInv
  <2>4. CASE lock >= 0 /\ ~Past(next)
    <3>1. /\ lock' = lock /\ its' = [its EXCEPT !["loop"] = [alive |-> TRUE, curr |-> next]]
          /\ x' = (IF next.kind = "node" THEN next.at ELSE Null)
      BY <2>1, <2>4 DEF Turn
    <3>2. its' = [its EXCEPT !["loop"].curr = next]
      BY <2>1, <3>1
    <3> QED BY <2>1, <3>1, <3>2, Placed, LoopVariable, MoveIInv DEF Rest
  <2> QED BY <2>2, <2>3, <2>4
<1>3. CASE ForExit
  <2>1. Disposed("loop") = Unlock(lock)
    BY <1>3 DEF ForExit, Loop, Disposed
  <2> QED BY <1>3, <2>1, EndIInv DEF ForExit, Rest
<1> QED BY <1>1, <1>2, <1>3

-----------------------------------------------------------------------------
\* A list without iterators.
LEMMA InitIInv == Init => IInv
<1> SUFFICES ASSUME Init PROVE IInv
  OBVIOUS
<1>1. lock = 0 /\ x = Null /\ its = [it \in Iterators |-> Gone]
  BY DEF Init
<1>2. Shape
  BY <1>1 DEF Shape, Gone
<1>3. Live = {}
  BY <1>1 DEF Live, Gone
<1>4. LockCounts
  BY <1>1, <1>3, FS_EmptySet DEF LockCounts
<1>5. IteratorsAlive
  BY <1>1 DEF IteratorsAlive, Gone, Loop
<1> QED BY <1>2, <1>4, <1>5 DEF IInv

\* Every step keeps the invariant.
LEMMA StepIInv == IInv /\ [Next]_listVars => IInv'
<1> SUFFICES ASSUME IInv, [Next]_listVars PROVE IInv'
  OBVIOUS
<1>1. CASE UNCHANGED listVars
  BY <1>1, KeptIInv DEF listVars, Kept
<1>2. CASE Next
  BY <1>2, ReadStep, WriteStep, KeptIInv, WroteIInv, IteratorStep, LoopStep DEF Next
<1> QED BY <1>1, <1>2

\* list->lock is, in magnitude, the number of iterators of the list in every reachable
\* state: each is counted once, and let go once (_create_list_it, _destroy_list_it).
THEOREM LockCorrect == ListSpec => []LockCounts
<1>1. IInv => LockCounts
  BY DEF IInv
<1> QED BY InitIInv, StepIInv, <1>1, PTL DEF ListSpec

\* An iterator that _move_list_it_next may follow is at a node of the list, or counts
\* through a range that has not been filled; the variable of FOR x IN l is an element.
THEOREM IteratorsSafe == ListSpec => []IteratorsAlive
<1>1. IInv => IteratorsAlive
  BY DEF IInv
<1> QED BY InitIInv, StepIInv, <1>1, PTL DEF ListSpec

-----------------------------------------------------------------------------
(* The list is a sequence.                                                 *)

\* The node in the cache is the one at its index.
CacheOK(s, c) == c.node # Null => c.index \in 0..(Len(s) - 1) /\ c.node = s[c.index + 1]
FilledOK(c) ==
    /\ c.range = <<>> /\ c.count = Len(c.nodes) /\ ChainOK(c.nodes)
    /\ c.data \in [Node -> Int] /\ CacheOK(c.nodes, c.cache)
RangeOK ==
    /\ range # <<>> /\ range[1] \in Int /\ count \in 1..MaxNodes
    /\ nodes = <<>> /\ data \in [Node -> Int] /\ cache = NoCache
ListOK == FilledOK(This) \/ RangeOK

\* A range that nothing has filled: the numbers that it counts through.
LEMMA RangedIs ==
    ASSUME RangeOK
    PROVE  /\ Sgn(count) = 1 /\ RangeLength = count
           /\ \A k \in Int : InRange(k) = range[1] + (k - 1) /\ InRange(k) \in Int
           /\ Contents = [k \in 1..count |-> InRange(k)]
           /\ Contents \in Seq(Int) /\ Len(Contents) = count
           /\ \A k \in 1..count : Contents[k] = range[1] + (k - 1)
<1>1. count \in 1..MaxNodes /\ MaxNodes \in Nat /\ range # <<>> /\ range[1] \in Int
  BY MaxNodesAssumption DEF RangeOK
<1>2. Sgn(count) = 1
  BY <1>1 DEF Sgn
<1>3. RangeLength = count
  BY <1>1 DEF RangeLength
<1>4. \A k \in Int : InRange(k) = range[1] + (k - 1) /\ InRange(k) \in Int
  BY <1>1, <1>2 DEF InRange
<1>5. Contents = [k \in 1..count |-> InRange(k)]
  BY <1>1, <1>3 DEF Contents
<1>6. Contents \in Seq(Int) /\ Len(Contents) = count /\ \A k \in 1..count : Contents[k] = range[1] + (k - 1)
  <2>1. \A k \in 1..count : InRange(k) \in Int /\ InRange(k) = range[1] + (k - 1)
    <3>1. \A k \in 1..count : k \in Int
      BY <1>1
    <3> QED BY <1>4, <3>1
  <2>2. Contents \in [1..count -> Int]
    BY <1>5, <2>1
  <2>3. count \in Nat
    BY <1>1
  <2> QED BY <1>5, <2>1, <2>2, <2>3
<1> QED BY <1>2, <1>3, <1>4, <1>5, <1>6

\* A list with a chain: the integers in its nodes.
LEMMA ChainedIs ==
    ASSUME FilledOK(This)
    PROVE  /\ range = <<>> /\ count = Len(nodes) /\ ChainOK(nodes) /\ data \in [Node -> Int]
           /\ Contents = Elements(nodes, data)
           /\ Contents \in Seq(Int) /\ Len(Contents) = count /\ count \in Nat /\ DOMAIN nodes = 1..count
           /\ \A k \in 1..count : nodes[k] \in Node /\ Contents[k] = data[nodes[k]]
<1>1. range = <<>> /\ count = Len(nodes) /\ ChainOK(nodes) /\ data \in [Node -> Int]
  BY DEF FilledOK, This
<1>2. Contents = Elements(nodes, data)
  BY <1>1 DEF Contents, Elements
<1> QED BY <1>1, <1>2, ElementsAre DEF ChainOK

\* What FillRanged leaves is a chain of the same elements.
LEMMA Filling ==
    ASSUME ListOK
    PROVE  /\ FilledOK(FillRanged)
           /\ Elements(FillRanged.nodes, FillRanged.data) = Contents
           /\ Contents \in Seq(Int) /\ Len(Contents) = FillRanged.count /\ FillRanged.count = count
           /\ count \in Nat /\ Len(FillRanged.nodes) = count
<1>1. CASE FilledOK(This)
  <2>1. FillRanged = This
    BY <1>1, ChainedIs DEF FillRanged
  <2> QED BY <1>1, <2>1, ChainedIs DEF This
<1>2. CASE RangeOK
  <2> DEFINE s == [k \in 1..count |-> k]
             d == [m \in Node |-> IF m <= count THEN InRange(m) ELSE data[m]]
  <2>1. /\ FillRanged.nodes = s /\ FillRanged.data = d /\ FillRanged.count = count
        /\ FillRanged.range = <<>> /\ FillRanged.cache = NoCache
    BY <1>2, RangedIs DEF FillRanged, Written, This, RangeOK
  <2>2. count \in 1..MaxNodes /\ MaxNodes \in Nat /\ count \in Nat
    BY <1>2, MaxNodesAssumption DEF RangeOK
  <2>3. s \in Seq(Node) /\ Len(s) = count /\ \A k \in 1..count : s[k] = k /\ k \in Node
    <3>1. \A k \in 1..count : k \in Node
      BY <2>2 DEF Node
    <3>2. s \in [1..count -> Node]
      BY <3>1
    <3> QED BY <2>2, <3>1, <3>2
  <2>4. d \in [Node -> Int]
    <3>1. \A m \in Node : m \in Int
      BY DEF Node
    <3>2. \A m \in Node : InRange(m) \in Int
      BY <1>2, <3>1, RangedIs
    <3> QED BY <1>2, <3>2 DEF RangeOK
  <2>5. \A k \in 1..count : d[s[k]] = InRange(k)
    BY <2>2, <2>3
  <2> HIDE DEF s, d
  <2>6. DOMAIN s = 1..count
    BY <2>3, LenProperties
  <2>7. ChainOK(s)
    BY <2>3, <2>6 DEF ChainOK, Distinct
  <2>8. Elements(s, d) = Contents
    BY <1>2, <2>3, <2>5, RangedIs DEF Elements
  <2> QED BY <1>2, <2>1, <2>2, <2>3, <2>4, <2>7, <2>8, RangedIs DEF FilledOK, CacheOK, NoCache
<1> QED BY <1>1, <1>2 DEF ListOK

\* _node_at_list finds the node at an index, from whichever end it walks.
LEMMA FoundIs ==
    ASSUME NEW c, FilledOK(c), NEW i \in 0..(c.count - 1)
    PROVE  Found(c, i) = c.nodes[i + 1] /\ i + 1 \in 1..Len(c.nodes)
<1> DEFINE n == Len(c.nodes)
           at == c.cache.index
           left == at \div 2
           right == at + ((c.count - at) \div 2)
<1>1. n \in Nat /\ c.count = n /\ DOMAIN c.nodes = 1..n /\ i \in Nat /\ i + 1 \in 1..n
  <2>1. c.nodes \in Seq(Node) /\ c.count = n
    BY DEF FilledOK, ChainOK
  <2>2. n \in Nat /\ DOMAIN c.nodes = 1..n
    BY <2>1, LenProperties
  <2> QED BY <2>1, <2>2
<1>2. Found(c, i) = CASE c.cache.node = Null \/ i < left -> c.nodes[i + 1]
                     [] c.cache.node # Null /\ i \in left..right -> c.nodes[Place(c) + i - at]
                     [] OTHER -> c.nodes[n - (c.count - 1 - i)]
  BY Zenon DEF Found
<1>9. c.cache.node # Null => ~(i < left /\ i \in left..right)
  <2>1. c.cache.node # Null => at \in Int
    BY <1>1 DEF FilledOK, CacheOK
  <2>2. c.cache.node # Null => left \in Int
    BY <2>1
  <2> HIDE DEF left, right
  <2> QED BY <1>1, <2>2
<1> HIDE DEF left, right
<1>3. c.cache.node # Null => Place(c) + i - at = i + 1
  <2> SUFFICES ASSUME c.cache.node # Null PROVE Place(c) + i - at = i + 1
    OBVIOUS
  <2>1. at \in 0..(n - 1) /\ c.cache.node = c.nodes[at + 1]
    BY DEF FilledOK, CacheOK
  <2>2. at + 1 \in 1..n /\ at \in Int
    BY <1>1, <2>1
  <2>3. Place(c) = at + 1
    BY <1>1, <2>1, <2>2 DEF Place, FilledOK, ChainOK, Distinct
  <2> HIDE DEF at
  <2> QED BY <1>1, <2>2, <2>3
<1>4. n - (c.count - 1 - i) = i + 1
  <2> HIDE DEF n
  <2> QED BY <1>1
<1>5. c.cache.node = Null \/ i < left => Found(c, i) = c.nodes[i + 1]
  BY <1>2, <1>9
<1>6. ~(c.cache.node = Null \/ i < left) => Found(c, i) = c.nodes[i + 1]
  BY <1>2, <1>3, <1>4
<1>7. Found(c, i) = c.nodes[i + 1]
  BY <1>5, <1>6
<1> QED BY <1>1, <1>7

\* A chain a statement leaves.
LEMMA Left ==
    ASSUME NEW c, FilledOK(c), Become(c)
    PROVE  ListOK' /\ Contents' = Elements(c.nodes, c.data)
<1>1. /\ nodes' = c.nodes /\ data' = c.data /\ count' = c.count /\ range' = c.range /\ cache' = c.cache
  BY DEF Become
<1>2. c.range = <<>> /\ FilledOK(This)'
  BY <1>1 DEF FilledOK, This
<1> QED BY <1>1, <1>2 DEF ListOK, Contents, Elements

\* What a statement that writes leaves is a chain without a cached node.
LEMMA WrittenIs ==
    ASSUME NEW c, c.range = <<>>, NEW s, ChainOK(s), NEW d \in [Node -> Int], NEW n, n = Len(s)
    PROVE  /\ FilledOK(Written(c, s, d, n))
           /\ Written(c, s, d, n).nodes = s /\ Written(c, s, d, n).data = d
BY DEF Written, FilledOK, CacheOK, NoCache

\* What a look-up caches is the node at its index.
LEMMA LookedUpIs ==
    ASSUME NEW c, FilledOK(c), NEW i \in 0..(c.count - 1),
           c = [nodes |-> c.nodes, data |-> c.data, count |-> c.count, range |-> c.range,
                cache |-> c.cache, lock |-> c.lock]
    PROVE  /\ FilledOK(LookedUp(c, i))
           /\ LookedUp(c, i).nodes = c.nodes /\ LookedUp(c, i).data = c.data
<1>1. i \in 0..(Len(c.nodes) - 1) /\ Found(c, i) = c.nodes[i + 1]
  BY FoundIs DEF FilledOK
<1> DEFINE l == LookedUp(c, i)
<1>2. /\ l.nodes = c.nodes /\ l.data = c.data /\ l.count = c.count /\ l.range = c.range
      /\ l.cache = [node |-> Found(c, i), index |-> i]
  BY DEF LookedUp
<1> HIDE DEF l
<1>3. CacheOK(l.nodes, l.cache)
  BY <1>1, <1>2 DEF CacheOK
<1> QED BY <1>2, <1>3 DEF FilledOK, l

-----------------------------------------------------------------------------
(* What the abstract list sees of the lock and of the iterators.           *)

NothingCounted == [it \in Iterators |-> 0]

\* A function of which one value is set.
LEMMA OneSet ==
    ASSUME NEW I, NEW f, NEW g, NEW it \in I, NEW v,
           f = [j \in I |-> f[j]], g = [j \in I |-> g[j]],
           g[it] = v, \A j \in I \ {it} : g[j] = f[j]
    PROVE  g = [f EXCEPT ![it] = v]
OBVIOUS

\* Where curr is, of a chain, a count and a range that are given.
PositionOn(chain, n, r, curr) ==
    CASE curr.kind = "head" -> 0
      [] curr.kind = "node" -> CHOOSE k \in 1..Len(chain) : chain[k] = curr.at
      [] curr.kind = "end" -> Len(chain) + 1
      [] curr.kind = "number" ->
           LET p == Sgn(n) * (curr.at - r[1]) + 1
               len == IF n < 0 THEN -n ELSE n
           IN  IF p > len THEN len + 1 ELSE p

LEMMA PositionStays ==
    ASSUME UNCHANGED <<nodes, count, range>>
    PROVE  \A curr : Position(curr)' = Position(curr)
<1> SUFFICES ASSUME NEW curr PROVE Position(curr)' = Position(curr)
  OBVIOUS
<1>1. Position(curr) = PositionOn(nodes, count, range, curr)
  BY Zenon DEF Position, RangeLength, PositionOn
<1>2. Position(curr)' = PositionOn(nodes', count', range', curr)
  BY Zenon DEF Position, RangeLength, PositionOn
<1> QED BY <1>1, <1>2

\* A statement that keeps the list keeps what is seen of the iterators;
LEMMA KeptView ==
    ASSUME IInv, ListOK, Kept
    PROVE  Live' = Live /\ Altered' = Altered /\ Positions' = Positions
<1>1. Live' = Live /\ Altered' = Altered
  BY DEF Kept, Live, Altered
<1>2. \A curr : Position(curr)' = Position(curr)
  BY PositionStays DEF Kept
<1>3. Positions' = Positions
  BY <1>2 DEF Kept, Positions, Altered
<1> QED BY <1>1, <1>3

\* one that writes makes all of them invalid;
LEMMA WroteView ==
    ASSUME IInv, Wrote
    PROVE  /\ Live' = Live /\ Altered' = (Live # {})
           /\ Positions' = IF Altered' THEN NothingCounted ELSE Positions
<1>1. Live' = Live
  BY DEF Wrote, Live
<1>2. lock \in Int /\ (lock = Cardinality(Live) \/ lock = -Cardinality(Live)) /\ Cardinality(Live) \in Nat
  BY AliveFinite DEF IInv, LockCounts
<1>3. Altered' <=> Cardinality(Live) # 0
  BY <1>2 DEF Altered, Wrote, WriteOn
<1>4. Altered' <=> Live # {}
  BY <1>3, AliveFinite, FS_EmptySet
<1>5. Altered' = (Live # {})
  BY <1>4 DEF Altered
<1>6. Altered' => Positions' = NothingCounted
  BY DEF Positions, NothingCounted
<1>7. ASSUME ~Altered' PROVE Positions' = Positions
  <2>1. \A it \in Iterators : ~its[it].alive /\ its'[it] = its[it]
    BY <1>4, <1>7 DEF Live, Wrote
  <2>2. Positions' = [it \in Iterators |-> 0] /\ Positions = [it \in Iterators |-> 0]
    BY <2>1 DEF Positions
  <2> QED BY <2>2
<1> QED BY <1>1, <1>5, <1>6, <1>7

\* one begins at the header, or before the first number;
LEMMA StartView ==
    ASSUME IInv, NEW it \in Iterators, NEW curr, UNCHANGED <<nodes, count, range>>,
           its' = [its EXCEPT ![it] = [alive |-> TRUE, curr |-> curr]],
           lock' = LockOn(Disposed(it))
    PROVE  /\ Live' = Live \cup {it} /\ Altered' = (Altered /\ Live \ {it} # {})
           /\ Positions' = [Positions EXCEPT ![it] = IF Altered' THEN 0 ELSE Position(curr)]
<1>0. /\ Live' = Live \cup {it} /\ its'[it] = [alive |-> TRUE, curr |-> curr]
      /\ \A jt \in Iterators \ {it} : its'[jt] = its[jt]
      /\ lock' < 0 <=> lock < 0 /\ Live \ {it} # {}
  BY Started
<1>1. /\ Live' = Live \cup {it} /\ its'[it].alive /\ its'[it].curr = curr
      /\ \A jt \in Iterators \ {it} : its'[jt] = its[jt]
      /\ lock' < 0 <=> lock < 0 /\ Live \ {it} # {}
  BY <1>0
<1>2. Altered' = (Altered /\ Live \ {it} # {})
  BY <1>1 DEF Altered
<1>3. \A c : Position(c)' = Position(c)
  BY PositionStays
<1>4. Positions' = [jt \in Iterators |-> IF Altered' \/ ~its'[jt].alive THEN 0 ELSE Position(its'[jt].curr)]
  BY <1>3 DEF Positions
<1>5. ASSUME NEW jt \in Iterators \ {it} PROVE Positions'[jt] = Positions[jt]
  <2>1. Altered /\ ~Altered' => ~its[jt].alive
    BY <1>2 DEF Live
  <2>2. Altered' => Altered
    BY <1>2
  <2>3. Positions'[jt] = IF Altered' \/ ~its[jt].alive THEN 0 ELSE Position(its[jt].curr)
    BY <1>1, <1>4
  <2>4. Positions[jt] = IF Altered \/ ~its[jt].alive THEN 0 ELSE Position(its[jt].curr)
    BY DEF Positions
  <2> QED BY <2>1, <2>2, <2>3, <2>4
<1>6. Positions'[it] = IF Altered' THEN 0 ELSE Position(curr)
  BY <1>1, <1>4
<1> DEFINE v == IF Altered' THEN 0 ELSE Position(curr)
<1>7. Positions' = [Positions EXCEPT ![it] = v]
  <2>1. Positions = [jt \in Iterators |-> Positions[jt]]
    BY DEF Positions
  <2>2. Positions' = [jt \in Iterators |-> Positions'[jt]]
    BY <1>4
  <2> QED BY <1>5, <1>6, <2>1, <2>2, OneSet
<1> QED BY <1>1, <1>2, <1>7

\* one goes, and with the last one the memory of a change;
LEMMA EndView ==
    ASSUME IInv, NEW it \in Iterators, UNCHANGED <<nodes, count, range>>,
           its' = [its EXCEPT ![it] = Gone], lock' = Disposed(it)
    PROVE  /\ Live' = Live \ {it} /\ Altered' = (Altered /\ Live \ {it} # {})
           /\ Positions' = [Positions EXCEPT ![it] = 0]
<1>1. /\ Live' = Live \ {it} /\ ~its'[it].alive
      /\ \A jt \in Iterators \ {it} : its'[jt] = its[jt]
      /\ lock' < 0 <=> lock < 0 /\ Live \ {it} # {}
  BY Ended
<1>2. Altered' = (Altered /\ Live \ {it} # {})
  BY <1>1 DEF Altered
<1>3. Positions' = [jt \in Iterators |-> IF Altered' \/ ~its'[jt].alive THEN 0 ELSE Position(its'[jt].curr)]
  <2>1. \A c : Position(c)' = Position(c)
    BY PositionStays
  <2> QED BY <2>1 DEF Positions
<1>4. ASSUME NEW jt \in Iterators \ {it} PROVE Positions'[jt] = Positions[jt]
  <2>1. Altered /\ ~Altered' => ~its[jt].alive
    BY <1>2 DEF Live
  <2>2. Altered' => Altered
    BY <1>2
  <2>3. Positions'[jt] = IF Altered' \/ ~its[jt].alive THEN 0 ELSE Position(its[jt].curr)
    BY <1>1, <1>3
  <2>4. Positions[jt] = IF Altered \/ ~its[jt].alive THEN 0 ELSE Position(its[jt].curr)
    BY DEF Positions
  <2> QED BY <2>1, <2>2, <2>3, <2>4
<1>5. Positions'[it] = 0
  BY <1>1, <1>3
<1>6. Positions' = [Positions EXCEPT ![it] = 0]
  <2>1. Positions = [jt \in Iterators |-> Positions[jt]]
    BY DEF Positions
  <2>2. Positions' = [jt \in Iterators |-> Positions'[jt]]
    BY <1>3
  <2> QED BY <1>4, <1>5, <2>1, <2>2, OneSet
<1> QED BY <1>1, <1>2, <1>6

\* one moves.
LEMMA MoveView ==
    ASSUME IInv, NEW it \in Iterators, its[it].alive, NEW curr, UNCHANGED <<nodes, count, range, lock>>,
           its' = [its EXCEPT ![it].curr = curr]
    PROVE  /\ Live' = Live /\ Altered' = Altered
           /\ Positions' = [Positions EXCEPT ![it] = IF Altered THEN 0 ELSE Position(curr)]
<1>1. /\ its'[it].alive /\ its'[it].curr = curr
      /\ \A jt \in Iterators \ {it} : its'[jt] = its[jt]
  BY DEF IInv, Shape
<1>2. Live' = Live /\ Altered' = Altered
  BY <1>1 DEF Live, Altered
<1>3. Positions' = [jt \in Iterators |-> IF Altered \/ ~its'[jt].alive THEN 0 ELSE Position(its'[jt].curr)]
  <2>1. \A c : Position(c)' = Position(c)
    BY PositionStays
  <2> QED BY <1>2, <2>1 DEF Positions
<1>4. \A jt \in Iterators \ {it} : Positions'[jt] = Positions[jt]
  BY <1>1, <1>3 DEF Positions
<1> DEFINE v == IF Altered THEN 0 ELSE Position(curr)
<1>5. Positions'[it] = v
  BY <1>1, <1>3
<1>6. Positions' = [Positions EXCEPT ![it] = v]
  <2>1. Positions = [jt \in Iterators |-> Positions[jt]]
    BY DEF Positions
  <2>2. Positions' = [jt \in Iterators |-> Positions'[jt]]
    BY <1>3
  <2> HIDE DEF v
  <2> QED BY <1>4, <1>5, <2>1, <2>2, OneSet
<1> QED BY <1>2, <1>6

-----------------------------------------------------------------------------
(* Where an iterator of a list that has not changed is.                    *)

Standing(curr) ==
    IF range # <<>> THEN curr.kind = "number" /\ curr.at \in Int /\ curr.at >= range[1] - 1
    ELSE \/ curr.kind \in {"head", "end"}
         \/ (curr.kind = "node" /\ curr.at \in Chain(nodes))

\* The variable of FOR x IN l: the element itself, or for a range one of its own.
AtElement(curr, y) == IF range # <<>> THEN y = Null ELSE curr.kind = "node" /\ y = curr.at

\* An iterator at a node is at one place only.
LEMMA InChain ==
    ASSUME FilledOK(This), NEW curr, curr.kind = "node", curr.at \in Chain(nodes)
    PROVE  /\ Position(curr) \in 1..count /\ nodes[Position(curr)] = curr.at
           /\ \A k \in 1..count : nodes[k] = curr.at => k = Position(curr)
<1>1. DOMAIN nodes = 1..count /\ Len(nodes) = count /\ Distinct(nodes)
  BY ChainedIs DEF ChainOK
<1>2. Position(curr) = CHOOSE k \in 1..count : nodes[k] = curr.at
  BY <1>1 DEF Position
<1>3. \E k \in 1..count : nodes[k] = curr.at
  BY <1>1 DEF Chain
<1> QED BY <1>1, <1>2, <1>3 DEF Distinct

\* An iterator that counts through a range.
LEMMA InRangeIs ==
    ASSUME RangeOK, NEW curr, Standing(curr)
    PROVE  /\ curr.kind = "number" /\ curr.at \in Int /\ curr.at - range[1] + 1 \in Nat
           /\ Position(curr) = IF curr.at - range[1] + 1 > count THEN count + 1
                               ELSE curr.at - range[1] + 1
<1>1. curr.kind = "number" /\ curr.at \in Int /\ curr.at >= range[1] - 1 /\ range[1] \in Int /\ count \in Int
  BY MaxNodesAssumption DEF Standing, RangeOK
<1>2. Sgn(count) = 1 /\ RangeLength = count
  BY RangedIs
<1>3. Position(curr) = LET p == Sgn(count) * (curr.at - range[1]) + 1 IN
                       IF p > RangeLength THEN RangeLength + 1 ELSE p
  BY <1>1 DEF Position
<1> DEFINE p == Sgn(count) * (curr.at - range[1]) + 1
<1>4. p = curr.at - range[1] + 1
  BY <1>1, <1>2
<1> HIDE DEF p
<1>5. Position(curr) = IF p > count THEN count + 1 ELSE p
  BY <1>2, <1>3 DEF p
<1> QED BY <1>1, <1>4, <1>5

\* What Current gives is the element that the moves count to.
LEMMA HereIs ==
    ASSUME ListOK, NEW curr, Standing(curr)
    PROVE  /\ Position(curr) \in 0..(Len(Contents) + 1)
           /\ Position(curr) \in 1..Len(Contents) => Here(curr) = Value(Contents[Position(curr)])
           /\ Past(curr) <=> Position(curr) > Len(Contents)
           /\ range = <<>> /\ Position(curr) \in 1..Len(Contents) =>
                 /\ curr.kind = "node" /\ curr.at \in Node /\ curr.at = nodes[Position(curr)]
                 /\ curr.at \in Chain(nodes)
<1>1. CASE RangeOK
  <2> DEFINE p == curr.at - range[1] + 1
  <2>1. /\ range # <<>> /\ curr.kind = "number" /\ curr.at \in Int /\ p \in Nat /\ range[1] \in Int
        /\ Position(curr) = IF p > count THEN count + 1 ELSE p
    BY <1>1, InRangeIs DEF RangeOK
  <2>2. /\ count \in Nat /\ Len(Contents) = count /\ Sgn(count) = 1 /\ RangeLength = count
        /\ \A k \in 1..count : Contents[k] = range[1] + (k - 1)
    BY <1>1, RangedIs, MaxNodesAssumption DEF RangeOK
  <2>3. Here(curr) = Value(curr.at)
    BY <2>1 DEF Here
  <2>4. Past(curr) <=> 1 * (curr.at - range[1]) >= count
    BY <2>1, <2>2 DEF Past
  <2>5. 1 * (curr.at - range[1]) = p - 1 /\ curr.at = range[1] + (p - 1)
    BY <2>1
  <2> HIDE DEF p
  <2>6. p \in 1..count => Contents[p] = curr.at
    BY <2>2, <2>5
  <2>7. Position(curr) \in 1..count => Position(curr) = p
    BY <2>1, <2>2
  <2>8. Position(curr) \in 0..count + 1 /\ (Position(curr) > count <=> p > count)
    BY <2>1, <2>2
  <2>9. Past(curr) <=> p > count
    BY <2>1, <2>2, <2>4, <2>5
  <2>10. Position(curr) \in 1..count => Here(curr) = Value(Contents[Position(curr)])
    BY <2>3, <2>6, <2>7
  <2> QED BY <2>1, <2>2, <2>8, <2>9, <2>10
<1>2. CASE FilledOK(This)
  <2>1. /\ range = <<>> /\ count \in Nat /\ Len(Contents) = count
        /\ DOMAIN nodes = 1..count /\ Len(nodes) = count
        /\ \A k \in 1..count : nodes[k] \in Node /\ Contents[k] = data[nodes[k]]
    BY <1>2, ChainedIs
  <2>2. CASE curr.kind = "node" /\ curr.at \in Chain(nodes)
    <3> DEFINE k == Position(curr)
    <3>1. k \in 1..count /\ nodes[k] = curr.at
      BY <1>2, <2>2, InChain
    <3>2. Here(curr) = Value(data[curr.at]) /\ ~Past(curr)
      BY <2>1, <2>2 DEF Here, Past
    <3> HIDE DEF k
    <3>3. ~(k > count) /\ k \in 0..count + 1
      BY <2>1, <3>1
    <3> QED BY <2>1, <2>2, <3>1, <3>2, <3>3 DEF k
  <2>3. CASE curr.kind = "head"
    <3>1. Position(curr) = 0 /\ ~Past(curr)
      BY <2>3 DEF Position, Past
    <3> QED BY <2>1, <3>1
  <2>4. CASE curr.kind = "end"
    <3>1. Position(curr) = count + 1 /\ Past(curr)
      BY <2>1, <2>4 DEF Position, Past
    <3> QED BY <2>1, <3>1
  <2> QED BY <2>1, <2>2, <2>3, <2>4 DEF Standing
<1> QED BY <1>1, <1>2 DEF ListOK

\* A new iterator has not moved yet.
LEMMA BegunIs ==
    ASSUME ListOK
    PROVE  Standing(Begun) /\ Position(Begun) = 0
<1>1. CASE RangeOK
  <2>1. range # <<>> /\ range[1] \in Int /\ count \in Nat /\ Sgn(count) = 1
    BY <1>1, RangedIs, MaxNodesAssumption DEF RangeOK
  <2>2. Begun = AtNumber(range[1] - Sgn(count))
    BY <2>1 DEF Begun
  <2>3. Begun.kind = "number" /\ Begun.at = range[1] - 1
    BY <2>1, <2>2 DEF AtNumber
  <2>4. Standing(Begun)
    BY <2>1, <2>3 DEF Standing
  <2>5. Begun.at - range[1] + 1 = 0
    BY <2>1, <2>3
  <2> QED BY <1>1, <2>1, <2>4, <2>5, InRangeIs
<1>2. CASE FilledOK(This)
  <2>1. Begun = Start("head") /\ range = <<>>
    BY <1>2, ChainedIs DEF Begun
  <2> QED BY <2>1 DEF Standing, Position, Start
<1> QED BY <1>1, <1>2 DEF ListOK

\* _move_list_it_next counts one on, up to the end.
LEMMA OnwardIs ==
    ASSUME ListOK, NEW curr, Standing(curr)
    PROVE  /\ Standing(Onward(curr))
           /\ Position(Onward(curr)) = IF Position(curr) > Len(Contents) THEN Position(curr)
                                       ELSE Position(curr) + 1
<1> DEFINE next == Onward(curr)
<1>1. CASE RangeOK
  <2>1. range # <<>> /\ range[1] \in Int /\ count \in Nat /\ Sgn(count) = 1 /\ Len(Contents) = count
    BY <1>1, RangedIs, MaxNodesAssumption DEF RangeOK
  <2>2. next = AtNumber(curr.at + Sgn(count))
    BY <2>1 DEF Onward
  <2>3. next.kind = "number" /\ next.at = curr.at + 1
    BY <2>1, <2>2 DEF AtNumber
  <2> DEFINE p == curr.at - range[1] + 1
             q == next.at - range[1] + 1
  <2>4. curr.at \in Int /\ p \in Nat /\ Position(curr) = IF p > count THEN count + 1 ELSE p
    BY <1>1, InRangeIs
  <2>5. q = p + 1 /\ next.at >= range[1] - 1 /\ next.at \in Int
    BY <2>1, <2>3, <2>4
  <2> HIDE DEF next
  <2>6. Standing(next)
    BY <2>1, <2>3, <2>5 DEF Standing
  <2>7. Position(next) = IF q > count THEN count + 1 ELSE q
    BY <1>1, <2>6, InRangeIs
  <2> HIDE DEF p, q
  <2>8. Position(next) = IF Position(curr) > count THEN Position(curr) ELSE Position(curr) + 1
    BY <2>1, <2>4, <2>5, <2>7
  <2> QED BY <2>1, <2>6, <2>8 DEF next
<1>2. CASE FilledOK(This)
  <2>1. /\ range = <<>> /\ count \in Nat /\ Len(Contents) = count
        /\ DOMAIN nodes = 1..count /\ Len(nodes) = count
        /\ Distinct(nodes)
    BY <1>2, ChainedIs DEF ChainOK
  <2>2. Standing(AtEnd) /\ Position(AtEnd) = count + 1
    BY <2>1 DEF Standing, Position, AtEnd, Start
  <2>3. ASSUME NEW k \in 1..count PROVE Standing(AtNode(nodes[k])) /\ Position(AtNode(nodes[k])) = k
    <3> DEFINE c == AtNode(nodes[k])
    <3>1. c.kind = "node" /\ c.at = nodes[k] /\ c.at \in Chain(nodes)
      BY <2>1 DEF AtNode, Chain
    <3> HIDE DEF c
    <3>2. Position(c) = k
      BY <1>2, <3>1, InChain
    <3> QED BY <2>1, <3>1, <3>2 DEF Standing, c
  <2>4. CASE curr.kind = "head"
    <3>1. Position(curr) = 0 /\ next = IF 1 \in DOMAIN nodes THEN AtNode(nodes[1]) ELSE AtEnd
      BY <2>1, <2>4 DEF Position, Onward
    <3>2. CASE 1 \in DOMAIN nodes
      <4>1. 1 \in 1..count
        BY <2>1, <3>2
      <4> QED BY <2>1, <2>3, <3>1, <3>2, <4>1
    <3>3. CASE 1 \notin DOMAIN nodes
      <4>1. count = 0
        BY <2>1, <3>3
      <4> QED BY <2>1, <2>2, <3>1, <3>3, <4>1
    <3> QED BY <3>2, <3>3
  <2>5. CASE curr.kind = "node" /\ curr.at \in Chain(nodes)
    <3> DEFINE k == Position(curr)
    <3>1. k \in 1..count /\ nodes[k] = curr.at /\ \A j \in 1..count : nodes[j] = curr.at => j = k
      BY <1>2, <2>5, InChain
    <3>2. next = IF Linked(curr.at) = {} THEN AtEnd ELSE AtNode(CHOOSE m \in Linked(curr.at) : TRUE)
      BY <2>1, <2>5 DEF Onward, NodeAfter
    <3> HIDE DEF k, next
    <3>3. CASE k = count
      <4>1. Linked(curr.at) = {}
        BY <2>1, <3>1, <3>3 DEF Linked
      <4>2. ~(k > count) /\ k + 1 = count + 1
        BY <2>1, <3>3
      <4> QED BY <2>1, <2>2, <3>2, <4>1, <4>2 DEF k, next
    <3>4. CASE k # count
      <4>1. k + 1 \in 1..count /\ ~(k > count)
        BY <2>1, <3>1, <3>4
      <4>2. Linked(curr.at) = {nodes[k + 1]}
        BY <2>1, <3>1, <4>1 DEF Linked
      <4>3. next = AtNode(nodes[k + 1])
        BY <3>2, <4>2
      <4> QED BY <2>1, <2>3, <4>1, <4>3 DEF k, next
    <3> QED BY <3>3, <3>4
  <2>6. CASE curr.kind = "end"
    <3>1. Position(curr) = count + 1 /\ next = AtEnd
      BY <2>1, <2>6 DEF Position, Onward
    <3> QED BY <2>1, <2>2, <3>1
  <2> QED BY <2>1, <2>4, <2>5, <2>6 DEF Standing
<1> QED BY <1>1, <1>2 DEF ListOK

-----------------------------------------------------------------------------
(* What holds of the iterators, and what the abstract list makes of a      *)
(* statement that reads and of one that writes.                            *)

ItsOK ==
    lock >= 0 =>
        /\ \A it \in Iterators : its[it].alive => Standing(its[it].curr)
        /\ Loop.alive => AtElement(Loop.curr, x)
SInv == IInv /\ ListOK /\ ItsOK

\* The iterators stand where they did,
LEMMA KeptIts == ItsOK /\ Kept => ItsOK'
BY DEF ItsOK, Kept, Standing, AtElement, Loop, Chain

\* or may not move any more.
LEMMA WroteIts ==
    ASSUME IInv, Wrote
    PROVE  ItsOK'
<1>1. CASE lock = 0
  <2>1. Live = {} /\ its' = its
    BY <1>1, UnlockedNone DEF IInv, Wrote
  <2>2. \A it \in Iterators : ~its'[it].alive
    BY <2>1 DEF Live
  <2> QED BY <2>2, IteratorsAssumption DEF ItsOK, Loop
<1>2. CASE lock # 0
  <2>1. ~(lock' >= 0)
    BY <1>2 DEF IInv, LockCounts, Wrote, WriteOn
  <2> QED BY <2>1 DEF ItsOK
<1> QED BY <1>1, <1>2

\* A statement that leaves the elements is one that reads.
LEMMA Reading ==
    ASSUME IInv, ListOK, Kept \/ Wrote, NEW a, answer' = a, Contents' = Contents
    PROVE  Abstract!Reads(a)
<1>1. Live' = Live
  BY KeptView, WroteView
<1>2. Altered' \in {Altered, Live # {}}
  BY KeptView, WroteView
<1>3. Positions' = IF Altered' THEN Abstract!Zero ELSE Positions
  <2>1. Altered => Positions = NothingCounted
    BY DEF Positions, NothingCounted
  <2> QED BY <2>1, KeptView, WroteView DEF Abstract!Zero, NothingCounted
<1> QED BY <1>1, <1>2, <1>3 DEF Abstract!Reads, Abstract!Touched, Abstract!Forgotten

\* A statement that marks the lock is one that writes.
LEMMA Writing ==
    ASSUME IInv, Wrote
    PROVE  Abstract!Written
BY WroteView DEF Abstract!Written, Abstract!Forgotten, Abstract!Zero, NothingCounted

\* The answers are those of the abstract list.
LEMMA Answers ==
    /\ \A v : Abstract!Values(v) = Values(v) /\ Abstract!Value(v) = Value(v)
    /\ \A c : Abstract!Truth(c) = Truth(c) /\ Abstract!Just(c) = Just(c)
    /\ Abstract!Running <=> Running
    /\ Abstract!Length = Len(Contents)
BY DEF Abstract!Values, Values, Abstract!Value, Value, Abstract!Truth, Truth, Abstract!Just, Just,
       Abstract!Running, Running, Fatal, Abstract!Length

-----------------------------------------------------------------------------
(* The statements that read.                                               *)

\* LEN.
LEMMA LengthIs ==
    ASSUME SInv, Length
    PROVE  ListOK' /\ ItsOK' /\ Abstract!Next
<1>1. Kept /\ cache' = cache /\ data' = data /\ answer' = Value(count) /\ Running /\ call' = [op |-> "len"]
  BY DEF Length, Finish, Become, This, FreesNone, Kept, Call
<1>2. ListOK' /\ Contents' = Contents
  BY <1>1 DEF SInv, Kept, ListOK, FilledOK, RangeOK, This, Contents, RangeLength, InRange
<1>3. Len(Contents) = count
  BY Filling DEF SInv
<1>4. Abstract!Reads(Value(Len(Contents)))
  BY <1>1, <1>2, <1>3, Reading DEF SInv
<1>5. Abstract!Access(call')
  BY <1>1, <1>4, Answers DEF Abstract!Access
<1> QED BY <1>1, <1>2, <1>5, KeptIts, Answers DEF SInv, Abstract!Next

\* A statement that looks at the chain once it is there, and leaves it.
LEMMA FilledRead ==
    ASSUME SInv, NEW c, FilledOK(c), NEW a, Finish(c, a), FreesNone,
           c.nodes = FillRanged.nodes, c.data = FillRanged.data, c.count = FillRanged.count,
           c.range = FillRanged.range, c.lock = FillRanged.lock
    PROVE  ListOK' /\ ItsOK' /\ Abstract!Reads(a)
<1>1. Kept \/ Wrote
  BY FillFinish
<1>2. ListOK' /\ Contents' = Elements(c.nodes, c.data)
  BY Left DEF Finish
<1>3. Contents' = Contents
  BY <1>2, Filling DEF SInv
<1> QED BY <1>1, <1>2, <1>3, KeptIts, WroteIts, Reading DEF SInv, Finish

\* GET, l(i).
LEMMA GetIs ==
    ASSUME SInv, NEW i \in Int, Get(i)
    PROVE  ListOK' /\ ItsOK' /\ Abstract!Next
<1> DEFINE c == FillRanged
           l == LookedUp(c, i)
<1>1. /\ Running /\ call' = [op |-> "get", i |-> i] /\ FreesNone
      /\ IF InBounds(c, i) THEN Finish(l, Value(c.data[Found(c, i)])) ELSE Finish(c, Just("index"))
  BY DEF Get, Call
<1>2. /\ FilledOK(c) /\ Elements(c.nodes, c.data) = Contents
      /\ Len(Contents) = c.count /\ c.count \in Nat
  BY Filling DEF SInv
<1>3. InBounds(c, i) <=> Abstract!Has(i)
  BY <1>2, Answers DEF InBounds, Abstract!Has
<1>4. CASE ~InBounds(c, i)
  <2>1. ListOK' /\ ItsOK' /\ Abstract!Reads(Just("index"))
    <3> HIDE DEF c
    <3>1. c = FillRanged
      BY DEF c
    <3> QED BY <1>1, <1>2, <1>4, <3>1, FilledRead
  <2>2. Abstract!Access(call')
    BY <1>1, <1>3, <1>4, <2>1, Answers DEF Abstract!Access
  <2> QED BY <1>1, <2>1, <2>2, Answers DEF Abstract!Next
<1>5. CASE InBounds(c, i)
  <2>1. i \in 0..(c.count - 1)
    BY <1>5 DEF InBounds
  <2>2. Found(c, i) = c.nodes[i + 1] /\ i + 1 \in 1..Len(c.nodes)
    BY <1>2, <2>1, FoundIs
  <2>3. c.data[Found(c, i)] = Contents[i + 1]
    BY <1>2, <2>2 DEF Elements
  <2>4. FilledOK(l) /\ l.nodes = c.nodes /\ l.data = c.data
    <3>1. c = [nodes |-> c.nodes, data |-> c.data, count |-> c.count, range |-> c.range,
                cache |-> c.cache, lock |-> c.lock]
      BY DEF FillRanged, This, Written
    <3> HIDE DEF c
    <3> QED BY <1>2, <2>1, <3>1, LookedUpIs
  <2>5. l.count = c.count /\ l.range = c.range /\ l.lock = c.lock
    BY DEF LookedUp
  <2>6. ListOK' /\ ItsOK' /\ Abstract!Reads(Value(Contents[i + 1]))
    <3> HIDE DEF l
    <3> QED BY <1>1, <1>5, <2>3, <2>4, <2>5, FilledRead
  <2>7. Abstract!Access(call')
    BY <1>1, <1>3, <1>5, <2>6, Answers DEF Abstract!Access
  <2> QED BY <1>1, <2>6, <2>7, Answers DEF Abstract!Next
<1> QED BY <1>4, <1>5

\* EXISTS and INDEX_OF look at every element.
LEMMA WithIs ==
    ASSUME SInv, NEW v
    PROVE  With(FillRanged, v) = {k \in 1..Len(Contents) : Contents[k] = v}
<1> DEFINE c == FillRanged
<1>1. Elements(c.nodes, c.data) = Contents /\ Len(Contents) = count /\ Len(c.nodes) = count
  BY Filling DEF SInv
<1>2. \A k \in 1..count : Contents[k] = c.data[c.nodes[k]]
  BY <1>1 DEF Elements
<1> HIDE DEF c
<1> QED BY <1>1, <1>2 DEF With, c

\* EXISTS.
LEMMA ExistsIs ==
    ASSUME SInv, NEW v, Exists(v)
    PROVE  ListOK' /\ ItsOK' /\ Abstract!Next
<1> DEFINE c == FillRanged
           a == Truth(With(c, v) # {})
<1>1. /\ Running /\ call' = [op |-> "exists", v |-> v] /\ FreesNone /\ Finish(c, a)
  BY DEF Exists, Call
<1>2. FilledOK(c)
  BY Filling DEF SInv
<1>3. a = Truth(\E k \in 1..Len(Contents) : Contents[k] = v)
  <2>1. (With(c, v) # {}) = (\E k \in 1..Len(Contents) : Contents[k] = v)
    BY WithIs
  <2> QED BY <2>1
<1>4. ListOK' /\ ItsOK' /\ Abstract!Reads(a)
  <2> HIDE DEF a
  <2> QED BY <1>1, <1>2, FilledRead
<1>5. Abstract!Access(call')
  BY <1>1, <1>3, <1>4, Answers DEF Abstract!Access
<1> QED BY <1>1, <1>4, <1>5, Answers DEF Abstract!Next

\* INDEX_OF.
LEMMA IndexOfIs ==
    ASSUME SInv, NEW v, IndexOf(v)
    PROVE  ListOK' /\ ItsOK' /\ Abstract!Next
<1> DEFINE c == FillRanged
           found == With(c, v)
           a == IF found = {} THEN Just("end")
                ELSE Value((CHOOSE k \in found : \A m \in found : k <= m) - 1)
<1>1. /\ Running /\ call' = [op |-> "indexof", v |-> v] /\ FreesNone /\ Finish(c, a)
  BY DEF IndexOf, Call
<1>2. FilledOK(c)
  BY Filling DEF SInv
<1>3. found = {k \in 1..Len(Contents) : Contents[k] = v}
  BY WithIs
<1> HIDE DEF found
<1>4. ListOK' /\ ItsOK' /\ Abstract!Reads(a)
  <2> HIDE DEF a
  <2> QED BY <1>1, <1>2, FilledRead
<1> DEFINE places == {k \in 1..Abstract!Length : Contents[k] = call'.v}
           b == IF places = {} THEN Abstract!Just("end")
                ELSE Abstract!Value((CHOOSE k \in places : \A m \in places : k <= m) - 1)
<1>5. a = b
  <2>1. places = found
    BY <1>1, <1>3, Answers
  <2> HIDE DEF places
  <2> QED BY <2>1, Answers
<1>6. Abstract!Reads(b)
  BY <1>4, <1>5
<1>7. Abstract!Access(call')
  <2>1. call'.op = "indexof"
    BY <1>1
  <2> QED BY <1>6, <2>1 DEF Abstract!Access
<1> QED BY <1>1, <1>4, <1>7, Answers DEF Abstract!Next

\* The statements that look at the chain only, once it is there.
LEMMA PlainRead ==
    ASSUME SInv, NEW a, Finish(This, a), FreesNone
    PROVE  ListOK' /\ ItsOK' /\ Abstract!Reads(a)
<1>1. Kept /\ cache' = cache /\ data' = data /\ answer' = a
  BY DEF Finish, Become, This, FreesNone, Kept
<1>2. ListOK' /\ Contents' = Contents
  BY <1>1 DEF SInv, Kept, ListOK, FilledOK, RangeOK, This, Contents, RangeLength, InRange
<1> QED BY <1>1, <1>2, KeptIts, Reading DEF SInv

\* What the fields of a list with a chain are.
LEMMA Chained ==
    ASSUME SInv, range = <<>>
    PROVE  /\ FilledOK(This) /\ Len(nodes) = Len(Contents) /\ Len(Contents) = count /\ count \in Nat
           /\ \A k \in 1..count : Contents[k] = data[nodes[k]]
           /\ Contents = [k \in 1..count |-> data[nodes[k]]] /\ (nodes = <<>> <=> count = 0)
<1>1. FilledOK(This)
  BY DEF SInv, ListOK, RangeOK
<1>2. nodes \in Seq(Node) /\ count = Len(nodes) /\ Len(Contents) = count /\ count \in Nat
  BY <1>1, ChainedIs DEF ChainOK
<1>3. nodes = <<>> <=> count = 0
  BY <1>2, EmptySeq
<1> QED BY <1>1, <1>2, <1>3, ChainedIs DEF Contents

\* BACK.
LEMMA BackIs ==
    ASSUME SInv, Back, FilledFirst
    PROVE  ListOK' /\ ItsOK' /\ Abstract!Next
<1> DEFINE a == IF nodes = <<>> THEN Just("empty") ELSE Value(data[nodes[Len(nodes)]])
<1>1. /\ Running /\ call' = [op |-> "back"] /\ FreesNone /\ Finish(This, a)
  BY DEF Back, Call
<1>2. range = <<>>
  BY <1>1 DEF FilledFirst
<1>3. a = IF Len(Contents) = 0 THEN Just("empty") ELSE Value(Contents[Len(Contents)])
  BY <1>2, Chained
<1>4. ListOK' /\ ItsOK' /\ Abstract!Reads(a)
  <2> HIDE DEF a
  <2> QED BY <1>1, PlainRead
<1>5. Abstract!Access(call')
  BY <1>1, <1>3, <1>4, Answers DEF Abstract!Access
<1> QED BY <1>1, <1>4, <1>5, Answers DEF Abstract!Next

\* CLONE and TO_ARRAY.
LEMMA CopyIs ==
    ASSUME SInv, Clone \/ ToArray, FilledFirst
    PROVE  ListOK' /\ ItsOK' /\ Abstract!Next
<1>1. /\ Running /\ call' \in {[op |-> "clone"], [op |-> "toarray"]} /\ FreesNone
  BY DEF Clone, ToArray, Call
<1>2. range = <<>>
  BY <1>1 DEF FilledFirst
<1>3. /\ Len(nodes) = count /\ count \in Nat
      /\ Contents = [k \in 1..count |-> data[nodes[k]]]
  BY <1>2, Chained
<1>4. [k \in 1..count |-> IF k <= Len(nodes) THEN data[nodes[k]] ELSE 0] = Contents
  BY <1>3
<1>5. Finish(This, Values(Contents))
  BY <1>3, <1>4 DEF Clone, ToArray
<1>6. ListOK' /\ ItsOK' /\ Abstract!Reads(Values(Contents))
  BY <1>1, <1>5, PlainRead
<1>7. Abstract!Access(call')
  <2>1. call'.op = "clone" \/ call'.op = "toarray"
    BY <1>1
  <2>2. Abstract!Reads(Abstract!Values(Contents))
    BY <1>6, Answers
  <2> QED BY <2>1, <2>2 DEF Abstract!Access
<1> QED BY <1>1, <1>6, <1>7, Answers DEF Abstract!Next

-----------------------------------------------------------------------------
(* The statements that write.                                              *)

\* An element is put in at the end.
LEMMA AppendIs ==
    ASSUME NEW S, NEW s \in Seq(S), NEW e \in S
    PROVE  Append(s, e) = PutIn(s, Len(s), e)
<1>1. PICK i \in 0..Len(s) : i = Len(s)
  <2>1. Len(s) \in 0..Len(s)
    BY LenProperties
  <2> QED BY <2>1
<1> DEFINE n == Len(s)
           t == PutIn(s, i, e)
           u == Append(s, e)
<1>2. /\ t \in Seq(S) /\ Len(t) = n + 1
      /\ \A k \in 1..(n + 1) : t[k] = IF k <= i THEN s[k] ELSE IF k = i + 1 THEN e ELSE s[k - 1]
  BY PutAt
<1>3. u \in Seq(S) /\ Len(u) = n + 1 /\ u[n + 1] = e /\ \A k \in 1..n : u[k] = s[k]
  BY AppendProperties
<1>4. n \in Nat /\ i = n
  BY <1>1, LenProperties
<1> HIDE DEF n, t, u
<1>5. \A k \in 1..(n + 1) : t[k] = u[k]
  BY <1>2, <1>3, <1>4
<1>6. t = u
  BY <1>2, <1>3, <1>5, SeqEqual
<1> QED BY <1>1, <1>6 DEF t, u

\* The last element goes.
LEMMA CutLast ==
    ASSUME NEW S, NEW s \in Seq(S), Len(s) # 0
    PROVE  Len(s) \in 1..Len(s) /\ SubSeq(s, 1, Len(s) - 1) = CutOut(s, Len(s))
<1> DEFINE n == Len(s)
           t == CutOut(s, n)
           u == SubSeq(s, 1, n - 1)
<1>1. n \in Nat /\ n \in 1..n /\ \A k \in 1..n : s[k] \in S
  <2>1. n \in Nat /\ \A k \in 1..n : s[k] \in S
    BY LenProperties, ElementOfSeq
  <2> QED BY <2>1
<1>2. /\ t \in Seq(S) /\ Len(t) = n - 1
      /\ \A k \in 1..(n - 1) : t[k] = IF k < n THEN s[k] ELSE s[k + 1]
  BY <1>1, CutAt
<1>3. /\ u \in Seq(S) /\ Len(u) = (IF 1 <= n - 1 THEN n - 1 - 1 + 1 ELSE 0)
      /\ \A k \in 1..n - 1 - 1 + 1 : u[k] = s[1 + k - 1]
  <2> HIDE DEF n
  <2>1. n - 1 \in Int /\ \A k \in 1..n - 1 : s[k] \in S
    BY <1>1
  <2> QED BY <2>1, SubSeqProperties
<1> HIDE DEF n, t, u
<1>4. Len(u) = n - 1 /\ \A k \in 1..(n - 1) : t[k] = u[k]
  BY <1>1, <1>2, <1>3
<1> QED BY <1>1, <1>2, <1>3, <1>4, SeqEqual DEF n, t, u

\* malloc gives a node that is not in the list.
LEMMA NewNodeIs ==
    ASSUME SInv, HasMemory
    PROVE  NewNode \in Node /\ NewNode \notin Chain(FillRanged.nodes)
<1>1. CASE range = <<>>
  <2> DEFINE S == Node \ Referred
  <2>1. S # {} /\ NewNode = CHOOSE n \in S : \A m \in S : n <= m
    BY <1>1 DEF HasMemory, NewNode, Unused
  <2>2. S \subseteq Nat
    BY DEF Node
  <2>3. Chain(FillRanged.nodes) \subseteq Referred
    BY <1>1 DEF FillRanged, This, Referred
  <2> HIDE DEF S
  <2>4. NewNode \in S
    BY <2>1, <2>2, LeastOf
  <2> QED BY <2>3, <2>4 DEF S
<1>2. CASE range # <<>>
  <2>1. RangeOK
    BY <1>2, ChainedIs DEF SInv, ListOK
  <2>2. RangeLength = count /\ count \in 1..MaxNodes /\ MaxNodes \in Nat
    BY <2>1, RangedIs, MaxNodesAssumption DEF RangeOK
  <2>3. NewNode = count + 1 /\ count + 1 \in Node
    BY <1>2, <2>2 DEF NewNode, HasMemory, Node
  <2>4. FillRanged.nodes = [k \in 1..count |-> k]
    BY <1>2, <2>2 DEF FillRanged, Written
  <2>5. count + 1 \notin 1..count
    BY <2>2
  <2> QED BY <2>3, <2>4, <2>5 DEF Chain
<1> QED BY <1>1, <1>2

\* A statement that writes, after it has filled the range.
LEMMA FilledWrite ==
    ASSUME SInv, NEW c, c \in {FillRanged, [This EXCEPT !.range = <<>>]}, c.range = <<>>,
           NEW s, ChainOK(s), NEW d \in [Node -> Int], NEW n, n = Len(s),
           NEW a, Finish(Written(c, s, d, n), a)
    PROVE  ListOK' /\ ItsOK' /\ Contents' = Elements(s, d) /\ Abstract!Written /\ answer' = a
<1>1. lock \in Int /\ c.lock \in {lock, WriteOn(lock)}
  BY FilledLock DEF SInv, IInv, LockCounts, This
<1>2. Wrote
  BY <1>1, WrittenFinish
<1> DEFINE w == Written(c, s, d, n)
<1>3. FilledOK(w) /\ w.nodes = s /\ w.data = d
  BY WrittenIs
<1>4. Become(w) /\ answer' = a
  BY DEF Finish
<1> HIDE DEF w
<1>5. ListOK' /\ Contents' = Elements(s, d)
  BY <1>3, <1>4, Left
<1> QED BY <1>2, <1>4, <1>5, WroteIts, Writing DEF SInv

\* What the statements find when the range is filled.
LEMMA FilledIs ==
    ASSUME SInv
    PROVE  /\ FilledOK(FillRanged) /\ FillRanged.range = <<>>
           /\ ChainOK(FillRanged.nodes) /\ FillRanged.nodes \in Seq(Node) /\ FillRanged.data \in [Node -> Int]
           /\ Elements(FillRanged.nodes, FillRanged.data) = Contents
           /\ Contents \in Seq(Int) /\ Len(Contents) = FillRanged.count
           /\ Len(FillRanged.nodes) = FillRanged.count /\ FillRanged.count \in Nat
BY Filling DEF SInv, FilledOK, ChainOK

\* PUSH.
LEMMA PushIs ==
    ASSUME SInv, NEW v \in Int, Push(v)
    PROVE  ListOK' /\ ItsOK' /\ Abstract!Next
<1> DEFINE c == FillRanged
           s == Append(c.nodes, NewNode)
           d == [c.data EXCEPT ![NewNode] = v]
<1>1. /\ Running /\ call' = [op |-> "push", v |-> v] /\ HasMemory
      /\ Finish(Written(c, s, d, c.count + 1), Just("none"))
  BY DEF Push, Call
<1>2. /\ c.range = <<>> /\ ChainOK(c.nodes) /\ c.nodes \in Seq(Node) /\ c.data \in [Node -> Int]
      /\ Elements(c.nodes, c.data) = Contents /\ Contents \in Seq(Int)
      /\ Len(Contents) = c.count /\ Len(c.nodes) = c.count /\ c.count \in Nat
  BY FilledIs
<1>3. NewNode \in Node /\ NewNode \notin Chain(c.nodes)
  BY <1>1, NewNodeIs
<1>4. s = PutIn(c.nodes, c.count, NewNode) /\ Append(Contents, v) = PutIn(Contents, c.count, v)
  <2> DEFINE Z == Int
  <2>1. v \in Z /\ Contents \in Seq(Z)
    BY <1>2
  <2> HIDE DEF Z, c
  <2> QED BY <1>2, <1>3, <2>1, AppendIs
<1>5. ChainOK(s) /\ Len(s) = c.count + 1 /\ d \in [Node -> Int] /\ Elements(s, d) = Append(Contents, v)
  <2> DEFINE ch == c.nodes
             da == c.data
             n == NewNode
  <2>1. ChainOK(ch) /\ da \in [Node -> Int] /\ n \in Node /\ n \notin Chain(ch)
    BY <1>2, <1>3
  <2>2. PICK i \in 0..Len(ch) : i = c.count
    BY <1>2
  <2> HIDE DEF c, s, d, ch, da, n
  <2>3. /\ ChainOK(PutIn(ch, i, n)) /\ Len(PutIn(ch, i, n)) = Len(ch) + 1
        /\ Rewritten(da, n, v) \in [Node -> Int]
        /\ Elements(PutIn(ch, i, n), Rewritten(da, n, v)) = PutIn(Elements(ch, da), i, v)
    BY <2>1, Linking
  <2> QED BY <1>2, <1>4, <2>2, <2>3 DEF Rewritten, ch, da, n, s, d
<1>6. /\ ListOK' /\ ItsOK' /\ Contents' = Append(Contents, v)
      /\ Abstract!Written /\ answer' = Just("none")
  <2>1. c = FillRanged
    OBVIOUS
  <2> HIDE DEF c, s, d
  <2> QED BY <1>1, <1>2, <1>5, <2>1, FilledWrite
<1>7. Abstract!Access(call')
  <2>1. Abstract!Writes(Append(Contents, v)) /\ answer' = Abstract!Just("none")
    BY <1>6, Answers DEF Abstract!Writes
  <2> QED BY <1>1, <2>1 DEF Abstract!Access
<1> QED BY <1>1, <1>6, <1>7, Answers DEF Abstract!Next

\* The element after which i others are left goes, with its node.
LEMMA CutIs ==
    ASSUME SInv, NEW i \in 1..Len(FillRanged.nodes), NEW a,
           Finish(Written(FillRanged, CutOut(FillRanged.nodes, i),
                          Zeroed(FillRanged.data, {FillRanged.nodes[i]}), FillRanged.count - 1), a)
    PROVE  ListOK' /\ ItsOK' /\ Contents' = CutOut(Contents, i) /\ Abstract!Written /\ answer' = a
<1> DEFINE c == FillRanged
           ch == c.nodes
           da == c.data
           s == CutOut(ch, i)
           d == Zeroed(da, {ch[i]})
<1>1. /\ c.range = <<>> /\ ChainOK(ch) /\ da \in [Node -> Int] /\ Elements(ch, da) = Contents
      /\ Len(ch) = c.count /\ i \in 1..Len(ch)
  BY FilledIs
<1>2. ChainOK(s) /\ Len(s) = c.count - 1 /\ d \in [Node -> Int] /\ Elements(s, d) = CutOut(Contents, i)
  <2>1. i \in 1..Len(ch)
    OBVIOUS
  <2> HIDE DEF c, ch, da
  <2>2. /\ ChainOK(s) /\ Len(s) = Len(ch) - 1 /\ d \in [Node -> Int]
        /\ Elements(s, d) = CutOut(Elements(ch, da), i)
    BY <1>1, <2>1, Unlinking
  <2> QED BY <1>1, <2>2
<1>3. Finish(Written(c, s, d, c.count - 1), a) /\ c = FillRanged
  OBVIOUS
<1> HIDE DEF c, s, d, ch, da
<1> QED BY <1>1, <1>2, <1>3, FilledWrite

\* POP.
LEMMA PopIs ==
    ASSUME SInv, Pop
    PROVE  ListOK' /\ ItsOK' /\ Abstract!Next
<1> DEFINE c == FillRanged
           ch == c.nodes
           n == Len(ch)
<1>1. Running /\ call' = [op |-> "pop"]
  BY DEF Pop, Call
<1>2. /\ FilledOK(c) /\ ch \in Seq(Node) /\ c.data \in [Node -> Int] /\ Elements(ch, c.data) = Contents
      /\ Contents \in Seq(Int) /\ Len(Contents) = n /\ n \in Nat
  BY FilledIs
<1>3. CASE n = 0
  <2>1. Finish(c, Just("empty")) /\ FreesNone
    BY <1>3 DEF Pop
  <2>2. ListOK' /\ ItsOK' /\ Abstract!Reads(Just("empty"))
    BY <1>2, <2>1, FilledRead
  <2>3. Abstract!Access(call')
    <3> HIDE DEF n
    <3> QED BY <1>1, <1>2, <1>3, <2>2, Answers DEF Abstract!Access
  <2> QED BY <1>1, <2>2, <2>3, Answers DEF Abstract!Next
<1>4. CASE n # 0
  <2>1. n \in 1..Len(ch) /\ SubSeq(ch, 1, n - 1) = CutOut(ch, n)
    BY <1>2, <1>4, CutLast
  <2>2. SubSeq(Contents, 1, n - 1) = CutOut(Contents, n)
    <3> DEFINE Z == Int
    <3>1. Contents \in Seq(Z) /\ Len(Contents) # 0
      BY <1>2, <1>4
    <3> HIDE DEF Z
    <3>2. SubSeq(Contents, 1, Len(Contents) - 1) = CutOut(Contents, Len(Contents))
      BY <3>1, CutLast
    <3> HIDE DEF n
    <3> QED BY <1>2, <3>2
  <2>3. Finish(Written(c, CutOut(ch, n), Zeroed(c.data, {ch[n]}), c.count - 1), Value(c.data[ch[n]]))
    BY <1>4, <2>1 DEF Pop
  <2>4. c.data[ch[n]] = Contents[n]
    BY <1>2, <2>1 DEF Elements
  <2>5. PICK i \in 1..Len(FillRanged.nodes) : i = n
    BY <2>1
  <2>6. Finish(Written(FillRanged, CutOut(FillRanged.nodes, i), Zeroed(FillRanged.data, {FillRanged.nodes[i]}),
                       FillRanged.count - 1), Value(Contents[n]))
    <3>1. i = n
      BY <2>5
    <3> HIDE DEF n
    <3> QED BY <2>3, <2>4, <3>1
  <2>7. ListOK' /\ ItsOK' /\ Contents' = CutOut(Contents, i)
        /\ Abstract!Written /\ answer' = Value(Contents[n])
    BY <2>6, CutIs
  <2>8. Abstract!Access(call')
    <3>1. i = n
      BY <2>5
    <3> HIDE DEF n
    <3>2. Abstract!Writes(SubSeq(Contents, 1, n - 1)) /\ answer' = Value(Contents[n])
      BY <2>2, <2>7, <3>1 DEF Abstract!Writes
    <3> QED BY <1>1, <1>2, <1>4, <3>2, Answers DEF Abstract!Access
  <2> QED BY <1>1, <2>7, <2>8, Answers DEF Abstract!Next
<1> QED BY <1>3, <1>4

\* The node at place i is unlinked.
LEMMA UnlinkedIs ==
    ASSUME NEW s, ChainOK(s), NEW i \in 1..Len(s)
    PROVE  Unlinked(s, s[i]) = CutOut(s, i)
<1>1. DOMAIN s = 1..Len(s) /\ Distinct(s)
  BY LenProperties DEF ChainOK
<1>2. (CHOOSE j \in DOMAIN s : s[j] = s[i]) = i
  BY <1>1 DEF Distinct
<1> QED BY <1>2 DEF Unlinked, CutOut

\* REMOVE.
LEMMA RemoveIs ==
    ASSUME SInv, NEW i \in Int, RemoveIndex(i)
    PROVE  ListOK' /\ ItsOK' /\ Abstract!Next
<1> DEFINE c == FillRanged
           ch == c.nodes
<1>1. Running /\ call' = [op |-> "remove", i |-> i]
  BY DEF RemoveIndex, Call
<1>2. /\ FilledOK(c) /\ ChainOK(ch) /\ Len(ch) = c.count
      /\ Len(Contents) = c.count /\ c.count \in Nat
  BY FilledIs
<1>3. InBounds(c, i) <=> Abstract!Has(i)
  BY <1>2, Answers DEF InBounds, Abstract!Has
<1>4. CASE ~InBounds(c, i)
  <2>1. Finish(c, Just("index")) /\ FreesNone
    BY <1>4 DEF RemoveIndex
  <2>2. ListOK' /\ ItsOK' /\ Abstract!Reads(Just("index"))
    BY <1>2, <2>1, FilledRead
  <2>3. Abstract!Access(call')
    BY <1>1, <1>3, <1>4, <2>2, Answers DEF Abstract!Access
  <2> QED BY <1>1, <2>2, <2>3, Answers DEF Abstract!Next
<1>5. CASE InBounds(c, i)
  <2>1. i \in 0..(c.count - 1)
    BY <1>5 DEF InBounds
  <2>2. Found(c, i) = ch[i + 1] /\ i + 1 \in 1..Len(ch)
    BY <1>2, <2>1, FoundIs
  <2>3. PICK j \in 1..Len(FillRanged.nodes) : j = i + 1
    BY <2>2
  <2>4. Finish(Written(c, Unlinked(ch, Found(c, i)), Zeroed(c.data, {Found(c, i)}), c.count - 1), Just("none"))
    BY <1>5 DEF RemoveIndex
  <2>5. Found(c, i) = ch[j] /\ j \in 1..Len(ch)
    BY <2>2, <2>3
  <2>6. Unlinked(ch, ch[j]) = CutOut(ch, j)
    <3> HIDE DEF ch
    <3> QED BY <1>2, <2>5, UnlinkedIs
  <2>7. Finish(Written(FillRanged, CutOut(FillRanged.nodes, j), Zeroed(FillRanged.data, {FillRanged.nodes[j]}),
                       FillRanged.count - 1), Just("none"))
    BY <2>4, <2>5, <2>6
  <2>8. ListOK' /\ ItsOK' /\ Contents' = CutOut(Contents, j) /\ Abstract!Written /\ answer' = Just("none")
    BY <2>7, CutIs
  <2>9. Abstract!Without(i + 1) = CutOut(Contents, j)
    BY <2>3 DEF Abstract!Without, CutOut, Abstract!Length
  <2>10. Abstract!Access(call')
    <3>1. Abstract!Writes(Abstract!Without(i + 1)) /\ answer' = Abstract!Just("none")
      BY <2>8, <2>9, Answers DEF Abstract!Writes
    <3> QED BY <1>1, <1>3, <1>5, <3>1 DEF Abstract!Access
  <2> QED BY <1>1, <2>8, <2>10, Answers DEF Abstract!Next
<1> QED BY <1>4, <1>5

\* INSERT.
LEMMA InsertIs ==
    ASSUME SInv, NEW i \in Int, NEW v \in Int, Insert(i, v)
    PROVE  ListOK' /\ ItsOK' /\ Abstract!Next
<1> DEFINE c == FillRanged
           ch == c.nodes
           da == c.data
           n == NewNode
<1>1. Running /\ call' = [op |-> "insert", i |-> i, v |-> v] /\ HasMemory
  BY DEF Insert, Call
<1>2. /\ FilledOK(c) /\ c.range = <<>> /\ ChainOK(ch) /\ da \in [Node -> Int]
      /\ Elements(ch, da) = Contents
      /\ Len(Contents) = Len(ch) /\ Len(ch) = c.count /\ c.count \in Nat
  BY FilledIs
<1>3. n \in Node /\ n \notin Chain(ch)
  BY <1>1, NewNodeIs
<1>4. CASE i \notin 0..Len(ch)
  <2>1. Finish(c, Just("index")) /\ FreesNone
    BY <1>4 DEF Insert
  <2>2. ListOK' /\ ItsOK' /\ Abstract!Reads(Just("index"))
    BY <1>2, <2>1, FilledRead
  <2>3. Abstract!Access(call')
    BY <1>1, <1>2, <1>4, <2>2, Answers DEF Abstract!Access
  <2> QED BY <1>1, <2>2, <2>3, Answers DEF Abstract!Next
<1>5. CASE i \in 0..Len(ch)
  <2> DEFINE s == PutIn(ch, i, n)
             d == Rewritten(da, n, v)
  <2>1. Finish(Written(c, s, d, c.count + 1), Just("none"))
    BY <1>5 DEF Insert, PutIn, Rewritten
  <2>2. ChainOK(s) /\ Len(s) = c.count + 1 /\ d \in [Node -> Int] /\ Elements(s, d) = PutIn(Contents, i, v)
    <3> HIDE DEF c, ch, da, n, s, d
    <3>1. PICK j \in 0..Len(ch) : j = i
      BY <1>5
    <3>2. /\ ChainOK(PutIn(ch, j, n)) /\ Len(PutIn(ch, j, n)) = Len(ch) + 1
          /\ Rewritten(da, n, v) \in [Node -> Int]
          /\ Elements(PutIn(ch, j, n), Rewritten(da, n, v)) = PutIn(Elements(ch, da), j, v)
      BY <1>2, <1>3, Linking
    <3> QED BY <1>2, <3>1, <3>2 DEF s, d
  <2>3. /\ ListOK' /\ ItsOK' /\ Contents' = PutIn(Contents, i, v)
        /\ Abstract!Written /\ answer' = Just("none")
    <3>1. c = FillRanged
      OBVIOUS
    <3> HIDE DEF c, s, d
    <3> QED BY <1>2, <2>1, <2>2, <3>1, FilledWrite
  <2>4. Abstract!Access(call')
    <3> DEFINE t == SubSeq(Contents, 1, i) \o <<v>> \o SubSeq(Contents, i + 1, Abstract!Length)
    <3>1. t = PutIn(Contents, i, v)
      BY Answers DEF PutIn
    <3>2. Abstract!Writes(t) /\ answer' = Abstract!Just("none")
      BY <2>3, <3>1, Answers DEF Abstract!Writes
    <3>3. i \in 0..Abstract!Length
      BY <1>2, <1>5, Answers
    <3> QED BY <1>1, <3>2, <3>3 DEF Abstract!Access
  <2> QED BY <1>1, <2>3, <2>4, Answers DEF Abstract!Next
<1> QED BY <1>4, <1>5

\* SET, l(i) = v.
LEMMA SetIs ==
    ASSUME SInv, NEW i \in Int, NEW v \in Int, Set(i, v)
    PROVE  ListOK' /\ ItsOK' /\ Abstract!Next
<1> DEFINE c == FillRanged
           ch == c.nodes
           da == c.data
<1>1. Running /\ call' = [op |-> "set", i |-> i, v |-> v]
  BY DEF Set, Call
<1>2. /\ FilledOK(c) /\ c.range = <<>> /\ ChainOK(ch) /\ da \in [Node -> Int]
      /\ Elements(ch, da) = Contents
      /\ Len(Contents) = Len(ch) /\ Len(ch) = c.count /\ c.count \in Nat
  BY FilledIs
<1>3. InBounds(c, i) <=> Abstract!Has(i)
  BY <1>2, Answers DEF InBounds, Abstract!Has
<1>4. CASE ~InBounds(c, i)
  <2>1. Finish(c, Just("index")) /\ FreesNone
    BY <1>4 DEF Set
  <2>2. ListOK' /\ ItsOK' /\ Abstract!Reads(Just("index"))
    BY <1>2, <2>1, FilledRead
  <2>3. Abstract!Access(call')
    BY <1>1, <1>3, <1>4, <2>2, Answers DEF Abstract!Access
  <2> QED BY <1>1, <2>2, <2>3, Answers DEF Abstract!Next
<1>5. CASE InBounds(c, i)
  <2>1. i \in 0..(c.count - 1)
    BY <1>5 DEF InBounds
  <2>2. Found(c, i) = ch[i + 1] /\ i + 1 \in 1..Len(ch)
    BY <1>2, <2>1, FoundIs
  <2> DEFINE d == Rewritten(da, Found(c, i), v)
  <2>3. Finish(Written(c, ch, d, c.count), Just("none"))
    BY <1>5 DEF Set, Rewritten
  <2>4. d \in [Node -> Int] /\ Elements(ch, d) = Rewritten(Contents, i + 1, v)
    <3>1. PICK j \in 1..Len(ch) : j = i + 1
      BY <2>2
    <3>2. d = Rewritten(da, ch[j], v)
      BY <2>2, <3>1
    <3> HIDE DEF ch, da, d
    <3>3. Rewritten(da, ch[j], v) \in [Node -> Int]
          /\ Elements(ch, Rewritten(da, ch[j], v)) = Rewritten(Elements(ch, da), j, v)
      BY <1>2, Altering
    <3> QED BY <1>2, <3>1, <3>2, <3>3
  <2>5. /\ ListOK' /\ ItsOK' /\ Contents' = Rewritten(Contents, i + 1, v)
        /\ Abstract!Written /\ answer' = Just("none")
    <3>1. c = FillRanged /\ c.count = Len(ch)
      BY <1>2
    <3> HIDE DEF c, ch, d
    <3> QED BY <1>2, <2>3, <2>4, <3>1, FilledWrite
  <2>6. Abstract!Access(call')
    <3> DEFINE t == [Contents EXCEPT ![i + 1] = v]
    <3>1. Abstract!Writes(t) /\ answer' = Abstract!Just("none")
      BY <2>5, Answers DEF Abstract!Writes, Rewritten
    <3> QED BY <1>1, <1>3, <1>5, <3>1 DEF Abstract!Access
  <2> QED BY <1>1, <2>5, <2>6, Answers DEF Abstract!Next
<1> QED BY <1>4, <1>5

\* CLEAR.
LEMMA ClearIs ==
    ASSUME SInv, Clear
    PROVE  ListOK' /\ ItsOK' /\ Abstract!Next
<1> DEFINE c == [This EXCEPT !.range = <<>>]
           d == Zeroed(data, Chain(nodes))
<1>1. Running /\ call' = [op |-> "clear"] /\ Finish(Written(c, <<>>, d, 0), Just("none"))
  BY DEF Clear, Call
<1>2. data \in [Node -> Int]
  BY ChainedIs DEF SInv, ListOK, RangeOK
<1>3. d \in [Node -> Int]
  BY <1>2 DEF Zeroed
<1> DEFINE s == <<>>
<1>4. ChainOK(s) /\ Len(s) = 0 /\ s = <<>>
  BY DEF ChainOK, Distinct
<1>5. Elements(s, d) = <<>>
  BY <1>4 DEF Elements
<1>6. c.range = <<>> /\ c = [This EXCEPT !.range = <<>>]
  BY DEF This
<1>7. Finish(Written(c, s, d, 0), Just("none")) /\ 0 = Len(s)
  BY <1>1, <1>4
<1>8. ListOK' /\ ItsOK' /\ Contents' = Elements(s, d) /\ Abstract!Written /\ answer' = Just("none")
  <2> HIDE DEF d, s
  <2> QED BY <1>3, <1>4, <1>6, <1>7, FilledWrite
<1>9. Abstract!Access(call')
  <2>1. Abstract!Writes(<<>>) /\ answer' = Abstract!Just("none")
    BY <1>5, <1>8, Answers DEF Abstract!Writes
  <2> QED BY <1>1, <2>1 DEF Abstract!Access
<1> QED BY <1>1, <1>8, <1>9, Answers DEF Abstract!Next

\* SORT.
LEMMA SortIs ==
    ASSUME SInv, Sort, FilledFirst
    PROVE  ListOK' /\ ItsOK' /\ Abstract!Next
<1> DEFINE s == Sorted(nodes)
           e == Contents
           u == Elements(s, data)
<1>1. Running /\ call' = [op |-> "sort"] /\ Finish(Written(This, s, data, count), Just("none"))
  BY DEF Sort, Call
<1>2. range = <<>>
  BY <1>1 DEF FilledFirst
<1>3. This = FillRanged /\ This.range = <<>>
  BY <1>2 DEF FillRanged, This
<1>4. /\ ChainOK(nodes) /\ data \in [Node -> Int] /\ e = Elements(nodes, data)
      /\ Len(nodes) = count /\ Len(e) = count
  BY <1>2, Chained, ChainedIs
<1>5. /\ ChainOK(s) /\ Len(s) = count /\ Len(u) = Len(e)
      /\ \A k \in 2..Len(e) : ~Above(u[k - 1], u[k])
      /\ \A v : Times(e, Len(e), v) = Times(u, Len(e), v)
  BY <1>4, Sorting
<1>6. ListOK' /\ ItsOK' /\ Contents' = u /\ Abstract!Written /\ answer' = Just("none")
  <2> HIDE DEF s, u
  <2>1. count = Len(s)
    BY <1>5
  <2>2. Finish(Written(FillRanged, s, data, count), Just("none")) /\ FillRanged.range = <<>>
    BY <1>1, <1>3
  <2> QED BY <1>4, <1>5, <2>1, <2>2, FilledWrite DEF u
<1> HIDE DEF u
<1>7. Abstract!Access(call')
  <2>1. \A a, b : Abstract!Precedes(a, b) = Above(b, a)
    BY DEF Abstract!Precedes, Above
  <2>2. \A k \in 2..Abstract!Length : ~Abstract!Precedes(Contents'[k], Contents'[k - 1])
    BY <1>5, <1>6, <2>1, Answers
  <2>3. \A S : Abstract!Cardinality(S) = Cardinality(S)
    BY DEF Abstract!Cardinality, Cardinality
  <2> DEFINE n == Abstract!Length
  <2>4. ASSUME NEW k \in 1..n
        PROVE  Abstract!Cardinality({m \in 1..n : Contents[m] = Contents[k]})
                 = Abstract!Cardinality({m \in 1..n : Contents'[m] = Contents[k]})
    <3>1. n = Len(e) /\ Contents' = u
      BY <1>6, Answers
    <3> HIDE DEF n
    <3>2. Times(Contents, n, Contents[k]) = Times(Contents', n, Contents[k])
      BY <1>5, <3>1
    <3> QED BY <2>3, <3>2 DEF Times
  <2> QED BY <1>1, <1>5, <1>6, <2>2, <2>4, Answers DEF Abstract!Access
<1> QED BY <1>1, <1>6, <1>7, Answers DEF Abstract!Next

-----------------------------------------------------------------------------
(* The iterators.                                                          *)

\* Steps of iterators leave the list,
LEMMA RestList == SInv /\ Rest => ListOK' /\ Contents' = Contents
BY DEF SInv, Rest, ListOK, FilledOK, RangeOK, This, Contents, RangeLength, InRange

\* and with it the places.
LEMMA RestStanding ==
    ASSUME Rest
    PROVE  \A c, y : Standing(c)' = Standing(c) /\ AtElement(c, y)' = AtElement(c, y)
BY DEF Standing, AtElement, Rest, Chain

\* Where the loop is when it goes on, or not at all.
Turned(curr) ==
    /\ x' = (IF curr.kind = "node" THEN curr.at ELSE Null)
    /\ range = <<>> => curr.kind = "node"

\* The loop's variable is the element that the loop goes on to.
LEMMA TurnedAt ==
    ASSUME SInv, NEW curr, Standing(curr), Turned(curr)
    PROVE  AtElement(curr, x')
BY DEF Standing, Turned, AtElement

\* The other iterators are where they were.
LEMMA OthersStand ==
    ASSUME SInv, NEW it \in Iterators, Rest, its' = [jt \in Iterators |-> its'[jt]],
           \A jt \in Iterators \ {it} : its'[jt] = its[jt],
           lock' >= 0 => lock >= 0 \/ Live \ {it} = {},
           lock' >= 0 /\ its'[it].alive => Standing(its'[it].curr),
           it # "loop" => x' = x,
           it = "loop" /\ lock' >= 0 /\ its'[it].alive => AtElement(its'[it].curr, x')
    PROVE  ItsOK'
<1>1. ASSUME lock' >= 0, NEW jt \in Iterators \ {it}, its'[jt].alive
      PROVE  lock >= 0 /\ its[jt].alive /\ its'[jt] = its[jt]
  BY <1>1 DEF Live
<1>2. ASSUME NEW jt \in Iterators, lock' >= 0, its'[jt].alive PROVE Standing(its'[jt].curr)
  BY <1>1, <1>2 DEF SInv, ItsOK
<1>3. ASSUME lock' >= 0, its'["loop"].alive PROVE AtElement(its'["loop"].curr, x')
  BY <1>1, <1>3, IteratorsAssumption DEF SInv, ItsOK, Loop
<1> QED BY <1>2, <1>3, RestStanding DEF ItsOK, Loop, Standing, AtElement, Rest, Chain

\* One that begins or goes on in the list stands in it.
LEMMA StartIts ==
    ASSUME SInv, NEW it \in Iterators, NEW curr, Standing(curr), Rest,
           its' = [its EXCEPT ![it] = [alive |-> TRUE, curr |-> curr]],
           lock' = LockOn(Disposed(it)),
           it # "loop" => x' = x, it = "loop" => Turned(curr)
    PROVE  ItsOK'
<1>1. /\ Shape' /\ its'[it] = [alive |-> TRUE, curr |-> curr]
      /\ \A jt \in Iterators \ {it} : its'[jt] = its[jt]
      /\ lock' >= 0 => lock >= 0 \/ Live \ {it} = {}
  BY Started DEF SInv
<1>2. its'[it].curr = curr /\ its' = [jt \in Iterators |-> its'[jt]]
  BY <1>1 DEF Shape
<1>3. it = "loop" => AtElement(curr, x')
  BY TurnedAt
<1> QED BY <1>1, <1>2, <1>3, OthersStand

\* One less: the others stand.
LEMMA EndIts ==
    ASSUME SInv, NEW it \in Iterators, Rest,
           its' = [its EXCEPT ![it] = Gone], lock' = Disposed(it), it # "loop" => x' = x
    PROVE  ItsOK'
<1>1. /\ Shape' /\ ~its'[it].alive
      /\ \A jt \in Iterators \ {it} : its'[jt] = its[jt]
      /\ lock' >= 0 => lock >= 0 \/ Live \ {it} = {}
  BY Ended DEF SInv
<1>2. its' = [jt \in Iterators |-> its'[jt]]
  BY <1>1 DEF Shape
<1> QED BY <1>1, <1>2, OthersStand

\* One that moves stands where it has moved to.
LEMMA MoveIts ==
    ASSUME SInv, NEW it \in Iterators, its[it].alive, NEW curr, Standing(curr), Rest, lock' = lock,
           its' = [its EXCEPT ![it].curr = curr],
           it # "loop" => x' = x, it = "loop" => Turned(curr)
    PROVE  ItsOK'
<1>1. /\ its'[it].curr = curr /\ \A jt \in Iterators \ {it} : its'[jt] = its[jt]
      /\ its' = [jt \in Iterators |-> its'[jt]]
  BY DEF SInv, IInv, Shape
<1>2. it = "loop" => AtElement(curr, x')
  BY TurnedAt
<1> QED BY <1>1, <1>2, OthersStand

\* it = ITERATOR(l), it = jt.
LEMMA IteratorIs ==
    ASSUME SInv, NEW it \in Iterators \ {"loop"}, Iterator(it)
    PROVE  ListOK' /\ ItsOK' /\ Abstract!Next
<1>1. /\ Running /\ call' \in {[op |-> "iterator", it |-> it], [op |-> "copy", it |-> it]}
      /\ its' = [its EXCEPT ![it] = [alive |-> TRUE, curr |-> Begun]]
      /\ lock' = LockOn(Disposed(it)) /\ answer' = Just("none") /\ x' = x /\ Rest
  BY DEF Iterator, Call
<1>2. Standing(Begun) /\ Position(Begun) = 0
  BY BegunIs DEF SInv
<1>3. ListOK' /\ Contents' = Contents
  BY <1>1, RestList
<1>4. ItsOK'
  BY <1>1, <1>2, StartIts
<1>5. /\ Live' = Live \cup {it} /\ Altered' = (Altered /\ Live \ {it} # {})
      /\ Positions' = [Positions EXCEPT ![it] = 0]
  <2>1. UNCHANGED <<nodes, count, range>>
    BY <1>1 DEF Rest
  <2> DEFINE v == IF Altered' THEN 0 ELSE Position(Begun)
  <2>2. /\ Live' = Live \cup {it} /\ Altered' = (Altered /\ Live \ {it} # {})
        /\ Positions' = [Positions EXCEPT ![it] = v]
    BY <1>1, <2>1, StartView DEF SInv
  <2>3. v = 0
    BY <1>2
  <2> QED BY <2>2, <2>3
<1>6. Abstract!Iterate(call')
  <2>1. Abstract!Begin(it)
    BY <1>5 DEF Abstract!Begin
  <2>2. call'.op \in {"iterator", "copy"} /\ call'.it = it
    BY <1>1
  <2> QED BY <1>1, <1>3, <2>1, <2>2, Answers DEF Abstract!Iterate
<1> QED BY <1>1, <1>3, <1>4, <1>6, Answers DEF Abstract!Next

\* An iterator goes: something else is assigned to its variable, or its loop is left.
LEMMA LeaveIs ==
    ASSUME SInv, NEW it \in Iterators, Running, call' \in {[op |-> "drop", it |-> it], [op |-> "exit", it |-> it]},
           its' = [its EXCEPT ![it] = Gone], lock' = Disposed(it), it # "loop" => x' = x,
           answer' = Just("none"), Rest
    PROVE  ListOK' /\ ItsOK' /\ Abstract!Next
<1>1. ListOK' /\ Contents' = Contents
  BY RestList
<1>2. ItsOK'
  BY EndIts
<1>3. Abstract!Leave(it)
  BY EndView DEF SInv, Rest, Abstract!Leave
<1>4. Abstract!Iterate(call')
  <2>1. call'.op \in {"drop", "exit"} /\ call'.it = it
    OBVIOUS
  <2> QED BY <1>1, <1>3, <2>1, Answers DEF Abstract!Iterate
<1> QED BY <1>1, <1>2, <1>4, Answers DEF Abstract!Next

\* Something else is assigned to it.
LEMMA DropIs ==
    ASSUME SInv, NEW it \in Iterators \ {"loop"}, Drop(it)
    PROVE  ListOK' /\ ItsOK' /\ Abstract!Next
BY LeaveIs DEF Drop, Call

\* An iterator of a list that has not changed: where the abstract list counts it.
LEMMA PlaceIs ==
    ASSUME SInv, NEW it \in Iterators, its[it].alive, ~(lock < 0)
    PROVE  /\ it \in Live /\ ~Altered /\ Standing(its[it].curr) /\ Positions[it] = Position(its[it].curr)
           /\ Positions[it] \in 0..(Len(Contents) + 1) /\ Len(Contents) \in Nat
<1>1. lock >= 0
  BY DEF SInv, IInv, LockCounts
<1>2. Standing(its[it].curr)
  BY <1>1 DEF SInv, ItsOK
<1>3. Len(Contents) \in Nat
  BY Filling DEF SInv
<1> QED BY <1>2, <1>3, HereIs DEF SInv, Live, Altered, Positions

\* GET(it).
LEMMA CurrentIs ==
    ASSUME SInv, NEW it \in Iterators, Current(it)
    PROVE  ListOK' /\ ItsOK' /\ Abstract!Next
<1>1. /\ Running /\ call' = [op |-> "current", it |-> it] /\ its[it].alive
      /\ answer' = Here(its[it].curr) /\ Kept /\ Rest
  BY DEF Current, Call, Kept, Rest
<1>2. ListOK' /\ Contents' = Contents /\ ItsOK'
  BY <1>1, RestList, KeptIts DEF SInv
<1>3. Live' = Live /\ Altered' = Altered /\ Positions' = Positions
  BY <1>1, KeptView DEF SInv
<1>4. Abstract!At(it) => answer' = Value(Contents[Positions[it]])
  <2> SUFFICES ASSUME Abstract!At(it) PROVE answer' = Value(Contents[Positions[it]])
    OBVIOUS
  <2>1. ~(lock < 0) /\ Positions[it] \in 1..Len(Contents)
    BY Answers DEF Abstract!At, Altered
  <2> QED BY <1>1, <2>1, PlaceIs, HereIs DEF SInv
<1>5. Abstract!Iterate(call')
  BY <1>1, <1>2, <1>3, <1>4, Answers DEF Abstract!Iterate
<1> QED BY <1>1, <1>2, <1>5, Answers DEF Abstract!Next

\* The next place, where the end is followed by itself.
NextPlace(p) == IF p > Len(Contents) THEN p ELSE p + 1

\* MOVE_NEXT(it).
LEMMA MoveNextIs ==
    ASSUME SInv, NEW it \in Iterators \ {"loop"}, MoveNext(it)
    PROVE  ListOK' /\ ItsOK' /\ Abstract!Next
<1> DEFINE next == Onward(its[it].curr)
<1>1. /\ Running /\ call' = [op |-> "movenext", it |-> it] /\ its[it].alive /\ Rest /\ lock' = lock /\ x' = x
      /\ IF lock < 0 THEN answer' = Just("iterator") /\ its' = its
         ELSE /\ its' = [its EXCEPT ![it].curr = next]
              /\ answer' = IF Past(next) THEN Just("end") ELSE Truth(TRUE)
  BY DEF MoveNext, Call
<1>2. ListOK' /\ Contents' = Contents
  BY <1>1, RestList
<1>3. CASE lock < 0
  <2>1. Kept /\ answer' = Just("iterator")
    BY <1>1, <1>3 DEF Kept, Rest
  <2>2. Live' = Live /\ Altered' = Altered /\ Positions' = Positions /\ ItsOK'
    BY <2>1, KeptView, KeptIts DEF SInv
  <2>3. Abstract!Iterate(call')
    BY <1>1, <1>2, <1>3, <2>1, <2>2, Answers DEF Abstract!Iterate, Altered
  <2> QED BY <1>1, <1>2, <2>2, <2>3, Answers DEF Abstract!Next
<1>4. CASE ~(lock < 0)
  <2>1. /\ ~Altered /\ Standing(its[it].curr) /\ Positions[it] = Position(its[it].curr)
    BY <1>1, <1>4, PlaceIs
  <2>2. Standing(next) /\ Position(next) = NextPlace(Positions[it])
    BY <2>1, OnwardIs DEF SInv, NextPlace
  <2>3. Past(next) <=> NextPlace(Positions[it]) > Len(Contents)
    <3> HIDE DEF next
    <3> QED BY <2>2, HereIs DEF SInv
  <2>4. ItsOK'
    <3> HIDE DEF next
    <3> QED BY <1>1, <1>4, <2>2, MoveIts
  <2>5. /\ Live' = Live /\ Altered' = Altered
        /\ Positions' = [Positions EXCEPT ![it] = NextPlace(Positions[it])]
    <3> DEFINE v == IF Altered THEN 0 ELSE Position(next)
    <3>1. UNCHANGED <<nodes, count, range, lock>> /\ its' = [its EXCEPT ![it].curr = next]
      BY <1>1, <1>4 DEF Rest
    <3>2. /\ Live' = Live /\ Altered' = Altered /\ Positions' = [Positions EXCEPT ![it] = v]
      <4> HIDE DEF next
      <4> QED BY <1>1, <3>1, MoveView DEF SInv
    <3>3. v = NextPlace(Positions[it])
      BY <2>1, <2>2
    <3> HIDE DEF v
    <3> QED BY <3>2, <3>3
  <2>6. Abstract!Move(it)
    <3> DEFINE p == IF Positions[it] > Abstract!Length THEN Positions[it] ELSE Positions[it] + 1
    <3>1. p = NextPlace(Positions[it])
      BY Answers DEF NextPlace
    <3>2. answer' = IF p > Abstract!Length THEN Abstract!Just("end") ELSE Abstract!Truth(TRUE)
      BY <1>1, <1>4, <2>3, <3>1, Answers
    <3>3. Positions' = [Positions EXCEPT ![it] = p]
      BY <2>5, <3>1
    <3> QED BY <2>5, <3>2, <3>3 DEF Abstract!Move
  <2>7. Abstract!Iterate(call')
    BY <1>1, <1>2, <2>1, <2>6 DEF Abstract!Iterate
  <2> QED BY <1>1, <1>2, <2>4, <2>7, Answers DEF Abstract!Next
<1> QED BY <1>3, <1>4

-----------------------------------------------------------------------------
(* The loop.                                                               *)

\* FOR x IN l begins, or finds nothing to do.
LEMMA ForInIs ==
    ASSUME SInv, ForIn
    PROVE  ListOK' /\ ItsOK' /\ Abstract!Next
<1> DEFINE next == Onward(Begun)
           lk == LockOn(lock)
<1>1. /\ Running /\ call' = [op |-> "for", it |-> "loop"] /\ ~its["loop"].alive /\ Turn(Begun, lk) /\ Rest
      /\ Disposed("loop") = lock /\ "loop" \in Iterators /\ "loop" \notin Live
  BY IteratorsAssumption DEF ForIn, Call, Loop, Disposed, Live
<1>2. ListOK' /\ Contents' = Contents
  BY <1>1, RestList
<1>3. lock \in Int /\ lk \in Int /\ (lk < 0 <=> lock < 0) /\ (lk >= 0 <=> ~(lk < 0))
  BY DEF SInv, IInv, LockCounts, LockOn
<1>4. Standing(Begun) /\ Position(Begun) = 0 /\ Len(Contents) \in Nat
  BY BegunIs, Filling DEF SInv
<1>5. Standing(next) /\ Position(next) = 1
  BY <1>4, OnwardIs DEF SInv
<1> HIDE DEF next
<1>6. /\ Past(next) <=> Len(Contents) = 0
      /\ Len(Contents) # 0 => Here(next) = Value(Contents[1]) /\ (range = <<>> => next.kind = "node")
  <2>1. Len(Contents) # 0 <=> 1 \in 1..Len(Contents)
    BY <1>4
  <2> QED BY <1>4, <1>5, <2>1, HereIs DEF SInv
<1> HIDE DEF lk
<1>7. CASE lk < 0
  <2>1. answer' = Just("iterator") /\ UNCHANGED <<its, lock, x>>
    BY <1>1, <1>3, <1>7 DEF Turn
  <2>2. Kept
    BY <1>1, <2>1 DEF Kept, Rest
  <2>3. Live' = Live /\ Altered' = Altered /\ Positions' = Positions /\ ItsOK'
    BY <2>2, KeptView, KeptIts DEF SInv
  <2>4. Abstract!Loop(call')
    BY <1>1, <1>2, <1>3, <1>7, <2>1, <2>3, Answers DEF Abstract!Loop, Altered
  <2> QED BY <1>1, <1>2, <2>3, <2>4, Answers DEF Abstract!Next
<1>8. CASE lk >= 0 /\ Len(Contents) = 0
  <2>1. /\ answer' = Just("end") /\ x' = Null
        /\ its' = [its EXCEPT !["loop"] = Gone] /\ lock' = Disposed("loop")
    BY <1>1, <1>3, <1>6, <1>8 DEF Turn, lk, next, LockOn, Unlock
  <2>2. ItsOK'
    BY <1>1, <2>1, EndIts
  <2>3. UNCHANGED <<nodes, count, range>>
    BY <1>1 DEF Rest
  <2>4. /\ Live' = Live /\ Altered' = Altered /\ ~Altered
        /\ Positions' = [Positions EXCEPT !["loop"] = 0]
    <3>1. /\ Live' = Live \ {"loop"} /\ Altered' = (Altered /\ Live \ {"loop"} # {})
          /\ Positions' = [Positions EXCEPT !["loop"] = 0]
      BY <1>1, <2>1, <2>3, EndView DEF SInv
    <3>2. ~Altered /\ Live \ {"loop"} = Live
      BY <1>1, <1>3, <1>8 DEF Altered
    <3>3. Altered' = Altered
      BY <3>1, <3>2 DEF Altered
    <3> QED BY <3>1, <3>2, <3>3
  <2>5. Abstract!Loop(call')
    BY <1>1, <1>2, <1>8, <2>1, <2>4, Answers DEF Abstract!Loop
  <2> QED BY <1>1, <1>2, <2>2, <2>5, Answers DEF Abstract!Next
<1>9. CASE lk >= 0 /\ Len(Contents) # 0
  <2>1. /\ answer' = Value(Contents[1]) /\ x' = (IF next.kind = "node" THEN next.at ELSE Null)
        /\ its' = [its EXCEPT !["loop"] = [alive |-> TRUE, curr |-> next]]
        /\ lock' = LockOn(Disposed("loop"))
    BY <1>1, <1>3, <1>6, <1>9 DEF Turn, lk, next
  <2>2. ItsOK'
    BY <1>1, <1>5, <1>6, <1>9, <2>1, StartIts DEF Turned
  <2>3. UNCHANGED <<nodes, count, range>>
    BY <1>1 DEF Rest
  <2>4. /\ Live' = Live \cup {"loop"} /\ Altered' = Altered /\ ~Altered
        /\ Positions' = [Positions EXCEPT !["loop"] = 1]
    <3> DEFINE v == IF Altered' THEN 0 ELSE Position(next)
    <3>1. /\ Live' = Live \cup {"loop"} /\ Altered' = (Altered /\ Live \ {"loop"} # {})
          /\ Positions' = [Positions EXCEPT !["loop"] = v]
      BY <1>1, <2>1, <2>3, StartView DEF SInv
    <3>2. ~Altered
      BY <1>3, <1>9 DEF Altered
    <3>3. v = 1
      BY <1>5, <3>1, <3>2
    <3>4. Altered' = Altered
      BY <3>1, <3>2 DEF Altered
    <3> HIDE DEF v
    <3> QED BY <3>1, <3>2, <3>3, <3>4
  <2>5. Abstract!Loop(call')
    BY <1>1, <1>2, <1>9, <2>1, <2>4, Answers DEF Abstract!Loop
  <2> QED BY <1>1, <1>2, <2>2, <2>5, Answers DEF Abstract!Next
<1> QED BY <1>3, <1>7, <1>8, <1>9

\* The loop goes on, or ends.
LEMMA ForNextIs ==
    ASSUME SInv, ForNext
    PROVE  ListOK' /\ ItsOK' /\ Abstract!Next
<1> DEFINE next == Onward(its["loop"].curr)
           p == Positions["loop"]
<1>1. /\ Running /\ call' = [op |-> "next", it |-> "loop"] /\ its["loop"].alive
      /\ Turn(its["loop"].curr, lock) /\ Rest
      /\ Disposed("loop") = Unlock(lock) /\ "loop" \in Iterators
  BY IteratorsAssumption DEF ForNext, Call, Loop, Disposed
<1>2. ListOK' /\ Contents' = Contents
  BY <1>1, RestList
<1>3. lock \in Int /\ (lock >= 0 <=> ~(lock < 0))
  BY DEF SInv, IInv, LockCounts
<1>4. CASE lock < 0
  <2>1. answer' = Just("iterator") /\ UNCHANGED <<its, lock, x>>
    BY <1>1, <1>3, <1>4 DEF Turn
  <2>2. Kept
    BY <1>1, <2>1 DEF Kept, Rest
  <2>3. Live' = Live /\ Altered' = Altered /\ Positions' = Positions /\ ItsOK'
    BY <2>2, KeptView, KeptIts DEF SInv
  <2>4. Abstract!Loop(call')
    BY <1>1, <1>2, <1>4, <2>1, <2>3, Answers DEF Abstract!Loop, Altered
  <2> QED BY <1>1, <1>2, <2>3, <2>4, Answers DEF Abstract!Next
<1>5. CASE lock >= 0
  <2>1. /\ ~Altered /\ Standing(its["loop"].curr) /\ p = Position(its["loop"].curr)
        /\ p \in 0..(Len(Contents) + 1) /\ Len(Contents) \in Nat
    BY <1>1, <1>3, <1>5, PlaceIs
  <2>2. Standing(next) /\ Position(next) = IF p > Len(Contents) THEN p ELSE p + 1
    BY <2>1, OnwardIs DEF SInv
  <2> HIDE DEF next, p
  <2>3. /\ Past(next) <=> p + 1 > Len(Contents)
        /\ p + 1 <= Len(Contents) => /\ Position(next) = p + 1
                                     /\ Here(next) = Value(Contents[p + 1])
                                     /\ range = <<>> => next.kind = "node"
    <3>1. /\ p + 1 <= Len(Contents) => Position(next) = p + 1 /\ Position(next) \in 1..Len(Contents)
          /\ Position(next) > Len(Contents) <=> p + 1 > Len(Contents)
      BY <2>1, <2>2
    <3> QED BY <2>2, <3>1, HereIs DEF SInv
  <2>4. p + 1 <= Len(Contents) <=> ~(p + 1 > Len(Contents))
    BY <2>1
  <2>5. UNCHANGED <<nodes, count, range>>
    BY <1>1 DEF Rest
  <2>6. CASE p + 1 > Len(Contents)
    <3>1. /\ answer' = Just("end") /\ its' = [its EXCEPT !["loop"] = Gone] /\ lock' = Disposed("loop")
      BY <1>1, <1>3, <1>5, <2>3, <2>6 DEF Turn, next
    <3>2. ItsOK'
      BY <1>1, <3>1, EndIts
    <3>3. Abstract!Leave("loop")
      BY <1>1, <2>5, <3>1, EndView DEF SInv, Abstract!Leave
    <3>4. Abstract!Loop(call')
      BY <1>1, <1>2, <2>1, <2>4, <2>6, <3>1, <3>3, Answers DEF Abstract!Loop, p
    <3> QED BY <1>1, <1>2, <3>2, <3>4, Answers DEF Abstract!Next
  <2>7. CASE p + 1 <= Len(Contents)
    <3>1. /\ answer' = Value(Contents[p + 1]) /\ x' = (IF next.kind = "node" THEN next.at ELSE Null)
          /\ its' = [its EXCEPT !["loop"] = [alive |-> TRUE, curr |-> next]]
          /\ lock' = lock
      BY <1>1, <1>3, <1>5, <2>3, <2>4, <2>7 DEF Turn, next
    <3>2. its' = [its EXCEPT !["loop"].curr = next]
      <4>1. its["loop"] = [alive |-> its["loop"].alive, curr |-> its["loop"].curr] /\ its["loop"].alive
        BY <1>1 DEF SInv, IInv, Shape
      <4> QED BY <3>1, <4>1
    <3>3. ItsOK'
      BY <1>1, <2>2, <2>3, <2>7, <3>1, <3>2, MoveIts DEF Turned
    <3>4. Live' = Live /\ Altered' = Altered /\ Positions' = [Positions EXCEPT !["loop"] = p + 1]
      <4> DEFINE v == IF Altered THEN 0 ELSE Position(next)
      <4>1. Live' = Live /\ Altered' = Altered /\ Positions' = [Positions EXCEPT !["loop"] = v]
        BY <1>1, <2>5, <3>1, <3>2, MoveView DEF SInv
      <4>2. v = p + 1
        BY <2>1, <2>3, <2>7
      <4> HIDE DEF v
      <4> QED BY <4>1, <4>2
    <3>5. Abstract!Loop(call')
      BY <1>1, <1>2, <2>1, <2>7, <2>4, <3>1, <3>4, Answers DEF Abstract!Loop, p
    <3> QED BY <1>1, <1>2, <3>3, <3>5, Answers DEF Abstract!Next
  <2> QED BY <2>4, <2>6, <2>7
<1> QED BY <1>3, <1>4, <1>5

\* The loop is left.
LEMMA ForExitIs ==
    ASSUME SInv, ForExit
    PROVE  ListOK' /\ ItsOK' /\ Abstract!Next
<1>1. Disposed("loop") = Unlock(lock) /\ "loop" \in Iterators
  BY IteratorsAssumption DEF ForExit, Loop, Disposed
<1> QED BY <1>1, LeaveIs DEF ForExit, Call

\* What the body assigns to x is assigned to the element that the loop is at.
LEMMA ForAssignIs ==
    ASSUME SInv, NEW v \in Int, ForAssign(v)
    PROVE  ListOK' /\ ItsOK' /\ Abstract!Next
<1>1. /\ Running /\ call' = [op |-> "assign", it |-> "loop", v |-> v] /\ its["loop"].alive
      /\ data' = IF x \in Node THEN Rewritten(data, x, v) ELSE data
      /\ UNCHANGED <<nodes, count, range, cache, lock, its, x>> /\ "loop" \in Iterators
  BY IteratorsAssumption DEF ForAssign, Call, Loop, Rewritten
<1>2. Kept
  BY <1>1 DEF Kept
<1>3. Live' = Live /\ Altered' = Altered /\ Positions' = Positions /\ ItsOK'
  BY <1>2, KeptView, KeptIts DEF SInv
<1>4. data \in [Node -> Int]
  BY ChainedIs DEF SInv, ListOK, RangeOK
<1>5. data' \in [Node -> Int]
  BY <1>1, <1>4 DEF Rewritten
<1>6. ListOK'
  BY <1>1, <1>5 DEF SInv, ListOK, FilledOK, RangeOK, This
<1>7. Abstract!At("loop") => Contents' \in {Contents, Rewritten(Contents, Positions["loop"], v)}
  <2> SUFFICES ASSUME Abstract!At("loop") PROVE Contents' \in {Contents, Rewritten(Contents, Positions["loop"], v)}
    OBVIOUS
  <2>1. ~(lock < 0) /\ Positions["loop"] \in 1..Len(Contents)
    BY Answers DEF Abstract!At, Altered
  <2>2. CASE range # <<>>
    BY <1>1, <2>2 DEF Contents, RangeLength, InRange
  <2>3. CASE range = <<>>
    <3> DEFINE curr == its["loop"].curr
    <3>1. lock >= 0
      BY <2>1 DEF SInv, IInv, LockCounts
    <3>2. AtElement(curr, x) /\ Standing(curr) /\ Positions["loop"] = Position(curr)
      BY <1>1, <2>1, <3>1, PlaceIs DEF SInv, ItsOK, Loop
    <3>3. /\ FilledOK(This) /\ ChainOK(nodes) /\ Len(nodes) = Len(Contents)
          /\ Contents = Elements(nodes, data)
      BY <2>3, Chained, ChainedIs
    <3>4. x = nodes[Positions["loop"]] /\ x \in Node
      BY <2>1, <2>3, <3>2, HereIs DEF SInv, AtElement
    <3>5. PICK k \in 1..Len(nodes) : k = Positions["loop"]
      BY <2>1, <3>3
    <3>6. Elements(nodes, Rewritten(data, nodes[k], v)) = Rewritten(Elements(nodes, data), k, v)
      BY <1>4, <3>3, Altering
    <3>7. Contents' = Elements(nodes, data')
      BY <1>1, <2>3 DEF Contents, Elements
    <3> QED BY <1>1, <3>3, <3>4, <3>5, <3>6, <3>7
  <2> QED BY <2>2, <2>3
<1>8. Abstract!Loop(call')
  BY <1>1, <1>3, <1>7 DEF Abstract!Loop, Rewritten
<1> QED BY <1>1, <1>3, <1>6, <1>8, Answers DEF Abstract!Next

-----------------------------------------------------------------------------
(* The list implements the abstract one.                                   *)

\* A list made of values or of a range that ascends.
LEMMA InitList ==
    ASSUME Ascending, Init
    PROVE  ListOK
<1>1. CASE \E s \in Lists :
              /\ nodes = [k \in 1..Len(s) |-> k] /\ count = Len(s) /\ range = <<>>
              /\ data = [n \in Node |-> IF n <= Len(s) THEN s[n] ELSE 0]
  <2>1. PICK s \in Lists :
              /\ nodes = [k \in 1..Len(s) |-> k] /\ count = Len(s) /\ range = <<>>
              /\ data = [n \in Node |-> IF n <= Len(s) THEN s[n] ELSE 0]
    BY <1>1
  <2>2. s \in Seq(Int) /\ Len(s) <= MaxNodes /\ MaxNodes \in Nat
    BY ListsAssumption, MaxNodesAssumption
  <2> DEFINE len == Len(s)
  <2>3. len \in Nat /\ \A k \in 1..len : s[k] \in Int
    BY <2>2, LenProperties, ElementOfSeq
  <2>4. /\ nodes = [k \in 1..len |-> k] /\ count = len /\ len <= MaxNodes
        /\ data = [n \in Node |-> IF n <= len THEN s[n] ELSE 0]
    BY <2>1, <2>2
  <2> HIDE DEF len
  <2>5. \A k \in 1..len : k \in Node
    BY <2>2, <2>3, <2>4 DEF Node
  <2>6. nodes \in [1..len -> Node] /\ nodes \in Seq(Node) /\ Len(nodes) = len /\ DOMAIN nodes = 1..len
    <3>1. nodes \in [1..len -> Node]
      BY <2>4, <2>5
    <3> QED BY <2>3, <2>4, <3>1
  <2>7. ChainOK(nodes)
    BY <2>4, <2>6 DEF ChainOK, Distinct
  <2>8. \A n \in Node : n <= len => n \in 1..len
    BY <2>2, <2>3 DEF Node
  <2>9. data \in [Node -> Int]
    BY <2>3, <2>4, <2>8
  <2>10. cache = NoCache
    BY DEF Init
  <2> QED BY <2>1, <2>4, <2>6, <2>7, <2>9, <2>10 DEF ListOK, FilledOK, This, CacheOK, NoCache
<1>2. CASE \E r \in Ranges :
              /\ nodes = <<>> /\ range = <<r[1]>>
              /\ count = IF r[1] = r[2] THEN 1 ELSE r[2] - r[1] + Sgn(r[2] - r[1])
              /\ data = [n \in Node |-> 0]
  <2>1. PICK r \in Ranges :
              /\ nodes = <<>> /\ range = <<r[1]>>
              /\ count = IF r[1] = r[2] THEN 1 ELSE r[2] - r[1] + Sgn(r[2] - r[1])
              /\ data = [n \in Node |-> 0]
    BY <1>2
  <2> DEFINE a == r[1]
             b == r[2]
  <2>2. a \in Int /\ b \in Int /\ a <= b /\ b - a \in (1 - MaxNodes)..(MaxNodes - 1) /\ MaxNodes \in Nat
    BY ListsAssumption, MaxNodesAssumption DEF Ascending
  <2>3. /\ nodes = <<>> /\ range = <<a>> /\ count = IF a = b THEN 1 ELSE b - a + Sgn(b - a)
        /\ data = [n \in Node |-> 0]
    BY <2>1
  <2> HIDE DEF a, b
  <2>4. a # b => Sgn(b - a) = 1
    BY <2>2 DEF Sgn
  <2>5. count \in 1..MaxNodes
    BY <2>2, <2>3, <2>4
  <2>6. cache = NoCache
    BY DEF Init
  <2>7. range # <<>> /\ range[1] \in Int /\ data \in [Node -> Int]
    BY <2>2, <2>3
  <2> QED BY <2>3, <2>5, <2>6, <2>7 DEF ListOK, RangeOK
<1> QED BY <1>1, <1>2 DEF Init

\* The invariant holds at the start,
LEMMA InitSInv == Ascending /\ Init => SInv
<1> SUFFICES ASSUME Ascending, Init PROVE SInv
  OBVIOUS
<1>1. ItsOK
  BY IteratorsAssumption DEF Init, ItsOK, Gone, Loop
<1> QED BY <1>1, InitIInv, InitList DEF SInv

\* where the abstract list is.
LEMMA InitIs == Init => Abstract!Init
<1> SUFFICES ASSUME Init PROVE Abstract!Init
  OBVIOUS
<1>1. lock = 0 /\ its = [it \in Iterators |-> Gone]
  BY DEF Init
<1>2. Live = {} /\ Altered = FALSE /\ Positions = Abstract!Zero
  BY <1>1 DEF Live, Altered, Positions, Gone, Abstract!Zero
<1> QED BY <1>2, Answers DEF Init, Abstract!Init

\* Each step is one of the abstract list,
LEMMA StepIs ==
    ASSUME SInv, Next, FilledFirst
    PROVE  SInv' /\ Abstract!Next
<1>1. IInv'
  BY StepIInv DEF SInv
<1> DEFINE Good == ListOK' /\ ItsOK' /\ Abstract!Next
<1>2. Ints \subseteq Int /\ Indices \subseteq Int
  BY IntsAssumption
<1>3. ASSUME Length \/ Pop \/ Back \/ Clear \/ Sort \/ Clone \/ ToArray PROVE Good
  BY <1>3, LengthIs, PopIs, BackIs, ClearIs, SortIs, CopyIs
<1>4. ASSUME NEW i \in Indices, Get(i) \/ RemoveIndex(i) PROVE Good
  BY <1>2, <1>4, GetIs, RemoveIs
<1>5. ASSUME NEW v \in Ints, Push(v) \/ Exists(v) \/ IndexOf(v) \/ ForAssign(v) PROVE Good
  BY <1>2, <1>5, PushIs, ExistsIs, IndexOfIs, ForAssignIs
<1>6. ASSUME NEW i \in Indices, NEW v \in Ints, Insert(i, v) \/ Set(i, v) PROVE Good
  BY <1>2, <1>6, InsertIs, SetIs
<1>7. ASSUME NEW it \in Iterators \ {"loop"}, Iterator(it) \/ Drop(it) \/ MoveNext(it) \/ Current(it) PROVE Good
  BY <1>7, IteratorIs, DropIs, MoveNextIs, CurrentIs
<1>8. ASSUME ForIn \/ ForNext \/ ForExit PROVE Good
  BY <1>8, ForInIs, ForNextIs, ForExitIs
<1>9. Good
  <2> HIDE DEF Good
  <2> QED BY <1>3, <1>4, <1>5, <1>6, <1>7, <1>8 DEF Next
<1> QED BY <1>1, <1>9 DEF SInv

\* or none.
LEMMA StutterIs ==
    ASSUME SInv, UNCHANGED listVars
    PROVE  SInv' /\ UNCHANGED Abstract!vars
<1>1. Kept /\ data' = data /\ cache' = cache /\ call' = call /\ answer' = answer /\ Rest
  BY DEF listVars, Kept, Rest
<1>2. IInv' /\ ItsOK' /\ ListOK' /\ Contents' = Contents
  BY <1>1, KeptIInv, KeptIts, RestList DEF SInv
<1>3. Live' = Live /\ Altered' = Altered /\ Positions' = Positions
  BY <1>1, KeptView DEF SInv
<1> QED BY <1>1, <1>2, <1>3 DEF SInv, Abstract!vars

\* A list whose ranges ascend, and are filled before anything looks at their chain, is
\* a sequence with iterators that count through it: every statement of the collection
\* library on a list, its iterators and FOR x IN l implement AbstractList.
THEOREM ListIsSequence == Ascending => (ListSpec /\ [][FilledFirst]_listVars => IsSequence)
<1> SUFFICES ASSUME Ascending PROVE ListSpec /\ [][FilledFirst]_listVars => IsSequence
  OBVIOUS
<1>1. Init => SInv
  BY InitSInv
<1>2. SInv /\ [Next]_listVars /\ [FilledFirst]_listVars => SInv' /\ [Abstract!Next]_(Abstract!vars)
  BY StepIs, StutterIs
<1> QED BY <1>1, <1>2, InitIs, PTL DEF ListSpec, IsSequence, Abstract!Spec

-----------------------------------------------------------------------------
(* The dictionary.                                                         *)

\* The same things of a table that is given: a is the array, h the hash.
HeldIn(a) == UNION {ToSet(a[b]) : b \in Bucket}
Before(a, b) == UNION {ToSet(a[n]) : n \in {m \in Bucket : m < b}}
PassedIn(a, c) ==
    IF c.at = "begin" THEN {}
    ELSE IF ~DictFound(c) THEN HeldIn(a)
    ELSE Before(a, c.bucket)
         \cup {a[c.bucket][i] : i \in {n \in DOMAIN a[c.bucket] :
                 \E m \in n..Len(a[c.bucket]) : a[c.bucket][m] = c.at}}

\* A chain: no key twice, and only keys of bucket b.
ChainOf(h, b, s) ==
    /\ s \in Seq(Keys) /\ Distinct(s)
    /\ \A i \in DOMAIN s : h[s[i]] = b

ValuesIn(v) == v = [k \in Keys |-> v[k]]
TableIs(h, a, v) ==
    /\ h \in [Keys -> Bucket]
    /\ a = [b \in Bucket |-> a[b]]
    /\ \A b \in Bucket : ChainOf(h, b, a[b])
    /\ ValuesIn(v)

\* An iterator: where it is, it may have been freed since, but it is at no other node
\* that is not in the table.
PlaceIn(a, c) ==
    /\ c = [alive |-> c.alive, at |-> c.at, bucket |-> c.bucket]
    /\ c.alive \in BOOLEAN /\ c.bucket \in Nat
    /\ c.at \in HeldIn(a) \cup NoPlace
    /\ c.at = "begin" => c.bucket = 0

\* Where an iterator of a table that has not changed is.
InPlaceIn(h, a, c) ==
    \/ c.at = "begin" /\ c.bucket = 0
    \/ c.at \in HeldIn(a) /\ c.bucket = h[c.at]
    \/ c.at = "head" /\ c.bucket = Size /\ a[Size - 1] = <<>>
    \/ c.at = "null"

TableOK == TableIs(hash, array, value)
CountOK == IsFiniteSet(Held) /\ dictCount = Cardinality(Held)
DictItsOK == dictIts = [it \in Iterators |-> dictIts[it]] /\ \A it \in Iterators : PlaceIn(array, dictIts[it])

\* The lock counts the iterators, below zero after a write.
CountsAll(lk, S) == /\ IsFiniteSet(S) /\ lk \in Int
                    /\ lk = Cardinality(S) \/ lk = 0 - Cardinality(S)
DictLockCounts == CountsAll(dictLock, Alive)

DictInPlace ==
    dictLock >= 0 => /\ \A it \in Alive : InPlaceIn(hash, array, dictIts[it])
                     /\ "loop" \in Alive => DictFound(DictLoop)

DictInv == TableOK /\ CountOK /\ DictItsOK /\ DictLockCounts /\ DictInPlace

-----------------------------------------------------------------------------
(* Chains.                                                                 *)

\* What _ls_try_remove leaves of a chain.
LEMMA WithoutKey ==
    ASSUME NEW s \in Seq(Keys), Distinct(s), NEW k
    PROVE  /\ RemoveFirst(s, k) \in Seq(Keys) /\ Distinct(RemoveFirst(s, k))
           /\ ToSet(RemoveFirst(s, k)) = ToSet(s) \ {k}
<1> DEFINE n == Len(s)
           t == RemoveFirst(s, k)
<1>1. n \in Nat /\ DOMAIN s = 1 .. n /\ \A i \in 1 .. n : s[i] \in Keys
    BY LenProperties
<1>2. CASE ~\E i \in 1 .. n : s[i] = k
    <2>1. t = s
        BY <1>2 DEF RemoveFirst
    <2>2. k \notin ToSet(s)
        BY <1>1, <1>2 DEF ToSet
    <2> QED
        BY <2>1, <2>2
<1>3. CASE \E i \in 1 .. n : s[i] = k
    <2> DEFINE I == {i \in 1 .. n : s[i] = k}
               p == Min(I)
    <2>1. p \in I
        <3>1. I \subseteq Nat /\ I # {}
            BY <1>3
        <3> HIDE DEF I
        <3>2. \E least \in I : \A other \in I : least <= other
            BY <3>1, LeastOf
        <3> QED
            BY <3>2 DEF Min
    <2>2. p \in 1 .. n /\ s[p] = k
        BY <2>1
    <2>3. t = SubSeq(s, 1, p - 1) \o SubSeq(s, p + 1, n)
        BY <1>3 DEF RemoveFirst, SelectInSeq, RemoveAt
    <2> HIDE DEF p, t, I, n
    <2> DEFINE left == SubSeq(s, 1, p - 1)
               right == SubSeq(s, p + 1, n)
    <2>4. /\ left \in Seq(Keys) /\ Len(left) = p - 1
          /\ \A i \in 1 .. p - 1 : left[i] = s[i]
        <3>1. 1 \in Int /\ p - 1 \in Int /\ \A i \in 1 .. p - 1 : s[i] \in Keys
            BY <1>1, <2>2
        <3>2. /\ left \in Seq(Keys) /\ Len(left) = (IF 1 <= p - 1 THEN p - 1 - 1 + 1 ELSE 0)
              /\ \A i \in 1 .. p - 1 - 1 + 1 : left[i] = s[1 + i - 1]
            BY <3>1, SubSeqProperties
        <3> HIDE DEF left
        <3> QED
            BY <1>1, <2>2, <3>2
    <2>5. /\ right \in Seq(Keys) /\ Len(right) = n - p
          /\ \A i \in 1 .. n - p : right[i] = s[p + i]
        <3>1. p + 1 \in Int /\ n \in Int /\ \A i \in p + 1 .. n : s[i] \in Keys
            BY <1>1, <2>2
        <3>2. /\ right \in Seq(Keys) /\ Len(right) = (IF p + 1 <= n THEN n - (p + 1) + 1 ELSE 0)
              /\ \A i \in 1 .. n - (p + 1) + 1 : right[i] = s[p + 1 + i - 1]
            BY <3>1, SubSeqProperties
        <3> HIDE DEF right, n
        <3>3. ASSUME NEW i \in 1 .. n - p PROVE right[i] = s[p + i]
            <4>1. i \in 1 .. n - (p + 1) + 1 /\ p + 1 + i - 1 = p + i
                BY <1>1, <2>2
            <4> QED
                BY <3>2, <4>1
        <3>4. Len(right) = n - p
            BY <1>1, <2>2, <3>2
        <3> QED
            BY <3>2, <3>3, <3>4
    <2> HIDE DEF left, right
    <2>6. /\ t \in Seq(Keys) /\ Len(t) = n - 1
          /\ \A i \in 1 .. n - 1 : t[i] = IF i < p THEN s[i] ELSE s[i + 1]
        <3>1. /\ t \in Seq(Keys) /\ Len(t) = (p - 1) + (n - p)
              /\ \A i \in 1 .. (p - 1) + (n - p) :
                    t[i] = IF i <= p - 1 THEN left[i] ELSE right[i - (p - 1)]
            <4> DEFINE u == left \o right
            <4>1. /\ u \in Seq(Keys) /\ Len(u) = Len(left) + Len(right)
                  /\ \A i \in 1 .. Len(left) + Len(right) :
                        u[i] = IF i <= Len(left) THEN left[i] ELSE right[i - Len(left)]
                BY <2>4, <2>5, ConcatProperties
            <4>2. t = u
                BY <2>3, Zenon DEF left, right
            <4> HIDE DEF u
            <4> QED
                BY <2>4, <2>5, <4>1, <4>2
        <3>2. ASSUME NEW i \in 1 .. n - 1 PROVE t[i] = IF i < p THEN s[i] ELSE s[i + 1]
            <4>1. i \in 1 .. (p - 1) + (n - p)
                BY <1>1, <2>2
            <4>2. CASE i < p
                <5>1. i \in 1 .. p - 1 /\ i <= p - 1
                    BY <2>2, <4>2
                <5> QED
                    BY <2>4, <3>1, <4>1, <4>2, <5>1
            <4>3. CASE ~(i < p)
                <5>1. i - (p - 1) \in 1 .. n - p /\ ~(i <= p - 1) /\ p + (i - (p - 1)) = i + 1
                    BY <1>1, <2>2, <4>3
                <5> QED
                    BY <2>5, <3>1, <4>1, <4>3, <5>1
            <4> QED
                BY <4>2, <4>3
        <3>3. (p - 1) + (n - p) = n - 1
            BY <1>1, <2>2
        <3> HIDE DEF t, n
        <3>4. t \in Seq(Keys) /\ Len(t) = n - 1
            BY <3>1, <3>3
        <3> QED
            BY <3>2, <3>4
    <2>7. DOMAIN t = 1 .. n - 1
        BY <2>6, LenProperties
    <2>8. Distinct(t)
        <3> SUFFICES ASSUME NEW i \in 1 .. n - 1, NEW j \in 1 .. n - 1, t[i] = t[j]
                     PROVE  i = j
            BY <2>7 DEF Distinct
        <3> DEFINE at(m) == IF m < p THEN m ELSE m + 1
        <3>0. \A m \in 1 .. n - 1 : at(m) \in 1 .. n /\ t[m] = s[at(m)]
            <4> SUFFICES ASSUME NEW m \in 1 .. n - 1 PROVE at(m) \in 1 .. n /\ t[m] = s[at(m)]
                OBVIOUS
            <4>1. t[m] = IF m < p THEN s[m] ELSE s[m + 1]
                BY <2>6
            <4>2. m \in 1 .. n /\ m + 1 \in 1 .. n
                BY <1>1
            <4> QED
                BY <4>1, <4>2
        <3>1. at(i) \in 1 .. n /\ at(j) \in 1 .. n /\ s[at(i)] = s[at(j)]
            <4> HIDE DEF at
            <4> QED
                BY <3>0
        <3>2. at(i) = at(j)
            BY <1>1, <3>1 DEF Distinct
        <3> QED
            BY <2>2, <3>2
    <2>9. ToSet(t) = ToSet(s) \ {k}
        <3>1. ASSUME NEW i \in 1 .. n - 1 PROVE t[i] \in ToSet(s) \ {k}
            <4>1. PICK j \in 1 .. n : t[i] = s[j] /\ j # p
                <5>1. i \in 1 .. n /\ i + 1 \in 1 .. n /\ (i < p => i # p) /\ (~(i < p) => i + 1 # p)
                    BY <1>1, <2>2
                <5> QED
                    BY <2>6, <5>1
            <4>2. s[j] # k
                BY <1>1, <2>2, <4>1 DEF Distinct
            <4> QED
                BY <1>1, <4>1, <4>2 DEF ToSet
        <3>2. ASSUME NEW j \in 1 .. n, s[j] # k PROVE \E i \in 1 .. n - 1 : t[i] = s[j]
            <4>1. j # p
                BY <2>2, <3>2
            <4>2. CASE j < p
                <5>1. j \in 1 .. n - 1
                    BY <1>1, <2>2, <4>2
                <5> QED
                    BY <2>6, <4>2, <5>1
            <4>3. CASE ~(j < p)
                <5>1. j - 1 \in 1 .. n - 1 /\ ~(j - 1 < p) /\ (j - 1) + 1 = j
                    BY <1>1, <2>2, <4>1, <4>3
                <5> QED
                    BY <2>6, <5>1
            <4> QED
                BY <4>2, <4>3
        <3>3. ToSet(t) \subseteq ToSet(s) \ {k}
            <4> SUFFICES ASSUME NEW el \in ToSet(t) PROVE el \in ToSet(s) \ {k}
                OBVIOUS
            <4>1. PICK i \in 1 .. n - 1 : el = t[i]
                BY <2>7 DEF ToSet
            <4> QED
                BY <3>1, <4>1
        <3>4. ToSet(s) \ {k} \subseteq ToSet(t)
            <4> SUFFICES ASSUME NEW el \in ToSet(s), el # k PROVE el \in ToSet(t)
                OBVIOUS
            <4>1. PICK j \in 1 .. n : el = s[j]
                BY <1>1 DEF ToSet, n
            <4>2. PICK i \in 1 .. n - 1 : t[i] = s[j]
                BY <3>2, <4>1
            <4> QED
                BY <2>7, <4>1, <4>2 DEF ToSet
        <3> QED
            BY <3>3, <3>4
    <2> QED
        BY <2>6, <2>8, <2>9 DEF t
<1> QED
    BY <1>2, <1>3

LEMMA WithKey ==
    ASSUME NEW s \in Seq(Keys), Distinct(s), NEW k \in Keys, k \notin ToSet(s)
    PROVE  /\ Append(s, k) \in Seq(Keys) /\ Distinct(Append(s, k))
           /\ ToSet(Append(s, k)) = ToSet(s) \cup {k}
<1> DEFINE n == Len(s)
           t == Append(s, k)
<1>1. n \in Nat /\ DOMAIN s = 1 .. n
    BY LenProperties
<1>2. /\ t \in Seq(Keys) /\ DOMAIN t = 1 .. n + 1
      /\ t[n + 1] = k /\ \A i \in 1 .. n : t[i] = s[i]
    BY <1>1
<1> HIDE DEF t, n
<1>3. \A i \in 1 .. n : s[i] # k
    BY <1>1 DEF ToSet
<1>4. \A i \in 1 .. n + 1 : i \in 1 .. n \/ i = n + 1
    BY <1>1
<1>5. Distinct(t)
    BY <1>1, <1>2, <1>3, <1>4 DEF Distinct
<1>6. ToSet(t) = ToSet(s) \cup {k}
    <2>1. n + 1 \in 1 .. n + 1 /\ \A i \in 1 .. n : i \in 1 .. n + 1
        BY <1>1
    <2> QED
        BY <1>1, <1>2, <1>4, <2>1 DEF ToSet
<1> QED
    BY <1>2, <1>5, <1>6 DEF t

-----------------------------------------------------------------------------
(* The table.                                                              *)

\* A key is held when it is in the chain its hash names.
LEMMA HeldWhere ==
    ASSUME NEW h, NEW a, NEW v, TableIs(h, a, v)
    PROVE  /\ HeldIn(a) \subseteq Keys
           /\ \A k \in HeldIn(a) : h[k] \in Bucket /\ k \in ToSet(a[h[k]])
           /\ \A b \in Bucket : \A i \in DOMAIN a[b] : a[b][i] \in HeldIn(a) /\ h[a[b][i]] = b
<1>1. ASSUME NEW b \in Bucket, NEW i \in DOMAIN a[b]
      PROVE  a[b][i] \in Keys /\ h[a[b][i]] = b /\ a[b][i] \in HeldIn(a)
    <2>1. a[b] \in Seq(Keys) /\ \A j \in DOMAIN a[b] : h[a[b][j]] = b
        BY DEF TableIs, ChainOf
    <2>2. a[b][i] \in Keys
        BY <2>1, LenProperties
    <2> QED
        BY <2>1, <2>2 DEF HeldIn, ToSet
<1>2. ASSUME NEW k \in HeldIn(a) PROVE k \in Keys /\ h[k] \in Bucket /\ k \in ToSet(a[h[k]])
    <2>1. PICK b \in Bucket : k \in ToSet(a[b])
        BY DEF HeldIn
    <2>2. PICK i \in DOMAIN a[b] : k = a[b][i]
        BY <2>1 DEF ToSet
    <2>3. k \in Keys /\ h[k] = b
        BY <1>1, <2>2
    <2> QED
        BY <2>1, <2>3
<1> QED
    BY <1>1, <1>2

LEMMA FindsHeld ==
    ASSUME TableOK, NEW k \in Keys
    PROVE  Held = HeldIn(array) /\ hash[k] \in Bucket /\ (Finds(k) <=> k \in Held)
<1>1. Held = HeldIn(array) /\ hash[k] \in Bucket
    BY DEF Held, HeldIn, TableOK, TableIs
<1>2. array[hash[k]] \in Seq(Keys)
    BY <1>1 DEF TableOK, TableIs, ChainOf
<1>3. Finds(k) <=> k \in ToSet(array[hash[k]])
    BY <1>2, LenProperties DEF Finds, Contains, ToSet
<1>4. k \in ToSet(array[hash[k]]) => k \in HeldIn(array)
    BY <1>1 DEF HeldIn
<1>5. k \in HeldIn(array) => k \in ToSet(array[hash[k]])
    BY HeldWhere DEF TableOK
<1> QED
    BY <1>1, <1>3, <1>4, <1>5

LEMMA PassedIs ==
    ASSUME NEW c
    PROVE  Passed(c) = PassedIn(array, c)
<1>1. Before(array, c.bucket) = UNION {ToSet(array[b]) : b \in {n \in Bucket : n < c.bucket}}
    BY DEF Before
<1> QED
    BY <1>1 DEF Passed, PassedIn, Held, HeldIn

\* The chain of one key changes.
LEMMA OneChain ==
    ASSUME NEW h, NEW a, NEW v, TableIs(h, a, v), NEW b \in Bucket, NEW s, ChainOf(h, b, s),
           NEW w, ValuesIn(w)
    PROVE  /\ TableIs(h, [a EXCEPT ![b] = s], w)
           /\ HeldIn([a EXCEPT ![b] = s]) = (HeldIn(a) \ ToSet(a[b])) \cup ToSet(s)
<1> DEFINE aa == [a EXCEPT ![b] = s]
<1>1. aa = [c \in Bucket |-> IF c = b THEN s ELSE a[c]]
    BY DEF TableIs
<1>2. \A c \in Bucket : aa[c] = IF c = b THEN s ELSE a[c]
    BY <1>1
<1>3. aa = [c \in Bucket |-> aa[c]]
    BY <1>1
<1> HIDE DEF aa
<1>4. \A c \in Bucket : ChainOf(h, c, aa[c])
    BY <1>2 DEF TableIs
<1>5. TableIs(h, aa, w)
    BY <1>3, <1>4 DEF TableIs
<1>6. ASSUME NEW c \in Bucket, NEW k \in ToSet(a[c]) PROVE c = b <=> k \in ToSet(a[b])
    <2>1. \A d \in Bucket : k \in ToSet(a[d]) => h[k] = d
        BY DEF TableIs, ChainOf, ToSet
    <2> QED
        BY <1>6, <2>1
<1>7. HeldIn(aa) = (HeldIn(a) \ ToSet(a[b])) \cup ToSet(s)
    <2>1. ASSUME NEW k \in HeldIn(aa) PROVE k \in (HeldIn(a) \ ToSet(a[b])) \cup ToSet(s)
        <3>1. PICK c \in Bucket : k \in ToSet(aa[c])
            BY DEF HeldIn
        <3>2. c = b => k \in ToSet(s)
            BY <1>2, <3>1
        <3>3. c # b => k \in ToSet(a[c])
            BY <1>2, <3>1
        <3> QED
            BY <1>6, <3>2, <3>3 DEF HeldIn
    <2>2. ASSUME NEW k \in HeldIn(a) \ ToSet(a[b]) PROVE k \in HeldIn(aa)
        <3>1. PICK c \in Bucket : k \in ToSet(a[c])
            BY DEF HeldIn
        <3>2. c # b
            BY <3>1
        <3> QED
            BY <1>2, <3>1, <3>2 DEF HeldIn
    <2>3. ASSUME NEW k \in ToSet(s) PROVE k \in HeldIn(aa)
        BY <1>2 DEF HeldIn
    <2> QED
        BY <2>1, <2>2, <2>3
<1> QED
    BY <1>5, <1>7 DEF aa

-----------------------------------------------------------------------------
(* _move_dict_it_next.                                                     *)

\* From a bucket on: the first key of the first chain that has one.
LEMMA FirstFromIs ==
    ASSUME DictSuits, TableOK, NEW c, PlaceIn(array, c), c.at \in {"begin", "null"}
    PROVE  LET next == FirstFrom(c)
           IN /\ PlaceIn(array, next) /\ next.alive = c.alive
              /\ \/ /\ next.bucket \in Bucket /\ next.bucket >= c.bucket
                    /\ array[next.bucket] # <<>> /\ next.at = array[next.bucket][1]
                    /\ \A b \in Bucket : b >= c.bucket /\ b < next.bucket => array[b] = <<>>
                 \/ /\ \A b \in Bucket : b >= c.bucket => array[b] = <<>>
                    /\ \/ next.at = "head" /\ next.bucket = Size
                       \/ next.at = c.at /\ c.at = "null"
<1> DEFINE next == FirstFrom(c)
           filled == {b \in Bucket : b >= c.bucket /\ array[b] # <<>>}
           m == CHOOSE least \in filled : \A n \in filled : least <= n
<1>1. c = [alive |-> c.alive, at |-> c.at, bucket |-> c.bucket] /\ c.alive \in BOOLEAN
        /\ c.bucket \in Nat /\ Size \in Nat \ {0} /\ Bucket \subseteq Nat
    BY DEF PlaceIn, DictSuits, Bucket
<1>2. CASE filled # {}
    <2>1. m \in filled /\ \A n \in filled : m <= n
        <3>1. filled \subseteq Nat
            BY <1>1
        <3>2. \E least \in filled : \A n \in filled : least <= n
            <4> HIDE DEF filled
            <4> QED
                BY <1>2, <3>1, LeastOf
        <3> HIDE DEF filled
        <3> QED
            BY <3>2
    <2>2. next = [c EXCEPT !.at = array[m][1], !.bucket = m]
        BY <1>2 DEF FirstFrom
    <2> HIDE DEF m
    <2>3. m \in Bucket /\ m >= c.bucket /\ array[m] # <<>> /\ m \in Nat
        BY <1>1, <2>1
    <2>4. array[m][1] \in HeldIn(array) /\ array[m][1] # "begin"
        <3>1. array[m] \in Seq(Keys)
            BY <2>3 DEF TableOK, TableIs, ChainOf
        <3>2. 1 \in DOMAIN array[m]
            BY <2>3, <3>1, EmptySeq, LenProperties
        <3>3. array[m][1] \in HeldIn(array)
            BY <2>3, <3>2 DEF HeldIn, ToSet
        <3>4. "begin" \notin Keys
            BY DEF DictSuits, NoPlace
        <3> QED
            BY <3>3, <3>4, HeldWhere DEF TableOK
    <2>5. \A b \in Bucket : b >= c.bucket /\ b < m => array[b] = <<>>
        <3> SUFFICES ASSUME NEW b \in Bucket, b >= c.bucket, b < m, array[b] # <<>> PROVE FALSE
            OBVIOUS
        <3>1. b \in filled /\ b \in Nat
            BY <1>1
        <3>2. m <= b
            BY <2>1, <3>1
        <3> QED
            BY <2>3, <3>1, <3>2
    <2>6. next = [alive |-> c.alive, at |-> array[m][1], bucket |-> m]
        BY <1>1, <2>2
    <2> HIDE DEF next
    <2>7. PlaceIn(array, next) /\ next.alive = c.alive /\ next.bucket = m /\ next.at = array[m][1]
        BY <1>1, <2>3, <2>4, <2>6 DEF PlaceIn
    <2> QED
        BY <2>3, <2>5, <2>7 DEF next
<1>3. CASE filled = {}
    <2>1. \A b \in Bucket : b >= c.bucket => array[b] = <<>>
        BY <1>3
    <2> DEFINE spot == IF c.at = "begin" \/ c.bucket < Size THEN "head" ELSE c.at
               far == IF c.bucket < Size THEN Size ELSE c.bucket
    <2>2. next = [c EXCEPT !.at = spot, !.bucket = far]
        BY <1>3 DEF FirstFrom
    <2>3. next = [alive |-> c.alive, at |-> spot, bucket |-> far] /\ far \in Nat
        BY <1>1, <2>2
    <2>4. spot \in NoPlace /\ spot # "begin" /\ (spot = "head" => far = Size)
             /\ (spot # "head" => spot = c.at /\ c.at = "null")
        BY <1>1 DEF NoPlace, PlaceIn
    <2> HIDE DEF next
    <2>5. PlaceIn(array, next) /\ next.alive = c.alive /\ next.at = spot /\ next.bucket = far
        <3> HIDE DEF spot, far
        <3> QED
            BY <1>1, <2>3, <2>4 DEF PlaceIn
    <2> HIDE DEF spot, far
    <2> QED
        BY <2>1, <2>4, <2>5 DEF next
<1> QED
    BY <1>2, <1>3

\* At a key, the next of its chain; at the head of the last chain, its first.
LEMMA FollowsIs ==
    ASSUME DictSuits, TableOK, NEW c
    PROVE  /\ c.at \in HeldIn(array) =>
                \E i \in 1 .. Len(array[hash[c.at]]) :
                   /\ array[hash[c.at]][i] = c.at
                   /\ Follows(c) = IF i < Len(array[hash[c.at]]) THEN array[hash[c.at]][i + 1]
                                   ELSE "null"
           /\ c.at = "head" =>
                Follows(c) = IF array[Size - 1] = <<>> THEN "null" ELSE array[Size - 1][1]
<1>1. ASSUME c.at \in HeldIn(array)
      PROVE  \E i \in 1 .. Len(array[hash[c.at]]) :
                   /\ array[hash[c.at]][i] = c.at
                   /\ Follows(c) = IF i < Len(array[hash[c.at]]) THEN array[hash[c.at]][i + 1]
                                   ELSE "null"
    <2> DEFINE s == array[hash[c.at]]
               i == CHOOSE n \in DOMAIN s : s[n] = c.at
    <2>1. c.at # "head" /\ c.at \in ToSet(s) /\ hash[c.at] \in Bucket
        BY <1>1, HeldWhere DEF TableOK, DictSuits, NoPlace
    <2>2. DOMAIN s = 1 .. Len(s)
        <3>1. s \in Seq(Keys)
            BY <2>1 DEF TableOK, TableIs, ChainOf
        <3> HIDE DEF s
        <3> QED
            BY <3>1, LenProperties
    <2>3. i \in DOMAIN s /\ s[i] = c.at
        <3>1. \E n \in DOMAIN s : s[n] = c.at
            BY <2>1 DEF ToSet
        <3> HIDE DEF s
        <3> QED
            BY <3>1
    <2>4. Follows(c) = IF i < Len(s) THEN s[i + 1] ELSE "null"
        BY <2>1 DEF Follows
    <2> HIDE DEF i
    <2> QED
        BY <2>2, <2>3, <2>4
<1>2. ASSUME c.at = "head"
      PROVE  Follows(c) = IF array[Size - 1] = <<>> THEN "null" ELSE array[Size - 1][1]
    <2> DEFINE a == array[Size - 1]
               s == <<"head">> \o a
               i == CHOOSE n \in DOMAIN s : s[n] = "head"
    <2>1. a \in Seq(Keys)
        <3>1. Size - 1 \in Bucket
            BY DEF DictSuits, Bucket
        <3> QED
            BY <3>1 DEF TableOK, TableIs, ChainOf
    <2>2. Follows(c) = IF i < Len(s) THEN s[i + 1] ELSE "null"
        BY <1>2 DEF Follows
    <2> HIDE DEF a
    <2>3. Len(a) \in Nat /\ \A n \in 1 .. Len(a) : a[n] \in Keys
        BY <2>1, LenProperties
    <2>4. /\ DOMAIN s = 1 .. Len(a) + 1 /\ Len(s) = Len(a) + 1
          /\ s[1] = "head" /\ \A n \in 1 .. Len(a) : s[n + 1] = a[n]
        <3> DEFINE S == Keys \cup {"head"}
        <3>1. a \in Seq(S) /\ <<"head">> \in Seq(S)
            BY <2>1, SeqMonotonic
        <3>2. Len(<<"head">>) = 1 /\ <<"head">>[1] = "head"
            OBVIOUS
        <3>3. /\ s \in Seq(S) /\ Len(s) = 1 + Len(a)
              /\ \A n \in 1 .. 1 + Len(a) : s[n] = IF n <= 1 THEN <<"head">>[n] ELSE a[n - 1]
            BY <3>1, <3>2, ConcatProperties
        <3>4. DOMAIN s = 1 .. Len(s)
            BY <3>3, LenProperties
        <3> HIDE DEF s
        <3>5. s[1] = "head"
            BY <2>3, <3>2, <3>3
        <3>6. ASSUME NEW n \in 1 .. Len(a) PROVE s[n + 1] = a[n]
            <4>1. n + 1 \in 1 .. 1 + Len(a) /\ ~(n + 1 <= 1) /\ (n + 1) - 1 = n
                BY <2>3
            <4> QED
                BY <3>3, <4>1
        <3> QED
            BY <2>3, <3>3, <3>4, <3>5, <3>6
    <2>5. \A n \in DOMAIN s : s[n] = "head" => n = 1
        <3> SUFFICES ASSUME NEW n \in 1 .. Len(a) + 1, n # 1 PROVE s[n] # "head"
            BY <2>4
        <3>1. n - 1 \in 1 .. Len(a) /\ (n - 1) + 1 = n
            BY <2>3
        <3>2. s[n] \in Keys
            BY <2>3, <2>4, <3>1
        <3> QED
            BY <3>2 DEF DictSuits, NoPlace
    <2> HIDE DEF s
    <2>6. i = 1
        <3>1. 1 \in DOMAIN s
            BY <2>3, <2>4
        <3> QED
            BY <2>4, <2>5, <3>1
    <2> HIDE DEF i
    <2>7. a = <<>> <=> ~(1 < Len(a) + 1)
        BY <2>1, EmptySeq
    <2>8. a # <<>> => s[1 + 1] = a[1]
        BY <2>3, <2>4, <2>7
    <2> QED
        BY <2>2, <2>4, <2>6, <2>7, <2>8 DEF a
<1> QED
    BY <1>1, <1>2

\* Past the end of a chain.
LEMMA Further ==
    ASSUME NEW c, c = [alive |-> c.alive, at |-> c.at, bucket |-> c.bucket]
    PROVE  [c EXCEPT !.at = "null", !.bucket = @ + 1]
             = [alive |-> c.alive, at |-> "null", bucket |-> c.bucket + 1]
<1> DEFINE left == [c EXCEPT !.at = "null"]
           m == c.bucket + 1
<1>1. left = [alive |-> c.alive, at |-> "null", bucket |-> c.bucket]
    <2>1. PICK el, p, b : c = [alive |-> el, at |-> p, bucket |-> b]
        OBVIOUS
    <2>2. left = [alive |-> el, at |-> "null", bucket |-> b]
        BY ONLY <2>1
    <2> HIDE DEF left
    <2> QED
        BY <2>1, <2>2
<1>2. [c EXCEPT !.at = "null", !.bucket = @ + 1] = [left EXCEPT !.bucket = m]
    OBVIOUS
<1> HIDE DEF left, m
<1>3. [left EXCEPT !.bucket = m] = [alive |-> c.alive, at |-> "null", bucket |-> m]
    BY ONLY <1>1
<1> QED
    BY <1>2, <1>3 DEF m

\* An iterator that is at no freed node goes on to a place of the table.
LEMMA OnwardPlace ==
    ASSUME DictSuits, TableOK, NEW c, PlaceIn(array, c), c.at # "freed"
    PROVE  /\ PlaceIn(array, DictOnward(c)) /\ DictOnward(c).alive = c.alive
           /\ DictOnward(c).at \in HeldIn(array) \cup {"head", "null"}
<1>1. c = [alive |-> c.alive, at |-> c.at, bucket |-> c.bucket] /\ c.alive \in BOOLEAN
        /\ c.bucket \in Nat /\ c.at \in HeldIn(array) \cup NoPlace
        /\ "null" \notin HeldIn(array) /\ "begin" \notin HeldIn(array)
    BY HeldWhere DEF PlaceIn, DictSuits, NoPlace, TableOK
<1>2. ASSUME NEW d, PlaceIn(array, d), d.at \in {"begin", "null"}
      PROVE  /\ PlaceIn(array, FirstFrom(d)) /\ FirstFrom(d).alive = d.alive
             /\ FirstFrom(d).at \in HeldIn(array) \cup {"head", "null"}
    <2> DEFINE next == FirstFrom(d)
    <2>1. /\ PlaceIn(array, next) /\ next.alive = d.alive
          /\ (next.bucket \in Bucket /\ next.at = array[next.bucket][1]
                /\ array[next.bucket] # <<>>)
             \/ next.at \in {"head", "null"}
        BY <1>2, FirstFromIs
    <2> HIDE DEF next
    <2>2. ASSUME NEW b \in Bucket, array[b] # <<>> PROVE array[b][1] \in HeldIn(array)
        <3>1. array[b] \in Seq(Keys)
            BY DEF TableOK, TableIs, ChainOf
        <3>2. 1 \in DOMAIN array[b]
            BY <2>2, <3>1, EmptySeq, LenProperties
        <3> QED
            BY <3>2 DEF HeldIn, ToSet
    <2> QED
        BY <2>1, <2>2 DEF next
<1>3. CASE c.at = "null"
    <2>1. DictOnward(c) = c
        BY <1>3 DEF DictOnward
    <2> QED
        BY <1>3, <2>1
<1>4. CASE c.at = "begin"
    <2>1. DictOnward(c) = FirstFrom(c)
        BY <1>4 DEF DictOnward
    <2> QED
        BY <1>2, <1>4, <2>1
<1>5. CASE c.at \notin {"null", "begin"}
    <2>1. c.at \in HeldIn(array) \/ c.at = "head"
        BY <1>1, <1>5 DEF NoPlace
    <2>2. Follows(c) # "null" => Follows(c) \in HeldIn(array)
        <3>1. ASSUME NEW b \in Bucket, NEW i \in 1 .. Len(array[b])
              PROVE  array[b][i] \in HeldIn(array)
            <4>1. array[b] \in Seq(Keys)
                BY DEF TableOK, TableIs, ChainOf
            <4> QED
                BY <4>1, LenProperties DEF HeldIn, ToSet
        <3>2. CASE c.at \in HeldIn(array)
            <4>1. hash[c.at] \in Bucket
                BY <3>2, HeldWhere DEF TableOK
            <4>2. PICK i \in 1 .. Len(array[hash[c.at]]) :
                     Follows(c) = IF i < Len(array[hash[c.at]]) THEN array[hash[c.at]][i + 1]
                                  ELSE "null"
                BY <3>2, FollowsIs
            <4>3. Len(array[hash[c.at]]) \in Nat
                BY <4>1, LenProperties DEF TableOK, TableIs, ChainOf
            <4>4. i < Len(array[hash[c.at]]) => i + 1 \in 1 .. Len(array[hash[c.at]])
                BY <4>3
            <4> QED
                BY <3>1, <4>1, <4>2, <4>4
        <3>3. CASE c.at = "head"
            <4>1. Size - 1 \in Bucket
                BY DEF DictSuits, Bucket
            <4>2. array[Size - 1] # <<>> => 1 \in 1 .. Len(array[Size - 1])
                <5>1. array[Size - 1] \in Seq(Keys)
                    BY <4>1 DEF TableOK, TableIs, ChainOf
                <5> QED
                    BY <5>1, EmptySeq
            <4> QED
                BY <3>1, <3>3, <4>1, <4>2, FollowsIs
        <3> QED
            BY <2>1, <3>2, <3>3
    <2>3. CASE Follows(c) # "null"
        <3>1. DictOnward(c) = [c EXCEPT !.at = Follows(c)]
            BY <1>5, <2>3 DEF DictOnward
        <3>2. DictOnward(c) = [alive |-> c.alive, at |-> Follows(c), bucket |-> c.bucket]
            BY <1>1, <3>1
        <3> QED
            BY <1>1, <2>2, <2>3, <3>2 DEF PlaceIn
    <2>4. CASE Follows(c) = "null"
        <3> DEFINE d == [c EXCEPT !.at = "null", !.bucket = @ + 1]
        <3>1. DictOnward(c) = FirstFrom(d)
            BY <1>5, <2>4 DEF DictOnward
        <3>2. d = [alive |-> c.alive, at |-> "null", bucket |-> c.bucket + 1]
            BY <1>1, Further
        <3> HIDE DEF d
        <3>3. PlaceIn(array, d) /\ d.at = "null" /\ d.alive = c.alive
            BY <1>1, <3>2 DEF PlaceIn, NoPlace
        <3> QED
            BY <1>2, <3>1, <3>3
    <2> QED
        BY <2>3, <2>4
<1> QED
    BY <1>3, <1>4, <1>5

LEMMA PassedAtKey ==
    ASSUME DictSuits, TableOK, NEW c, c.at \in HeldIn(array), c.bucket = hash[c.at],
           NEW i \in 1 .. Len(array[c.bucket]), array[c.bucket][i] = c.at
    PROVE  PassedIn(array, c) = Before(array, c.bucket) \cup {array[c.bucket][j] : j \in 1 .. i}
<1> DEFINE s == array[c.bucket]
<1>1. c.at # "begin" /\ DictFound(c) /\ c.bucket \in Bucket
    BY HeldWhere DEF TableOK, DictSuits, NoPlace, DictFound
<1>2. s \in Seq(Keys) /\ Distinct(s)
    BY <1>1 DEF TableOK, TableIs, ChainOf
<1>3. Len(s) \in Nat /\ DOMAIN s = 1 .. Len(s)
    BY <1>2, LenProperties
<1>4. {n \in DOMAIN s : \E m \in n .. Len(s) : s[m] = c.at} = 1 .. i
    <2> HIDE DEF s
    <2>1. s[i] = c.at /\ i \in 1 .. Len(s)
        BY DEF s
    <2>2. ASSUME NEW n \in DOMAIN s, NEW m \in n .. Len(s), s[m] = c.at PROVE n \in 1 .. i
        <3>1. m \in DOMAIN s /\ i \in DOMAIN s
            BY <1>3, <2>1
        <3>2. m = i
            BY <1>2, <2>1, <2>2, <3>1 DEF Distinct
        <3> QED
            BY <1>3, <3>2
    <2>3. ASSUME NEW n \in 1 .. i PROVE n \in DOMAIN s /\ i \in n .. Len(s)
        BY <1>3, <2>1
    <2> QED
        BY <2>1, <2>2, <2>3
<1>5. PassedIn(array, c)
        = Before(array, c.bucket)
          \cup {s[j] : j \in {n \in DOMAIN s : \E m \in n .. Len(s) : s[m] = c.at}}
    BY <1>1 DEF PassedIn
<1> DEFINE reached == {n \in DOMAIN s : \E m \in n .. Len(s) : s[m] = c.at}
<1>6. PassedIn(array, c) = Before(array, c.bucket) \cup {s[j] : j \in reached}
    BY <1>5
<1>7. reached = 1 .. i
    BY <1>4
<1> HIDE DEF reached
<1> QED
    BY <1>6, <1>7

\* An iterator of a table that has not changed goes to a key it has not been at, and
\* ends when it has been at all of them.
LEMMA OnwardPasses ==
    ASSUME DictSuits, TableOK, NEW c, PlaceIn(array, c), InPlaceIn(hash, array, c)
    PROVE  /\ InPlaceIn(hash, array, DictOnward(c))
           /\ DictFound(DictOnward(c)) =>
                /\ DictOnward(c).at \in HeldIn(array) \ PassedIn(array, c)
                /\ PassedIn(array, DictOnward(c)) = PassedIn(array, c) \cup {DictOnward(c).at}
           /\ ~DictFound(DictOnward(c)) => PassedIn(array, c) = HeldIn(array)
<1> DEFINE next == DictOnward(c)
           Fine == /\ InPlaceIn(hash, array, next)
                   /\ DictFound(next) =>
                        /\ next.at \in HeldIn(array) \ PassedIn(array, c)
                        /\ PassedIn(array, next) = PassedIn(array, c) \cup {next.at}
                   /\ ~DictFound(next) => PassedIn(array, c) = HeldIn(array)
<1> SUFFICES Fine
    OBVIOUS
<1>1. c = [alive |-> c.alive, at |-> c.at, bucket |-> c.bucket] /\ c.alive \in BOOLEAN
        /\ c.bucket \in Nat /\ Bucket \subseteq Nat /\ Size \in Nat \ {0}
    BY DEF PlaceIn, DictSuits, Bucket
<1>2. HeldIn(array) \subseteq Keys /\ "null" \notin Keys /\ "begin" \notin Keys
        /\ "head" \notin Keys
    BY HeldWhere DEF TableOK, DictSuits, NoPlace
<1>3. \A b \in Bucket : /\ array[b] \in Seq(Keys) /\ Len(array[b]) \in Nat
                        /\ DOMAIN array[b] = 1 .. Len(array[b])
    BY LenProperties DEF TableOK, TableIs, ChainOf
<1>4. \A b \in Bucket : \A i \in 1 .. Len(array[b]) :
         array[b][i] \in HeldIn(array) /\ hash[array[b][i]] = b
    BY <1>3, HeldWhere DEF TableOK
\* What FirstFrom makes of an iterator that has passed the chains before its bucket.
<1>5. ASSUME NEW d, PlaceIn(array, d), d.at \in {"begin", "null"}, next = FirstFrom(d),
             PassedIn(array, c) = Before(array, d.bucket)
      PROVE  Fine
    <2> DEFINE b == next.bucket
    <2>1. CASE /\ b \in Bucket /\ b >= d.bucket /\ array[b] # <<>> /\ next.at = array[b][1]
               /\ \A n \in Bucket : n >= d.bucket /\ n < b => array[n] = <<>>
        <3>1. 1 \in 1 .. Len(array[b])
            <4>1. array[b] \in Seq(Keys) /\ array[b] # <<>>
                BY <1>3, <2>1
            <4>2. Len(array[b]) \in Nat \ {0}
                BY <4>1, EmptySeq
            <4> QED
                BY <4>2
        <3>2. next.at \in HeldIn(array) /\ b = hash[next.at]
            BY <1>4, <2>1, <3>1
        <3>3. PassedIn(array, next) = Before(array, b) \cup {array[b][j] : j \in 1 .. 1}
            BY <2>1, <3>1, <3>2, PassedAtKey
        <3>4. Before(array, b) = Before(array, d.bucket)
            <4>1. d.bucket \in Nat /\ b \in Nat
                BY <1>1, <1>5, <2>1 DEF PlaceIn
            <4>2. \A n \in Bucket : n < d.bucket => n < b
                BY <1>1, <2>1, <4>1
            <4>3. \A n \in Bucket : n < b => n < d.bucket \/ array[n] = <<>>
                BY <1>1, <2>1, <4>1
            <4>4. ToSet(<<>>) = {}
                BY DEF ToSet
            <4> HIDE DEF b
            <4> QED
                BY <4>2, <4>3, <4>4 DEF Before
        <3>5. next.at \notin Before(array, b)
            <4> SUFFICES ASSUME NEW n \in Bucket, n < b, next.at \in ToSet(array[n]) PROVE FALSE
                BY DEF Before
            <4>1. PICK i \in DOMAIN array[n] : next.at = array[n][i]
                BY DEF ToSet
            <4>2. hash[next.at] = n
                BY <1>3, <1>4, <4>1
            <4> QED
                BY <1>1, <2>1, <3>2, <4>2
        <3>6. {array[b][j] : j \in 1 .. 1} = {next.at}
            <4>1. 1 .. 1 = {1}
                OBVIOUS
            <4> QED
                BY <2>1, <4>1
        <3>7. InPlaceIn(hash, array, next) /\ DictFound(next)
            BY <1>2, <3>2 DEF InPlaceIn, DictFound
        <3> HIDE DEF next
        <3> QED
            BY <1>5, <3>2, <3>3, <3>4, <3>5, <3>6, <3>7
    <2>2. CASE /\ \A n \in Bucket : n >= d.bucket => array[n] = <<>>
               /\ \/ next.at = "head" /\ b = Size
                  \/ next.at = d.at /\ d.at = "null"
        <3>1. ~DictFound(next)
            BY <1>2, <2>2 DEF DictFound
        <3>2. PassedIn(array, c) = HeldIn(array)
            <4>1. d.bucket \in Nat
                BY <1>5 DEF PlaceIn
            <4>2. \A n \in Bucket : n < d.bucket \/ array[n] = <<>>
                BY <1>1, <2>2, <4>1
            <4>3. ToSet(<<>>) = {}
                BY DEF ToSet
            <4>4. Before(array, d.bucket) = HeldIn(array)
                BY <4>2, <4>3 DEF Before, HeldIn
            <4> QED
                BY <1>5, <4>4
        <3>3. next.at = "head" => array[Size - 1] = <<>>
            <4> SUFFICES ASSUME next.at = "head", array[Size - 1] # <<>> PROVE FALSE
                OBVIOUS
            <4>1. Size - 1 \in Bucket /\ d.bucket \in Nat
                BY <1>1, <1>5 DEF PlaceIn, Bucket
            <4>2. ~(Size - 1 >= d.bucket)
                BY <2>2, <4>1
            <4>3. d.bucket >= Size
                BY <1>1, <4>1, <4>2
            <4>4. d.at # "begin"
                BY <1>1, <1>5, <4>3 DEF PlaceIn
            <4>5. FirstFrom(d).at = "null"
                <5> DEFINE filled == {n \in Bucket : n >= d.bucket /\ array[n] # <<>>}
                <5>1. filled = {}
                    BY <2>2
                <5>2. ~(d.at = "begin" \/ d.bucket < Size) /\ d.at = "null"
                    BY <1>1, <1>5, <4>1, <4>3, <4>4
                <5>3. FirstFrom(d) = [d EXCEPT !.at = "null",
                                               !.bucket = IF @ < Size THEN Size ELSE @]
                    BY <5>1, <5>2 DEF FirstFrom
                <5>4. d = [alive |-> d.alive, at |-> d.at, bucket |-> d.bucket]
                    BY <1>5 DEF PlaceIn
                <5> QED
                    BY <5>3, <5>4
            <4> QED
                BY <1>5, <4>5
        <3>4. InPlaceIn(hash, array, next)
            BY <2>2, <3>3 DEF InPlaceIn
        <3> HIDE DEF next
        <3> QED
            BY <3>1, <3>2, <3>4
    <2>3. \/ /\ b \in Bucket /\ b >= d.bucket /\ array[b] # <<>> /\ next.at = array[b][1]
             /\ \A n \in Bucket : n >= d.bucket /\ n < b => array[n] = <<>>
          \/ /\ \A n \in Bucket : n >= d.bucket => array[n] = <<>>
             /\ \/ next.at = "head" /\ b = Size
                \/ next.at = d.at /\ d.at = "null"
        BY <1>5, FirstFromIs
    <2> QED
        BY <2>1, <2>2, <2>3
<1>6. CASE c.at = "begin"
    <2>1. next = FirstFrom(c)
        BY <1>6 DEF DictOnward
    <2>2. c.bucket = 0
        BY <1>6 DEF PlaceIn
    <2>3. PassedIn(array, c) = {} /\ Before(array, 0) = {}
        BY <1>1, <1>6 DEF PassedIn, Before, Bucket
    <2> QED
        BY <1>5, <1>6, <2>1, <2>2, <2>3
<1>7. CASE c.at \in HeldIn(array) /\ c.bucket = hash[c.at]
    <2> DEFINE s == array[c.bucket]
    <2>1. c.bucket \in Bucket /\ c.at \notin {"null", "begin"}
        BY <1>2, <1>7, HeldWhere DEF TableOK
    <2>2. PICK i \in 1 .. Len(s) :
             s[i] = c.at /\ Follows(c) = IF i < Len(s) THEN s[i + 1] ELSE "null"
        BY <1>7, FollowsIs
    <2>3. PassedIn(array, c) = Before(array, c.bucket) \cup {s[j] : j \in 1 .. i}
        BY <1>7, <2>2, PassedAtKey
    <2>4. Len(s) \in Nat /\ Distinct(s) /\ DOMAIN s = 1 .. Len(s)
        BY <1>3, <2>1 DEF TableOK, TableIs, ChainOf
    <2>5. CASE i < Len(s)
        <3>1. i + 1 \in 1 .. Len(s)
            BY <2>4, <2>5
        <3>2. s[i + 1] \in HeldIn(array) /\ hash[s[i + 1]] = c.bucket
            BY <1>4, <2>1, <3>1
        <3>3. Follows(c) = s[i + 1] /\ Follows(c) # "null"
            BY <1>2, <2>2, <2>5, <3>2
        <3>4. next = [c EXCEPT !.at = s[i + 1]]
            BY <2>1, <3>3 DEF DictOnward
        <3>5. next.at = s[i + 1] /\ next.bucket = c.bucket
            BY <1>1, <3>4
        <3> HIDE DEF next
        <3>6. PassedIn(array, next) = Before(array, c.bucket) \cup {s[j] : j \in 1 .. i + 1}
            BY <3>1, <3>2, <3>5, PassedAtKey
        <3>7. {s[j] : j \in 1 .. i + 1} = {s[j] : j \in 1 .. i} \cup {s[i + 1]}
            <4>1. 1 .. i + 1 = (1 .. i) \cup {i + 1}
                BY <2>4
            <4> HIDE DEF s
            <4> QED
                BY <4>1
        <3>8. s[i + 1] \notin {s[j] : j \in 1 .. i}
            <4> HIDE DEF s
            <4>1. \A j \in 1 .. i : j \in 1 .. Len(s) /\ j # i + 1
                BY <2>4
            <4> QED
                BY <2>4, <3>1, <4>1 DEF Distinct
        <3>9. s[i + 1] \notin Before(array, c.bucket)
            <4> SUFFICES ASSUME NEW n \in Bucket, n < c.bucket, s[i + 1] \in ToSet(array[n])
                         PROVE  FALSE
                BY DEF Before
            <4>1. PICK j \in DOMAIN array[n] : s[i + 1] = array[n][j]
                BY DEF ToSet
            <4>2. hash[s[i + 1]] = n
                BY <1>3, <1>4, <4>1
            <4> QED
                BY <1>1, <3>2, <4>2
        <3>10. InPlaceIn(hash, array, next) /\ DictFound(next)
            BY <1>2, <3>2, <3>5 DEF InPlaceIn, DictFound
        <3> HIDE DEF s
        <3> QED
            BY <2>3, <3>2, <3>5, <3>6, <3>7, <3>8, <3>9, <3>10
    <2>6. CASE ~(i < Len(s))
        <3> DEFINE d == [c EXCEPT !.at = "null", !.bucket = @ + 1]
                   further == c.bucket + 1
        <3>1. next = FirstFrom(d)
            BY <2>1, <2>2, <2>6 DEF DictOnward
        <3>2. d = [alive |-> c.alive, at |-> "null", bucket |-> further]
            BY <1>1, Further
        <3>3. further \in Nat
            BY <1>1
        <3> HIDE DEF d, further, next
        <3>4. PlaceIn(array, d) /\ d.at = "null" /\ d.bucket = further
            BY <1>1, <3>2, <3>3 DEF PlaceIn, NoPlace
        <3>5. Before(array, further) = Before(array, c.bucket) \cup ToSet(s)
            <4>1. \A n \in Bucket : n < further <=> (n < c.bucket \/ n = c.bucket)
                BY <1>1 DEF further
            <4> QED
                BY <2>1, <4>1 DEF Before
        <3>6. ToSet(s) = {s[j] : j \in 1 .. i}
            <4>1. i = Len(s)
                BY <2>4, <2>6
            <4> HIDE DEF s
            <4> QED
                BY <2>4, <4>1 DEF ToSet
        <3>7. PassedIn(array, c) = Before(array, further)
            BY <2>3, <3>5, <3>6
        <3> QED
            BY <1>5, <3>1, <3>4, <3>7
    <2> QED
        BY <2>5, <2>6
<1>8. CASE c.at = "head" /\ c.bucket = Size /\ array[Size - 1] = <<>>
    <2>1. Follows(c) = "null"
        BY <1>8, FollowsIs
    <2> DEFINE d == [c EXCEPT !.at = "null", !.bucket = @ + 1]
               further == c.bucket + 1
    <2>2. next = FirstFrom(d)
        BY <1>8, <2>1 DEF DictOnward
    <2>3. d = [alive |-> c.alive, at |-> "null", bucket |-> further]
        BY <1>1, Further
    <2>4. further \in Nat /\ \A n \in Bucket : n < further
        BY <1>1, <1>8 DEF Bucket
    <2> HIDE DEF d, further, next
    <2>5. PlaceIn(array, d) /\ d.at = "null" /\ d.bucket = further
        BY <1>1, <2>3, <2>4 DEF PlaceIn, NoPlace
    <2>6. Before(array, further) = HeldIn(array)
        BY <2>4 DEF Before, HeldIn
    <2>7. PassedIn(array, c) = HeldIn(array)
        BY <1>2, <1>8 DEF PassedIn, DictFound
    <2> QED
        BY <1>5, <2>2, <2>5, <2>6, <2>7
<1>9. CASE c.at = "null"
    <2>1. next = c
        BY <1>9 DEF DictOnward
    <2>2. ~DictFound(c) /\ PassedIn(array, c) = HeldIn(array)
        BY <1>2, <1>9 DEF PassedIn, DictFound
    <2> QED
        BY <2>1, <2>2
<1> QED
    BY <1>6, <1>7, <1>8, <1>9 DEF InPlaceIn

-----------------------------------------------------------------------------
(* The lock.                                                               *)

\* One iterator is gone.
LEMMA UnlockIs ==
    ASSUME NEW S, NEW lk, CountsAll(lk, S), NEW it \in S
    PROVE  CountsAll(Unlock(lk), S \ {it}) /\ (Unlock(lk) < 0 <=> lk < 0 /\ S \ {it} # {})
<1> DEFINE T == S \ {it}
           n == Cardinality(T)
<1>1. IsFiniteSet(T) /\ Cardinality(S) = n + 1
    <2>1. IsFiniteSet(T)
        BY FS_RemoveElement DEF CountsAll
    <2>2. S = T \cup {it} /\ it \notin T
        OBVIOUS
    <2> HIDE DEF T
    <2>3. Cardinality(T \cup {it}) = n + 1
        BY <2>1, <2>2, FS_AddElement
    <2> QED
        BY <2>1, <2>2, <2>3
<1>2. n \in Nat /\ (T = {} <=> n = 0)
    BY <1>1, FS_CardinalityType, FS_EmptySet
<1>3. lk \in Int /\ (lk = n + 1 \/ lk = 0 - (n + 1))
    BY <1>1 DEF CountsAll
<1> HIDE DEF n, T
<1>4. Unlock(lk) \in Int /\ (Unlock(lk) = n \/ Unlock(lk) = 0 - n)
        /\ (Unlock(lk) < 0 <=> lk < 0 /\ n # 0)
    BY <1>2, <1>3 DEF Unlock
<1> QED
    BY <1>1, <1>2, <1>4 DEF CountsAll, n, T

\* One more.
LEMMA LockOnIs ==
    ASSUME NEW S, NEW lk, CountsAll(lk, S), NEW it, it \notin S
    PROVE  /\ CountsAll(LockOn(lk), S \cup {it})
           /\ LockOn(lk) < 0 <=> lk < 0
           /\ LockOn(lk) # 0 /\ Unlock(LockOn(lk)) = lk
<1>1. IsFiniteSet(S) /\ Cardinality(S) \in Nat
    BY FS_CardinalityType DEF CountsAll
<1>2. IsFiniteSet(S \cup {it}) /\ Cardinality(S \cup {it}) = Cardinality(S) + 1
    BY <1>1, FS_AddElement
<1> DEFINE n == Cardinality(S)
           m == Cardinality(S \cup {it})
<1>3. n \in Nat /\ m = n + 1 /\ lk \in Int /\ (lk = n \/ lk = 0 - n)
    BY <1>1, <1>2 DEF CountsAll
<1> HIDE DEF n, m
<1>4. /\ LockOn(lk) \in Int /\ (LockOn(lk) = m \/ LockOn(lk) = 0 - m)
      /\ LockOn(lk) < 0 <=> lk < 0
      /\ LockOn(lk) # 0 /\ Unlock(LockOn(lk)) = lk
    BY <1>3 DEF LockOn, Unlock
<1> QED
    BY <1>2, <1>4 DEF CountsAll, m

\* A write.
LEMMA WriteOnIs ==
    ASSUME NEW S, NEW lk, CountsAll(lk, S)
    PROVE  /\ CountsAll(WriteOn(lk), S) /\ (WriteOn(lk) < 0 <=> S # {})
           /\ lk < 0 => S # {}
           /\ lk = 0 <=> S = {}
<1> DEFINE n == Cardinality(S)
<1>1. n \in Nat /\ (S = {} <=> n = 0) /\ lk \in Int /\ (lk = n \/ lk = 0 - n)
    BY FS_CardinalityType, FS_EmptySet DEF CountsAll
<1> HIDE DEF n
<1>2. /\ WriteOn(lk) \in Int /\ (WriteOn(lk) = n \/ WriteOn(lk) = 0 - n)
      /\ WriteOn(lk) < 0 <=> n # 0
      /\ lk < 0 => n # 0
      /\ lk = 0 <=> n = 0
    <2>1. CASE lk > 0
        <3> DEFINE w == -lk
        <3>1. w \in Int /\ w = 0 - lk
            BY <1>1
        <3>2. WriteOn(lk) = w
            BY <2>1 DEF WriteOn
        <3> HIDE DEF w
        <3> QED
            BY <1>1, <2>1, <3>1, <3>2
    <2>2. CASE ~(lk > 0)
        <3>1. WriteOn(lk) = lk
            BY <2>2 DEF WriteOn
        <3> QED
            BY <1>1, <2>2, <3>1
    <2> QED
        BY <2>1, <2>2
<1> QED
    BY <1>1, <1>2 DEF CountsAll, n

-----------------------------------------------------------------------------
(* What the abstract dictionary's variables stand for, of given variables. *)

AliveIn(f) == {it \in Iterators : f[it].alive}
ContentsIn(a, v) == [k \in HeldIn(a) |-> v[k]]
SeenBy(a, lk, c) == IF c.alive /\ lk >= 0 THEN PassedIn(a, c) ELSE {}
SpotOf(lk, c) == IF c.alive /\ lk >= 0 /\ c.at \in Keys THEN c.at ELSE "null"
VisitedIn(a, lk, f) == [it \in Iterators |-> SeenBy(a, lk, f[it])]
AtIn(lk, f) == [it \in Iterators |-> SpotOf(lk, f[it])]

LEMMA ViewsAre ==
    /\ DictContents = ContentsIn(array, value) /\ Alive = AliveIn(dictIts)
    /\ Visited = VisitedIn(array, dictLock, dictIts) /\ At = AtIn(dictLock, dictIts)
<1>1. Held = HeldIn(array)
    BY DEF Held, HeldIn
<1>2. \A it \in Iterators : SeenBy(array, dictLock, dictIts[it])
                              = IF Shown(it) THEN Passed(dictIts[it]) ELSE {}
    BY PassedIs DEF SeenBy, Shown
<1>3. \A it \in Iterators : SpotOf(dictLock, dictIts[it])
                              = IF Shown(it) /\ DictFound(dictIts[it]) THEN dictIts[it].at ELSE "null"
    BY DEF SpotOf, Shown, DictFound
<1> QED
    BY <1>1, <1>2, <1>3 DEF DictContents, ContentsIn, Alive, AliveIn, Visited, VisitedIn, At, AtIn

\* One iterator changes, and the lock's sign with it only if there is no other.
Family(f) == f = [it \in Iterators |-> f[it]]
Moved(a, lk, mk, f, g, it, c) ==
    /\ Family(g) /\ \A jt \in Iterators : g[jt] = IF jt = it THEN c ELSE f[jt]
    /\ AliveIn(g) = IF c.alive THEN AliveIn(f) \cup {it} ELSE AliveIn(f) \ {it}
    /\ VisitedIn(a, mk, g) = [VisitedIn(a, lk, f) EXCEPT ![it] = SeenBy(a, mk, c)]
    /\ AtIn(mk, g) = [AtIn(lk, f) EXCEPT ![it] = SpotOf(mk, c)]

LEMMA OneMoves ==
    ASSUME NEW a, NEW f, Family(f), NEW it \in Iterators, NEW c,
           NEW g, g = [f EXCEPT ![it] = c],
           NEW lk, NEW mk, (lk >= 0 <=> mk >= 0) \/ AliveIn(f) \ {it} = {}
    PROVE  Moved(a, lk, mk, f, g, it, c)
<1>1. g = [jt \in Iterators |-> IF jt = it THEN c ELSE f[jt]]
    BY DEF Family
<1>2. Family(g) /\ \A jt \in Iterators : g[jt] = IF jt = it THEN c ELSE f[jt]
    BY <1>1 DEF Family
<1>3. AliveIn(g) = IF c.alive THEN AliveIn(f) \cup {it} ELSE AliveIn(f) \ {it}
    BY <1>2 DEF AliveIn
<1>4. \A jt \in Iterators \ {it} : f[jt].alive => (lk >= 0 <=> mk >= 0)
    BY DEF AliveIn
<1>5. VisitedIn(a, mk, g) = [VisitedIn(a, lk, f) EXCEPT ![it] = SeenBy(a, mk, c)]
    <2>1. \A jt \in Iterators : SeenBy(a, mk, g[jt])
                = IF jt = it THEN SeenBy(a, mk, c) ELSE SeenBy(a, lk, f[jt])
        BY <1>2, <1>4 DEF SeenBy
    <2> QED
        BY <2>1 DEF VisitedIn
<1>6. AtIn(mk, g) = [AtIn(lk, f) EXCEPT ![it] = SpotOf(mk, c)]
    <2>1. \A jt \in Iterators : SpotOf(mk, g[jt])
                = IF jt = it THEN SpotOf(mk, c) ELSE SpotOf(lk, f[jt])
        BY <1>2, <1>4 DEF SpotOf
    <2> QED
        BY <2>1 DEF AtIn
<1> QED
    BY <1>2, <1>3, <1>5, <1>6 DEF Moved

-----------------------------------------------------------------------------
(* The statements that read.                                               *)

Same == UNCHANGED <<DictContents, Alive, Changed, Visited, At>>

LEMMA StillIs ==
    ASSUME DictInv, Still, UNCHANGED hash
    PROVE  DictInv' /\ Same
<1>1. UNCHANGED <<array, value, dictCount, dictLock, dictIts>>
    BY DEF Still
<1>2. Same
    BY <1>1, ViewsAre DEF Same, Changed, DictContents, Alive, Visited, At, Held, Shown, Passed, DictFound
<1>3. DictInv'
    BY <1>1 DEF DictInv, TableOK, CountOK, DictItsOK, DictLockCounts, DictInPlace, Held, Alive, DictLoop, DictFound
<1> QED
    BY <1>2, <1>3

LEMMA ReadsStep ==
    ASSUME DictSuits, DictInv, DictLength \/ DictClone \/ \E k \in Keys : DictGet(k) \/ DictExists(k)
    PROVE  DictInv' /\ AbstractMap!Next
<1>1. DictInv' /\ Same
    BY StillIs DEF DictLength, DictClone, DictGet, DictExists, DictCall
<1>2. AbstractMap!Unmoved /\ DictContents' = DictContents /\ AbstractMap!Running
    BY <1>1 DEF Same, AbstractMap!Unmoved, AbstractMap!Running, DictLength, DictClone, DictGet, DictExists, DictCall, DictRunning,
                Fatal
<1>3. DOMAIN DictContents = Held /\ \A k \in Held : DictContents[k] = value[k]
    BY DEF DictContents
<1>4. \A k \in Keys : Finds(k) <=> k \in Held
    BY FindsHeld DEF DictInv
<1>5. CASE DictLength
    <2>1. dictCall' = [op |-> "len"] /\ dictAnswer' = Value(dictCount) /\ dictCount = Cardinality(DOMAIN DictContents)
        BY <1>3, <1>5 DEF DictLength, DictCall, DictInv, CountOK
    <2>2. AbstractMap!Cardinality(DOMAIN DictContents) = Cardinality(DOMAIN DictContents)
        BY DEF AbstractMap!Cardinality, Cardinality
    <2>3. AbstractMap!Access(dictCall')
        BY <1>2, <2>1, <2>2 DEF AbstractMap!Access, AbstractMap!Reads, AbstractMap!Value, Value, Values
    <2> QED
        BY <1>1, <1>2, <2>1, <2>3 DEF AbstractMap!Next
<1>6. CASE DictClone
    <2>1. dictCall' = [op |-> "clone"] /\ dictAnswer' = [kind |-> "value", value |-> DictContents]
        BY <1>6 DEF DictClone, DictCall, DictContents
    <2>2. AbstractMap!Access(dictCall')
        BY <1>2, <2>1 DEF AbstractMap!Access, AbstractMap!Reads, AbstractMap!Whole
    <2> QED
        BY <1>1, <1>2, <2>1, <2>2 DEF AbstractMap!Next
<1>7. ASSUME NEW k \in Keys, DictGet(k) PROVE DictInv' /\ AbstractMap!Next
    <2>1. dictCall' = [op |-> "get", k |-> k]
          /\ dictAnswer' = IF k \in Held THEN Value(value[k]) ELSE Just("unknown")
        BY <1>4, <1>7 DEF DictGet, DictCall
    <2>2. AbstractMap!Access(dictCall')
        BY <1>2, <1>3, <2>1 DEF AbstractMap!Access, AbstractMap!Reads, AbstractMap!Value, AbstractMap!Just,
                                AbstractMap!Has, Value, Values, Just
    <2> QED
        BY <1>1, <1>2, <2>1, <2>2 DEF AbstractMap!Next
<1>8. ASSUME NEW k \in Keys, DictExists(k) PROVE DictInv' /\ AbstractMap!Next
    <2>1. dictCall' = [op |-> "exists", k |-> k]
          /\ dictAnswer' = Value(IF k \in Held THEN 1 ELSE 0)
        BY <1>4, <1>8 DEF DictExists, DictCall, Truth
    <2>2. AbstractMap!Access(dictCall')
        BY <1>2, <1>3, <2>1 DEF AbstractMap!Access, AbstractMap!Reads, AbstractMap!Value,
                                AbstractMap!Has, Value, Values
    <2> QED
        BY <1>1, <1>2, <2>1, <2>2 DEF AbstractMap!Next
<1> QED
    BY <1>5, <1>6, <1>7, <1>8

-----------------------------------------------------------------------------
(* The statements that write.                                              *)

\* A write of any kind: what the iterators and the lock become.
LEMMA WroteIs ==
    ASSUME DictSuits, DictInv, UNCHANGED hash, TableIs(hash, array', value'),
           NEW S, S \cap NoPlace = {}, HeldIn(array) \ S \subseteq HeldIn(array'),
           dictIts' = Freeing(S), dictLock' = WriteOn(dictLock),
           IsFiniteSet(Held'), dictCount' = Cardinality(Held')
    PROVE  /\ DictInv'
           /\ Changed' = (Alive # {}) /\ Alive' = Alive
           /\ Visited' = (IF Alive = {} THEN Visited ELSE [it \in Iterators |-> {}])
           /\ At' = (IF Alive = {} THEN At ELSE [it \in Iterators |-> "null"])
<1>1. dictIts' = [it \in Iterators |-> dictIts'[it]]
      /\ \A it \in Iterators : dictIts'[it] = IF dictIts[it].at \in S THEN [dictIts[it] EXCEPT !.at = "freed"]
                                          ELSE dictIts[it]
    BY DEF Freeing
<1>2. ASSUME NEW it \in Iterators PROVE PlaceIn(array', dictIts'[it]) /\ dictIts'[it].alive = dictIts[it].alive
    <2> DEFINE c == dictIts[it]
    <2>1. PlaceIn(array, c)
        BY DEF DictInv, DictItsOK
    <2>2. CASE c.at \in S
        <3>1. dictIts'[it] = [c EXCEPT !.at = "freed"]
            BY <1>1, <2>2
        <3> HIDE DEF c
        <3>2. dictIts'[it] = [alive |-> c.alive, at |-> "freed", bucket |-> c.bucket]
            BY <2>1, <3>1 DEF PlaceIn
        <3>3. PlaceIn(array', dictIts'[it]) /\ dictIts'[it].alive = c.alive
            BY <2>1, <3>2 DEF PlaceIn, NoPlace
        <3> QED
            BY <3>3 DEF c
    <2>3. CASE c.at \notin S
        <3>1. dictIts'[it] = c
            BY <1>1, <2>3
        <3>2. c.at \in HeldIn(array') \cup NoPlace
            BY <2>1, <2>3 DEF PlaceIn
        <3> QED
            BY <2>1, <3>1, <3>2 DEF PlaceIn
    <2> QED
        BY <2>2, <2>3
<1>3. Alive' = Alive
    BY <1>2 DEF Alive
<1>4. CountsAll(dictLock', Alive) /\ (dictLock' < 0 <=> Alive # {}) /\ dictLock' \in Int
    BY WriteOnIs DEF DictInv, DictLockCounts, CountsAll
<1>5. \A it \in Iterators : ~(dictIts'[it].alive /\ dictLock' >= 0)
    BY <1>2, <1>4 DEF Alive
<1>6. Visited' = [it \in Iterators |-> {}] /\ At' = [it \in Iterators |-> "null"]
    BY <1>5 DEF Visited, At, Shown
<1>7. Alive = {} => Visited = [it \in Iterators |-> {}] /\ At = [it \in Iterators |-> "null"]
    BY DEF Visited, At, Shown, Alive
<1>8. DictInv'
    <2>1. TableOK' /\ CountOK'
        BY DEF TableOK, CountOK
    <2>2. DictItsOK'
        BY <1>1, <1>2 DEF DictItsOK
    <2>3. DictLockCounts' /\ DictInPlace'
        BY <1>3, <1>4 DEF DictLockCounts, DictInPlace
    <2> QED
        BY <2>1, <2>2, <2>3 DEF DictInv
<1>9. Changed' = (Alive # {})
    BY <1>4 DEF Changed
<1> QED
    BY <1>3, <1>6, <1>7, <1>8, <1>9

\* The table without a key.
LEMMA TakenIs ==
    ASSUME DictSuits, DictInv, NEW k \in Keys
    PROVE  /\ TableIs(hash, Taken(k), value) /\ HeldIn(Taken(k)) = Held \ {k}
           /\ hash[k] \in Bucket /\ Held = HeldIn(array)
           /\ Taken(k)[hash[k]] = RemoveFirst(array[hash[k]], k)
<1> DEFINE b == hash[k]
           s == array[b]
           t == RemoveFirst(s, k)
<1>1. b \in Bucket /\ Held = HeldIn(array) /\ ValuesIn(value)
        /\ array = [n \in Bucket |-> array[n]] /\ TableIs(hash, array, value)
    BY FindsHeld DEF DictInv, TableOK, TableIs
<1>2. s \in Seq(Keys) /\ Distinct(s) /\ (\A i \in DOMAIN s : hash[s[i]] = b)
    BY <1>1 DEF TableIs, ChainOf
<1>3. t \in Seq(Keys) /\ Distinct(t) /\ ToSet(t) = ToSet(s) \ {k}
    BY <1>2, WithoutKey
<1>4. ChainOf(hash, b, t)
    <2>1. \A i \in DOMAIN t : t[i] \in ToSet(s)
        BY <1>3 DEF ToSet
    <2> HIDE DEF t
    <2> QED
        BY <1>2, <1>3, <2>1 DEF ChainOf, ToSet
<1>5. Taken(k) = [array EXCEPT ![b] = t]
    BY DEF Taken
<1> HIDE DEF t
<1>6. /\ TableIs(hash, [array EXCEPT ![b] = t], value)
      /\ HeldIn([array EXCEPT ![b] = t]) = (HeldIn(array) \ ToSet(s)) \cup ToSet(t)
    BY <1>1, <1>4, OneChain
<1>7. ToSet(s) \subseteq HeldIn(array) /\ (k \in HeldIn(array) => k \in ToSet(s))
    BY <1>1, HeldWhere DEF HeldIn
<1>8. [array EXCEPT ![b] = t][b] = t
    BY <1>1
<1> QED
    BY <1>1, <1>3, <1>5, <1>6, <1>7, <1>8 DEF t

LEMMA SetStep ==
    ASSUME DictSuits, DictInv, NEW k \in Keys, NEW v, DictSet(k, v)
    PROVE  DictInv' /\ AbstractMap!Next
<1> DEFINE b == hash[k]
           t == RemoveFirst(array[b], k)
           u == Append(t, k)
           a == Taken(k)
<1>1. /\ TableIs(hash, a, value) /\ HeldIn(a) = Held \ {k} /\ b \in Bucket
      /\ Held = HeldIn(array) /\ a[b] = t
    BY TakenIs
<1>2. /\ array' = [a EXCEPT ![b] = Append(@, k)] /\ dictCount' = Counted(k)
      /\ value' = [value EXCEPT ![k] = v] /\ dictIts' = Freeing({k}) /\ dictLock' = WriteOn(dictLock)
      /\ hash' = hash /\ dictCall' = [op |-> "set", k |-> k, v |-> v] /\ dictAnswer' = Just("none")
      /\ DictRunning
    BY DEF DictSet, DictBecome, DictCall
<1> HIDE DEF a
<1>3. array' = [a EXCEPT ![b] = u]
    BY <1>1, <1>2
<1>4. t \in Seq(Keys) /\ Distinct(t) /\ k \notin ToSet(t)
    <2>1. ChainOf(hash, b, a[b]) /\ k \notin HeldIn(a)
        BY <1>1 DEF TableIs
    <2>2. ToSet(a[b]) \subseteq HeldIn(a)
        BY <1>1 DEF HeldIn
    <2> QED
        BY <1>1, <2>1, <2>2 DEF ChainOf
<1>5. u \in Seq(Keys) /\ Distinct(u) /\ ToSet(u) = ToSet(t) \cup {k}
    BY <1>4, WithKey
<1>6. ChainOf(hash, b, u)
    <2>1. \A i \in DOMAIN t : hash[t[i]] = b
        BY <1>1 DEF TableIs, ChainOf
    <2>2. \A i \in DOMAIN u : u[i] = k \/ \E j \in DOMAIN t : u[i] = t[j]
        <3> HIDE DEF t, u
        <3> QED
            BY <1>5 DEF ToSet
    <2> HIDE DEF u
    <2> QED
        BY <1>5, <2>1, <2>2 DEF ChainOf
<1>7. ValuesIn(value')
    <2>1. value = [l \in Keys |-> value[l]]
        BY DEF DictInv, TableOK, TableIs, ValuesIn
    <2>2. value' = [l \in Keys |-> IF l = k THEN v ELSE value[l]]
        BY <1>2, <2>1
    <2> QED
        BY <2>2 DEF ValuesIn
<1> HIDE DEF t, u
<1> HIDE DEF b
<1>8. /\ TableIs(hash, [a EXCEPT ![b] = u], value')
      /\ HeldIn([a EXCEPT ![b] = u]) = (HeldIn(a) \ ToSet(a[b])) \cup ToSet(u)
    <2>1. TableIs(hash, a, value) /\ b \in Bucket
        BY <1>1
    <2>2. TableIs(hash, [a EXCEPT ![b] = u], value')
        BY ONLY <2>1, <1>6, <1>7, OneChain
    <2>3. HeldIn([a EXCEPT ![b] = u]) = (HeldIn(a) \ ToSet(a[b])) \cup ToSet(u)
        BY ONLY <2>1, <1>6, <1>7, OneChain
    <2> QED
        BY <2>2, <2>3
<1>9. TableIs(hash, array', value') /\ HeldIn(array') = Held \cup {k} /\ Held' = Held \cup {k}
    <2>1. ToSet(a[b]) \subseteq HeldIn(a)
        BY <1>1 DEF HeldIn
    <2>2. HeldIn(array') = Held \cup {k}
        BY <1>1, <1>3, <1>5, <1>8, <2>1
    <2>3. Held' = HeldIn(array')
        BY DEF Held, HeldIn
    <2> QED
        BY <1>3, <1>8, <2>2, <2>3
<1>10. IsFiniteSet(Held') /\ dictCount' = Cardinality(Held')
    <2>1. IsFiniteSet(Held) /\ dictCount = Cardinality(Held) /\ (Finds(k) <=> k \in Held)
        BY FindsHeld DEF DictInv, CountOK
    <2>2. /\ IsFiniteSet(Held \cup {k})
          /\ Cardinality(Held \cup {k}) = IF k \in Held THEN Cardinality(Held)
                                          ELSE Cardinality(Held) + 1
        BY <2>1, FS_AddElement
    <2> QED
        BY <1>2, <1>9, <2>1, <2>2 DEF Counted
<1>11. /\ DictInv'
       /\ Changed' = (Alive # {}) /\ Alive' = Alive
       /\ Visited' = (IF Alive = {} THEN Visited ELSE [it \in Iterators |-> {}])
       /\ At' = (IF Alive = {} THEN At ELSE [it \in Iterators |-> "null"])
    <2>1. {k} \cap NoPlace = {} /\ HeldIn(array) \ {k} \subseteq HeldIn(array')
        BY <1>1, <1>9 DEF DictSuits
    <2> QED
        BY <1>2, <1>9, <1>10, <2>1, WroteIs
<1>12. DictContents' = [l \in DOMAIN DictContents \cup {k} |-> IF l = k THEN v ELSE DictContents[l]]
    <2>1. DOMAIN DictContents = Held /\ \A l \in Held : DictContents[l] = value[l]
        BY DEF DictContents
    <2>2. \A l \in Held \cup {k} : value'[l] = IF l = k THEN v ELSE value[l]
        <3>1. Held \subseteq Keys /\ value = [l \in Keys |-> value[l]]
            BY <1>1, HeldWhere DEF DictInv, TableOK, TableIs, ValuesIn
        <3> QED
            BY <1>2, <3>1
    <2>3. DictContents' = [l \in Held' |-> value'[l]]
        BY DEF DictContents
    <2> HIDE DEF DictContents
    <2> QED
        BY <1>9, <2>1, <2>2, <2>3
<1>13. AbstractMap!Access(dictCall')
    <2>1. AbstractMap!Writes([l \in DOMAIN DictContents \cup {k} |-> IF l = k THEN v ELSE DictContents[l]])
        BY <1>2, <1>11, <1>12 DEF AbstractMap!Writes, AbstractMap!Just, Just
    <2> QED
        BY <1>2, <2>1 DEF AbstractMap!Access
<1> QED
    BY <1>2, <1>11, <1>13 DEF AbstractMap!Next, AbstractMap!Running, DictRunning, Fatal

LEMMA RemoveKeyStep ==
    ASSUME DictSuits, DictInv, NEW k \in Keys, RemoveKey(k)
    PROVE  DictInv' /\ AbstractMap!Next
<1>1. /\ dictCall' = [op |-> "remove", k |-> k] /\ hash' = hash /\ value' = value /\ DictRunning
      /\ Finds(k) <=> k \in Held
      /\ DOMAIN DictContents = Held /\ \A l \in Held : DictContents[l] = value[l]
    BY FindsHeld DEF RemoveKey, DictCall, DictInv, DictContents
<1>2. CASE k \in Held
    <2>1. /\ array' = Taken(k) /\ dictCount' = dictCount - 1 /\ dictIts' = Freeing({k})
          /\ dictLock' = WriteOn(dictLock) /\ dictAnswer' = Just("none")
        BY <1>1, <1>2 DEF RemoveKey, DictBecome
    <2>2. TableIs(hash, array', value') /\ HeldIn(array') = Held \ {k} /\ Held = HeldIn(array)
        BY <1>1, <2>1, TakenIs
    <2>3. Held' = Held \ {k}
        BY <2>2 DEF Held, HeldIn
    <2>4. IsFiniteSet(Held') /\ dictCount' = Cardinality(Held')
        <3>1. IsFiniteSet(Held) /\ dictCount = Cardinality(Held) /\ dictCount \in Nat
            BY FS_CardinalityType DEF DictInv, CountOK
        <3>2. IsFiniteSet(Held \ {k}) /\ Cardinality(Held \ {k}) = Cardinality(Held) - 1
            BY <1>2, <3>1, FS_RemoveElement
        <3> QED
            BY <2>1, <2>3, <3>1, <3>2
    <2>5. /\ DictInv'
          /\ Changed' = (Alive # {}) /\ Alive' = Alive
          /\ Visited' = (IF Alive = {} THEN Visited ELSE [it \in Iterators |-> {}])
          /\ At' = (IF Alive = {} THEN At ELSE [it \in Iterators |-> "null"])
        <3>1. {k} \cap NoPlace = {} /\ HeldIn(array) \ {k} \subseteq HeldIn(array')
            BY <2>2 DEF DictSuits
        <3> QED
            BY <1>1, <2>1, <2>2, <2>4, <3>1, WroteIs
    <2>6. DictContents' = [l \in DOMAIN DictContents \ {k} |-> DictContents[l]]
        <3>1. DictContents' = [l \in Held' |-> value'[l]]
            BY DEF DictContents
        <3> QED
            BY <1>1, <2>3, <3>1
    <2>7. AbstractMap!Access(dictCall')
        <3>1. AbstractMap!Writes([l \in DOMAIN DictContents \ {k} |-> DictContents[l]])
            BY <2>1, <2>5, <2>6 DEF AbstractMap!Writes, AbstractMap!Just, Just
        <3>2. AbstractMap!Has(k)
            BY <1>1, <1>2 DEF AbstractMap!Has
        <3> QED
            BY <1>1, <3>1, <3>2 DEF AbstractMap!Access
    <2> QED
        BY <1>1, <2>5, <2>7 DEF AbstractMap!Next, AbstractMap!Running, DictRunning, Fatal
<1>3. CASE k \notin Held
    <2>1. Still /\ UNCHANGED hash /\ dictAnswer' = Just("index")
        BY <1>1, <1>3 DEF RemoveKey, Still
    <2>2. DictInv' /\ Same
        BY <2>1, StillIs
    <2>3. AbstractMap!Access(dictCall')
        <3>1. AbstractMap!Reads(AbstractMap!Just("index"))
            BY <2>1, <2>2 DEF Same, AbstractMap!Reads, AbstractMap!Unmoved, AbstractMap!Just, Just
        <3>2. ~AbstractMap!Has(k)
            BY <1>1, <1>3 DEF AbstractMap!Has
        <3> QED
            BY <1>1, <3>1, <3>2 DEF AbstractMap!Access
    <2> QED
        BY <1>1, <2>2, <2>3 DEF AbstractMap!Next, AbstractMap!Running, DictRunning, Fatal
<1> QED
    BY <1>2, <1>3

LEMMA ClearStep ==
    ASSUME DictSuits, DictInv, DictClear
    PROVE  DictInv' /\ AbstractMap!Next
<1>1. /\ array' = [b \in Bucket |-> <<>>] /\ dictCount' = 0 /\ value' = value /\ hash' = hash
      /\ dictIts' = Freeing(Held) /\ dictLock' = WriteOn(dictLock) /\ dictAnswer' = Just("none")
      /\ dictCall' = [op |-> "clear"] /\ DictRunning
    BY DEF DictClear, DictBecome, DictCall
<1>2. ToSet(<<>>) = {}
    BY DEF ToSet
<1>3. HeldIn(array') = {} /\ Held' = {}
    BY <1>1, <1>2 DEF HeldIn, Held
<1>4. TableIs(hash, array', value')
    <2>1. \A b \in Bucket : ChainOf(hash, b, <<>>)
        BY DEF ChainOf, Distinct
    <2>2. hash \in [Keys -> Bucket] /\ ValuesIn(value)
        BY DEF DictInv, TableOK, TableIs
    <2> QED
        BY <1>1, <2>1, <2>2 DEF TableIs
<1>5. IsFiniteSet(Held') /\ dictCount' = Cardinality(Held')
    BY <1>1, <1>3, FS_EmptySet
<1>6. /\ DictInv'
      /\ Changed' = (Alive # {}) /\ Alive' = Alive
      /\ Visited' = (IF Alive = {} THEN Visited ELSE [it \in Iterators |-> {}])
      /\ At' = (IF Alive = {} THEN At ELSE [it \in Iterators |-> "null"])
    <2>1. Held \cap NoPlace = {} /\ HeldIn(array) \ Held \subseteq HeldIn(array')
        <3>1. HeldIn(array) \subseteq Keys /\ Held = HeldIn(array)
            BY HeldWhere DEF DictInv, TableOK, Held, HeldIn
        <3> QED
            BY <3>1 DEF DictSuits
    <2> QED
        BY <1>1, <1>4, <1>5, <2>1, WroteIs
<1>7. DictContents' = [k \in {} |-> 0]
    <2>1. DictContents' = [k \in Held' |-> value'[k]]
        BY DEF DictContents
    <2> QED
        BY <1>3, <2>1
<1>8. AbstractMap!Access(dictCall')
    <2>1. AbstractMap!Writes([k \in {} |-> 0])
        BY <1>1, <1>6, <1>7 DEF AbstractMap!Writes, AbstractMap!Just, Just
    <2> QED
        BY <1>1, <2>1 DEF AbstractMap!Access
<1> QED
    BY <1>1, <1>6, <1>8 DEF AbstractMap!Next, AbstractMap!Running, DictRunning, Fatal

-----------------------------------------------------------------------------
(* The statements on iterators.                                            *)

Views == /\ DictContents = ContentsIn(array, value) /\ Alive = AliveIn(dictIts)
         /\ Visited = VisitedIn(array, dictLock, dictIts) /\ At = AtIn(dictLock, dictIts)

LEMMA ViewsHold == Views /\ Views'
<1>1. Views
    BY ViewsAre DEF Views
<1>2. Views'
    BY <1>1, PTL
<1> QED
    BY <1>1, <1>2

\* One iterator moves, begins or goes.
LEMMA MovedIs ==
    ASSUME DictSuits, DictInv, UNCHANGED <<hash, array, value, dictCount>>,
           NEW it \in Iterators, NEW c, PlaceIn(array, c), dictIts' = [dictIts EXCEPT ![it] = c],
           (dictLock >= 0 <=> dictLock' >= 0) \/ Alive \ {it} = {},
           CountsAll(dictLock', IF c.alive THEN Alive \cup {it} ELSE Alive \ {it}),
           c.alive /\ dictLock' >= 0 => InPlaceIn(hash, array, c) /\ (it = "loop" => DictFound(c))
    PROVE  /\ DictInv' /\ DictContents' = DictContents
           /\ Alive' = IF c.alive THEN Alive \cup {it} ELSE Alive \ {it}
           /\ Visited' = [Visited EXCEPT ![it] = SeenBy(array, dictLock', c)]
           /\ At' = [At EXCEPT ![it] = SpotOf(dictLock', c)]
<1>1. Family(dictIts) /\ \A jt \in Iterators : PlaceIn(array, dictIts[jt])
    BY DEF DictInv, DictItsOK, Family
<1>2. Views /\ Views'
    BY ViewsHold
<1>3. Moved(array, dictLock, dictLock', dictIts, dictIts', it, c)
    BY <1>1, <1>2, OneMoves DEF Views
<1>4. /\ Alive' = IF c.alive THEN Alive \cup {it} ELSE Alive \ {it}
      /\ Visited' = [Visited EXCEPT ![it] = SeenBy(array, dictLock', c)]
      /\ At' = [At EXCEPT ![it] = SpotOf(dictLock', c)]
      /\ DictContents' = DictContents
    BY <1>2, <1>3 DEF Views, Moved
<1>5. TableOK' /\ CountOK' /\ DictItsOK'
    <2>1. TableOK' /\ CountOK'
        BY DEF DictInv, TableOK, CountOK, Held
    <2>2. \A jt \in Iterators : PlaceIn(array', dictIts'[jt])
        BY <1>1, <1>3 DEF Moved
    <2> QED
        BY <1>3, <2>1, <2>2 DEF DictItsOK, Moved, Family
<1>6. DictLockCounts'
    BY <1>4 DEF DictLockCounts
<1>7. DictInPlace'
    <2> SUFFICES ASSUME dictLock' >= 0
                 PROVE  /\ \A jt \in Alive' : InPlaceIn(hash, array, dictIts'[jt])
                        /\ "loop" \in Alive' => DictFound(dictIts'["loop"])
        BY DEF DictInPlace, DictLoop, DictFound
    <2>1. ASSUME NEW jt \in Alive' PROVE jt \in Iterators /\ (jt = it => c.alive)
                                         /\ (jt # it => jt \in Alive /\ dictLock >= 0)
        <3>1. Alive \subseteq Iterators
            BY DEF Alive
        <3> QED
            BY <1>4, <3>1
    <2>2. ASSUME NEW jt \in Alive' PROVE InPlaceIn(hash, array, dictIts'[jt])
        BY <1>3, <2>1 DEF DictInv, DictInPlace, Moved
    <2>3. ASSUME "loop" \in Alive' PROVE DictFound(dictIts'["loop"])
        <3>1. CASE it = "loop"
            BY <1>3, <2>1, <2>3, <3>1 DEF Moved
        <3>2. CASE it # "loop"
            BY <1>3, <2>1, <2>3, <3>2 DEF DictInv, DictInPlace, DictLoop, Moved
        <3> QED
            BY <3>1, <3>2
    <2> QED
        BY <2>2, <2>3
<1> QED
    BY <1>4, <1>5, <1>6, <1>7 DEF DictInv

LEMMA DisposedIs ==
    ASSUME DictInv, NEW it \in Iterators
    PROVE  /\ CountsAll(DictDisposed(it), Alive \ {it})
           /\ DictDisposed(it) < 0 <=> dictLock < 0 /\ Alive \ {it} # {}
           /\ it \in Alive <=> dictIts[it].alive
<1>1. CountsAll(dictLock, Alive) /\ (it \in Alive <=> dictIts[it].alive)
    BY DEF DictInv, DictLockCounts, Alive
<1>2. CASE it \in Alive
    BY <1>1, <1>2, UnlockIs DEF DictDisposed
<1>3. CASE it \notin Alive
    <2>1. Alive \ {it} = Alive
        BY <1>3
    <2>2. dictLock < 0 => Alive # {}
        BY <1>1, WriteOnIs
    <2> QED
        BY <1>1, <1>3, <2>1, <2>2 DEF DictDisposed
<1> QED
    BY <1>2, <1>3

\* What an iterator that has not begun, and one that is gone, show.
LEMMA NotYet ==
    ASSUME DictSuits, NEW lk
    PROVE  /\ PlaceIn(array, DictBegun) /\ InPlaceIn(hash, array, DictBegun) /\ DictBegun.alive
           /\ DictBegun.at = "begin" /\ DictBegun.bucket = 0
           /\ PlaceIn(array, DictGone) /\ ~DictGone.alive
           /\ SeenBy(array, lk, DictBegun) = {} /\ SpotOf(lk, DictBegun) = "null"
           /\ SeenBy(array, lk, DictGone) = {} /\ SpotOf(lk, DictGone) = "null"
<1>1. DictBegun.alive /\ DictBegun.at = "begin" /\ DictBegun.bucket = 0 /\ ~DictGone.alive /\ DictGone.at = "null"
        /\ DictGone.bucket = 0
    BY DEF DictBegun, DictGone
<1>2. PlaceIn(array, DictBegun) /\ PlaceIn(array, DictGone)
    BY DEF PlaceIn, DictBegun, DictGone, NoPlace
<1>3. "begin" \notin Keys
    BY DEF DictSuits, NoPlace
<1> QED
    BY <1>1, <1>2, <1>3 DEF InPlaceIn, SeenBy, SpotOf, PassedIn

LEMMA DictIteratorStep ==
    ASSUME DictSuits, DictInv, NEW it \in Iterators \ {"loop"}, DictIterator(it)
    PROVE  DictInv' /\ AbstractMap!Next
<1>1. /\ dictIts' = [dictIts EXCEPT ![it] = DictBegun] /\ dictLock' = LockOn(DictDisposed(it))
      /\ dictAnswer' = Just("none") /\ UNCHANGED <<hash, array, value, dictCount>> /\ DictRunning
      /\ dictCall'.op \in {"iterator", "copy"} /\ dictCall'.it = it
    BY DEF DictIterator, Table, DictCall
<1>2. /\ CountsAll(DictDisposed(it), Alive \ {it})
      /\ DictDisposed(it) < 0 <=> dictLock < 0 /\ Alive \ {it} # {}
    BY DisposedIs
<1>3. /\ CountsAll(dictLock', (Alive \ {it}) \cup {it}) /\ (dictLock' < 0 <=> DictDisposed(it) < 0)
    <2> DEFINE d == DictDisposed(it)
               S == Alive \ {it}
    <2>1. CountsAll(d, S) /\ it \notin S /\ dictLock' = LockOn(d)
        BY <1>1, <1>2
    <2> HIDE DEF d, S
    <2>2. CountsAll(LockOn(d), S \cup {it}) /\ (LockOn(d) < 0 <=> d < 0)
        BY ONLY <2>1, LockOnIs
    <2>3. CountsAll(dictLock', S \cup {it}) /\ (dictLock' < 0 <=> d < 0)
        BY <2>1, <2>2
    <2> QED
        BY <2>3 DEF d, S
<1>4. CountsAll(dictLock', Alive \cup {it})
    <2>1. (Alive \ {it}) \cup {it} = Alive \cup {it}
        OBVIOUS
    <2> QED
        BY <1>3, <2>1
<1>5. dictLock' < 0 <=> dictLock < 0 /\ Alive \ {it} # {}
    BY <1>2, <1>3
<1>6. (dictLock >= 0 <=> dictLock' >= 0) \/ Alive \ {it} = {}
    <2>1. dictLock \in Int /\ dictLock' \in Int
        BY <1>4 DEF CountsAll, DictInv, DictLockCounts
    <2> QED
        BY <1>5, <2>1
<1>7. /\ DictInv' /\ DictContents' = DictContents
      /\ Alive' = Alive \cup {it}
      /\ Visited' = [Visited EXCEPT ![it] = {}]
      /\ At' = [At EXCEPT ![it] = "null"]
    <2>1. /\ DictInv' /\ DictContents' = DictContents
          /\ Alive' = IF DictBegun.alive THEN Alive \cup {it} ELSE Alive \ {it}
          /\ Visited' = [Visited EXCEPT ![it] = SeenBy(array, dictLock', DictBegun)]
          /\ At' = [At EXCEPT ![it] = SpotOf(dictLock', DictBegun)]
        BY <1>1, <1>4, <1>6, MovedIs, NotYet
    <2> QED
        BY <2>1, NotYet
<1>8. AbstractMap!Iterate(dictCall')
    <2>1. AbstractMap!Begin(it)
        BY <1>5, <1>7 DEF AbstractMap!Begin, AbstractMap!Places, Changed
    <2> QED
        BY <1>1, <1>7, <2>1 DEF AbstractMap!Iterate, AbstractMap!Just, Just
<1> QED
    BY <1>1, <1>7, <1>8 DEF AbstractMap!Next, AbstractMap!Running, DictRunning, Fatal

\* An iterator, or a loop, ends.
LEMMA DictLeaveIs ==
    ASSUME DictSuits, DictInv, UNCHANGED <<hash, array, value, dictCount>>, NEW it \in Iterators,
           dictIts' = [dictIts EXCEPT ![it] = DictGone], dictLock' = DictDisposed(it)
    PROVE  DictInv' /\ DictContents' = DictContents /\ AbstractMap!Leave(it)
<1>1. CountsAll(dictLock', Alive \ {it}) /\ (dictLock' < 0 <=> dictLock < 0 /\ Alive \ {it} # {})
    BY DisposedIs
<1>2. (dictLock >= 0 <=> dictLock' >= 0) \/ Alive \ {it} = {}
    <2>1. dictLock \in Int /\ dictLock' \in Int
        BY <1>1 DEF CountsAll, DictInv, DictLockCounts
    <2> QED
        BY <1>1, <2>1
<1>3. /\ DictInv' /\ DictContents' = DictContents
      /\ Alive' = IF DictGone.alive THEN Alive \cup {it} ELSE Alive \ {it}
      /\ Visited' = [Visited EXCEPT ![it] = SeenBy(array, dictLock', DictGone)]
      /\ At' = [At EXCEPT ![it] = SpotOf(dictLock', DictGone)]
    BY <1>1, <1>2, MovedIs, NotYet
<1>4. /\ Alive' = Alive \ {it}
      /\ Visited' = [Visited EXCEPT ![it] = {}]
      /\ At' = [At EXCEPT ![it] = "null"]
    BY <1>3, NotYet
<1>5. Changed' = (Changed /\ Alive \ {it} # {})
    BY <1>1 DEF Changed
<1> QED
    BY <1>3, <1>4, <1>5 DEF AbstractMap!Leave, AbstractMap!Places

LEMMA DropStep ==
    ASSUME DictSuits, DictInv, NEW it \in Iterators \ {"loop"}, DictDrop(it)
    PROVE  DictInv' /\ AbstractMap!Next
<1>1. /\ dictIts' = [dictIts EXCEPT ![it] = DictGone] /\ dictLock' = DictDisposed(it)
      /\ dictAnswer' = Just("none") /\ UNCHANGED <<hash, array, value, dictCount>> /\ DictRunning
      /\ dictCall' = [op |-> "drop", it |-> it]
    BY DEF DictDrop, Table, DictCall
<1>2. DictInv' /\ DictContents' = DictContents /\ AbstractMap!Leave(it)
    BY <1>1, DictLeaveIs
<1>3. AbstractMap!Iterate(dictCall')
    BY <1>1, <1>2 DEF AbstractMap!Iterate, AbstractMap!Just, Just
<1> QED
    BY <1>1, <1>2, <1>3 DEF AbstractMap!Next, AbstractMap!Running, DictRunning, Fatal

\* An iterator goes on, with the lock as it is.
LEMMA AdvanceIs ==
    ASSUME DictSuits, DictInv, UNCHANGED <<hash, array, value, dictCount, dictLock>>,
           NEW it \in Iterators, dictIts[it].alive, dictIts[it].at # "freed",
           NEW next, next = DictOnward(dictIts[it]), dictIts' = [dictIts EXCEPT ![it] = next],
           it = "loop" => DictFound(next)
    PROVE  /\ DictInv' /\ DictContents' = DictContents /\ Alive' = Alive /\ Changed' = Changed
           /\ Visited' = [Visited EXCEPT ![it] = SeenBy(array, dictLock, next)]
           /\ At' = [At EXCEPT ![it] = SpotOf(dictLock, next)]
           /\ dictLock < 0 => Visited' = Visited /\ At' = At
<1>1. PlaceIn(array, dictIts[it]) /\ dictLock \in Int /\ CountsAll(dictLock, Alive) /\ TableOK
        /\ it \in Alive
    BY DEF DictInv, DictItsOK, DictLockCounts, CountsAll, Alive
<1>2. PlaceIn(array, next) /\ next.alive
    BY <1>1, OnwardPlace
<1>3. dictLock >= 0 => InPlaceIn(hash, array, next)
    <2>1. dictLock >= 0 => InPlaceIn(hash, array, dictIts[it])
        BY <1>1 DEF DictInv, DictInPlace
    <2> QED
        BY <1>1, <2>1, OnwardPasses
<1>4. Alive \cup {it} = Alive
    BY <1>1
<1>5. /\ DictInv' /\ DictContents' = DictContents
      /\ Alive' = IF next.alive THEN Alive \cup {it} ELSE Alive \ {it}
      /\ Visited' = [Visited EXCEPT ![it] = SeenBy(array, dictLock', next)]
      /\ At' = [At EXCEPT ![it] = SpotOf(dictLock', next)]
    <2>1. CountsAll(dictLock', IF next.alive THEN Alive \cup {it} ELSE Alive \ {it})
        BY <1>1, <1>2, <1>4
    <2>2. next.alive /\ dictLock' >= 0 => InPlaceIn(hash, array, next) /\ (it = "loop" => DictFound(next))
        BY <1>3
    <2>3. (dictLock >= 0 <=> dictLock' >= 0) \/ Alive \ {it} = {}
        OBVIOUS
    <2> QED
        BY <1>2, <2>1, <2>2, <2>3, MovedIs
<1>6. ASSUME dictLock < 0 PROVE Visited' = Visited /\ At' = At
    <2>1. ~(dictLock >= 0)
        BY <1>1, <1>6
    <2>2. SeenBy(array, dictLock, next) = {} /\ SpotOf(dictLock, next) = "null"
        BY <2>1 DEF SeenBy, SpotOf
    <2>3. Visited[it] = {} /\ At[it] = "null"
        BY <2>1 DEF Visited, At, Shown
    <2>4. Visited = [jt \in Iterators |-> Visited[jt]] /\ At = [jt \in Iterators |-> At[jt]]
        BY DEF Visited, At
    <2> QED
        BY <1>5, <2>2, <2>3, <2>4
<1> QED
    BY <1>2, <1>4, <1>5, <1>6 DEF Changed

\* An iterator of a dictionary that has not changed.
LEMMA NotStale ==
    ASSUME DictSuits, DictInv, NEW it \in Iterators, dictIts[it].alive, ~Changed
    PROVE  /\ dictLock \in Int /\ dictLock > 0 /\ dictIts[it].at # "freed" /\ InPlaceIn(hash, array, dictIts[it])
           /\ Visited[it] = PassedIn(array, dictIts[it])
           /\ At[it] = IF DictFound(dictIts[it]) THEN dictIts[it].at ELSE "null"
           /\ dictIts[it].at \in HeldIn(array) \cup {"begin", "head", "null"}
           /\ DOMAIN DictContents = HeldIn(array) /\ HeldIn(array) \subseteq Keys
           /\ it = "loop" => DictFound(DictLoop)
<1>1. dictLock \in Int /\ CountsAll(dictLock, Alive) /\ it \in Alive
    BY DEF DictInv, DictLockCounts, CountsAll, Alive
<1>2. dictLock > 0
    BY <1>1, WriteOnIs DEF Changed
<1>3. InPlaceIn(hash, array, dictIts[it]) /\ (it = "loop" => DictFound(DictLoop))
    BY <1>1, <1>2 DEF DictInv, DictInPlace
<1>4. HeldIn(array) \subseteq Keys /\ Held = HeldIn(array)
    BY HeldWhere DEF DictInv, TableOK, Held, HeldIn
<1>5. dictIts[it].at \in HeldIn(array) \cup {"begin", "head", "null"} /\ dictIts[it].at # "freed"
    BY <1>3, <1>4 DEF InPlaceIn, DictSuits, NoPlace
<1>6. Shown(it)
    BY <1>1, <1>2 DEF Shown
<1>7. Visited[it] = PassedIn(array, dictIts[it])
    BY <1>6, PassedIs DEF Visited
<1>8. At[it] = IF DictFound(dictIts[it]) THEN dictIts[it].at ELSE "null"
    BY <1>6 DEF At
<1> QED
    BY <1>1, <1>2, <1>3, <1>4, <1>5, <1>7, <1>8 DEF DictContents

LEMMA MoveNextStep ==
    ASSUME DictSuits, DictInv, NEW it \in Iterators \ {"loop"}, DictMoveNext(it)
    PROVE  DictInv' /\ AbstractMap!Next
<1> DEFINE next == DictOnward(dictIts[it])
<1>1. /\ dictIts[it].alive /\ UNCHANGED <<hash, array, value, dictCount, dictLock>> /\ DictRunning
      /\ dictCall' = [op |-> "movenext", it |-> it]
    BY DEF DictMoveNext, Table, DictCall
<1>2. CASE Changed
    <2>1. DictInv' /\ DictContents' = DictContents /\ AbstractMap!Unmoved
        <3>1. CASE UNCHANGED dictIts
            BY <1>1, <3>1, StillIs DEF Still, Same, AbstractMap!Unmoved
        <3>2. CASE dictIts[it].at # "freed" /\ dictIts' = [dictIts EXCEPT ![it] = next]
            <4>1. /\ DictInv' /\ DictContents' = DictContents /\ Alive' = Alive /\ Changed' = Changed
                  /\ dictLock < 0 => Visited' = Visited /\ At' = At
                BY <1>1, <3>2, AdvanceIs
            <4> QED
                BY <1>2, <4>1 DEF AbstractMap!Unmoved, Changed
        <3> QED
            BY <3>1, <3>2 DEF DictMoveNext
    <2>2. AbstractMap!Iterate(dictCall')
        BY <1>1, <1>2, <2>1 DEF AbstractMap!Iterate
    <2> QED
        BY <1>1, <2>1, <2>2 DEF AbstractMap!Next, AbstractMap!Running, DictRunning, Fatal
<1>3. CASE ~Changed
    <2>1. /\ dictLock \in Int /\ dictLock > 0 /\ dictIts[it].at # "freed" /\ InPlaceIn(hash, array, dictIts[it])
          /\ Visited[it] = PassedIn(array, dictIts[it])
          /\ DOMAIN DictContents = HeldIn(array)
        BY <1>1, <1>3, NotStale
    <2>2. /\ dictIts' = [dictIts EXCEPT ![it] = next]
          /\ dictAnswer' = IF ~DictFound(next) THEN Just("end") ELSE Truth(TRUE)
        <3>1. ~(dictLock <= 0) /\ dictIts[it].at # "freed"
            BY <2>1
        <3> QED
            BY <3>1, Zenon DEF DictMoveNext
    <2>3. /\ DictInv' /\ DictContents' = DictContents /\ Alive' = Alive /\ Changed' = Changed
          /\ Visited' = [Visited EXCEPT ![it] = SeenBy(array, dictLock, next)]
          /\ At' = [At EXCEPT ![it] = SpotOf(dictLock, next)]
        BY <1>1, <2>1, <2>2, AdvanceIs
    <2>4. /\ PlaceIn(array, dictIts[it]) /\ TableOK
        BY DEF DictInv, DictItsOK
    <2>5. next.alive /\ next.at \in HeldIn(array) \cup {"head", "null"}
        BY <1>1, <2>1, <2>4, OnwardPlace
    <2>6. /\ DictFound(next) =>
                /\ next.at \in HeldIn(array) \ PassedIn(array, dictIts[it])
                /\ PassedIn(array, next) = PassedIn(array, dictIts[it]) \cup {next.at}
          /\ ~DictFound(next) => PassedIn(array, dictIts[it]) = HeldIn(array)
        BY <2>1, <2>4, OnwardPasses
    <2> HIDE DEF next
    <2>7. SeenBy(array, dictLock, next) = PassedIn(array, next)
          /\ SpotOf(dictLock, next) = IF DictFound(next) THEN next.at ELSE "null"
        BY <2>1, <2>5 DEF SeenBy, SpotOf, DictFound, CountsAll, DictInv, DictLockCounts
    <2>8. CASE DictFound(next)
        <3>1. next.at \in AbstractMap!Rest(it) /\ AbstractMap!Visit(it, next.at)
            BY <2>1, <2>3, <2>6, <2>7, <2>8 DEF AbstractMap!Rest, AbstractMap!Visit, AbstractMap!Places
        <3>2. dictAnswer' = AbstractMap!Value(1)
            BY <2>2, <2>8 DEF Truth, Value, Values, AbstractMap!Value
        <3>3. AbstractMap!Iterate(dictCall')
            BY <1>1, <1>3, <2>3, <3>1, <3>2 DEF AbstractMap!Iterate
        <3> QED
            BY <1>1, <2>3, <3>3 DEF AbstractMap!Next, AbstractMap!Running, DictRunning, Fatal
    <2>9. CASE ~DictFound(next)
        <3>1. AbstractMap!Rest(it) = {} /\ AbstractMap!Places(it, Visited[it], "null")
            <4>1. next.at # "begin"
                BY <2>5, HeldWhere DEF DictSuits, NoPlace, DictInv, TableOK
            <4>2. PassedIn(array, next) = HeldIn(array)
                BY <2>9, <4>1 DEF PassedIn
            <4> QED
                BY <2>1, <2>3, <2>6, <2>7, <2>9, <4>2 DEF AbstractMap!Rest, AbstractMap!Places
        <3>2. dictAnswer' = AbstractMap!Just("end")
            BY <2>2, <2>9 DEF Just, AbstractMap!Just
        <3>3. AbstractMap!Iterate(dictCall')
            BY <1>1, <1>3, <2>3, <3>1, <3>2 DEF AbstractMap!Iterate
        <3> QED
            BY <1>1, <2>3, <3>3 DEF AbstractMap!Next, AbstractMap!Running, DictRunning, Fatal
    <2> QED
        BY <2>8, <2>9
<1> QED
    BY <1>2, <1>3

LEMMA CurrentStep ==
    ASSUME DictSuits, DictInv, NEW it \in Iterators \ {"loop"}, DictCurrent(it)
    PROVE  DictInv' /\ AbstractMap!Next
<1>1. /\ dictIts[it].alive /\ UNCHANGED hash /\ Still /\ DictRunning
      /\ dictCall'.op \in {"current", "value"} /\ dictCall'.it = it
      /\ dictAnswer' = DictHere(dictIts[it], IF dictCall'.op = "current" THEN dictIts[it].at
                                ELSE IF DictFound(dictIts[it]) THEN value[dictIts[it].at] ELSE 0)
    BY DEF DictCurrent, DictCall
<1>2. DictInv' /\ DictContents' = DictContents /\ AbstractMap!Unmoved
    BY <1>1, StillIs DEF Same, AbstractMap!Unmoved
<1>3. CASE Changed
    <2>1. AbstractMap!Iterate(dictCall')
        BY <1>1, <1>2, <1>3 DEF AbstractMap!Iterate
    <2> QED
        BY <1>1, <1>2, <2>1 DEF AbstractMap!Next, AbstractMap!Running, DictRunning, Fatal
<1>4. CASE ~Changed
    <2>1. /\ dictIts[it].at \in HeldIn(array) \cup {"begin", "head", "null"} /\ dictIts[it].at # "freed"
          /\ At[it] = IF DictFound(dictIts[it]) THEN dictIts[it].at ELSE "null"
          /\ DOMAIN DictContents = HeldIn(array) /\ HeldIn(array) \subseteq Keys
        BY <1>1, <1>4, NotStale
    <2>2. CASE DictFound(dictIts[it])
        <3>1. dictIts[it].at \in HeldIn(array) /\ dictIts[it].at \notin NoPlace /\ At[it] = dictIts[it].at
                /\ DictContents[dictIts[it].at] = value[dictIts[it].at]
            BY <2>1, <2>2 DEF DictFound, DictSuits, NoPlace, DictContents
        <3>2. \A a : DictHere(dictIts[it], a) = AbstractMap!Value(a)
            BY <3>1 DEF DictHere, NoPlace, Value, Values, AbstractMap!Value
        <3>3. At[it] # "null"
            BY <3>1 DEF NoPlace
        <3>4. AbstractMap!Iterate(dictCall')
            BY <1>1, <1>2, <1>4, <2>2, <3>1, <3>2, <3>3 DEF AbstractMap!Iterate
        <3> QED
            BY <1>1, <1>2, <3>4 DEF AbstractMap!Next, AbstractMap!Running, DictRunning, Fatal
    <2>3. CASE ~DictFound(dictIts[it])
        <3>1. dictIts[it].at \in {"begin", "head", "null"} /\ At[it] = "null"
            BY <2>1, <2>3 DEF DictFound
        <3>2. \A a : DictHere(dictIts[it], a) = AbstractMap!Just("iterator")
            BY <2>1, <3>1 DEF DictHere, Just, AbstractMap!Just
        <3>3. AbstractMap!Iterate(dictCall')
            BY <1>1, <1>2, <1>4, <3>1, <3>2 DEF AbstractMap!Iterate
        <3> QED
            BY <1>1, <1>2, <3>3 DEF AbstractMap!Next, AbstractMap!Running, DictRunning, Fatal
    <2> QED
        BY <2>2, <2>3
<1> QED
    BY <1>3, <1>4

-----------------------------------------------------------------------------
(* FOR k IN d.                                                             *)

LEMMA ForReadStep ==
    ASSUME DictSuits, DictInv, DictForRead
    PROVE  DictInv' /\ AbstractMap!Next
<1>1. /\ dictIts["loop"].alive /\ UNCHANGED hash /\ Still /\ DictRunning
      /\ dictCall' = [op |-> "read", it |-> "loop"]
      /\ dictAnswer' = IF DictLoop.at = "freed" THEN Just("undefined") ELSE Value(DictLoop.at)
    BY DEF DictForRead, DictCall, DictLoop
<1>2. DictInv' /\ DictContents' = DictContents /\ AbstractMap!Unmoved
    BY <1>1, StillIs DEF Same, AbstractMap!Unmoved
<1>3. ASSUME ~Changed PROVE dictAnswer' = AbstractMap!Value(At["loop"])
    <2>1. DictLoop.at # "freed" /\ At["loop"] = DictLoop.at
        BY <1>1, <1>3, IteratorsAssumption, NotStale DEF DictLoop
    <2> QED
        BY <1>1, <2>1 DEF Value, Values, AbstractMap!Value
<1>4. AbstractMap!Loop(dictCall')
    BY <1>1, <1>2, <1>3 DEF AbstractMap!Loop
<1> QED
    BY <1>1, <1>2, <1>4 DEF AbstractMap!Next, AbstractMap!Running, DictRunning, Fatal

LEMMA ForExitStep ==
    ASSUME DictSuits, DictInv, DictForExit
    PROVE  DictInv' /\ AbstractMap!Next
<1>1. /\ dictIts' = [dictIts EXCEPT !["loop"] = DictGone] /\ dictLock' = DictDisposed("loop")
      /\ dictAnswer' = Just("none") /\ UNCHANGED <<hash, array, value, dictCount>> /\ DictRunning
      /\ dictCall' = [op |-> "exit", it |-> "loop"]
    BY DEF DictForExit, Table, DictCall, DictDisposed, DictLoop
<1>2. DictInv' /\ DictContents' = DictContents /\ AbstractMap!Leave("loop")
    BY <1>1, IteratorsAssumption, DictLeaveIs
<1>3. AbstractMap!Iterate(dictCall')
    BY <1>1, <1>2 DEF AbstractMap!Iterate, AbstractMap!Just, Just
<1> QED
    BY <1>1, <1>2, <1>3 DEF AbstractMap!Next, AbstractMap!Running, DictRunning, Fatal

\* The four ways on.
LEMMA TurnIs ==
    ASSUME NEW c, NEW lk, DictTurn(c, lk), NEW next, next = DictOnward(c)
    PROVE  \/ c.at = "freed" /\ UNCHANGED <<dictIts, dictLock>>
           \/ /\ c.at # "freed" /\ ~DictFound(next) /\ dictAnswer' = Just("end")
              /\ dictIts' = [dictIts EXCEPT !["loop"] = DictGone] /\ dictLock' = Unlock(lk)
           \/ c.at # "freed" /\ DictFound(next) /\ lk <= 0 /\ UNCHANGED <<dictIts, dictLock>>
           \/ /\ c.at # "freed" /\ DictFound(next) /\ ~(lk <= 0) /\ dictAnswer' = Value(next.at)
              /\ dictIts' = [dictIts EXCEPT !["loop"] = next] /\ dictLock' = lk
<1>1. CASE c.at = "freed"
    BY <1>1 DEF DictTurn
<1>2. CASE c.at # "freed" /\ ~DictFound(next)
    BY <1>2 DEF DictTurn
<1>3. CASE c.at # "freed" /\ DictFound(next) /\ lk <= 0
    BY <1>3 DEF DictTurn
<1>4. CASE c.at # "freed" /\ DictFound(next) /\ ~(lk <= 0)
    BY <1>4 DEF DictTurn
<1> QED
    BY <1>1, <1>2, <1>3, <1>4

LEMMA ForNextStep ==
    ASSUME DictSuits, DictInv, DictForNext
    PROVE  DictInv' /\ AbstractMap!Next
<1> DEFINE it == "loop"
           next == DictOnward(DictLoop)
<1>1. /\ dictIts[it].alive /\ DictLoop = dictIts[it] /\ UNCHANGED <<hash, array, value, dictCount>> /\ DictRunning
      /\ dictCall' = [op |-> "next", it |-> it] /\ DictTurn(DictLoop, dictLock) /\ it \in Iterators
    BY IteratorsAssumption DEF DictForNext, Table, DictCall, DictLoop
<1>2. ~Changed => /\ dictLock \in Int /\ dictLock > 0 /\ DictLoop.at # "freed" /\ InPlaceIn(hash, array, DictLoop)
                  /\ Visited[it] = PassedIn(array, DictLoop) /\ DOMAIN DictContents = HeldIn(array)
    BY <1>1, NotStale
<1>3. PlaceIn(array, DictLoop) /\ TableOK /\ dictLock \in Int
    BY <1>1 DEF DictInv, DictItsOK, DictLockCounts, CountsAll
<1>4. ~Changed => /\ DictFound(next) =>
                        /\ next.at \in HeldIn(array) \ PassedIn(array, DictLoop)
                        /\ PassedIn(array, next) = PassedIn(array, DictLoop) \cup {next.at}
                  /\ ~DictFound(next) => PassedIn(array, DictLoop) = HeldIn(array)
    BY <1>2, <1>3, OnwardPasses
<1>5. CASE UNCHANGED <<dictIts, dictLock>> /\ Changed
    <2>1. DictInv' /\ DictContents' = DictContents /\ AbstractMap!Unmoved
        BY <1>1, <1>5, StillIs DEF Still, Same, AbstractMap!Unmoved
    <2>2. AbstractMap!Loop(dictCall')
        BY <1>1, <1>5, <2>1 DEF AbstractMap!Loop
    <2> QED
        BY <1>1, <2>1, <2>2 DEF AbstractMap!Next, AbstractMap!Running, DictRunning, Fatal
<1>6. CASE /\ ~DictFound(next) /\ dictAnswer' = Just("end")
           /\ dictIts' = [dictIts EXCEPT !["loop"] = DictGone] /\ dictLock' = Unlock(dictLock)
    <2>1. DictInv' /\ DictContents' = DictContents /\ AbstractMap!Leave(it)
        BY <1>1, <1>6, DictLeaveIs DEF DictDisposed
    <2>2. ~Changed => AbstractMap!Turn(it, Visited[it])
        BY <1>2, <1>4, <1>6, <2>1 DEF AbstractMap!Turn, AbstractMap!Just, Just
    <2>3. AbstractMap!Loop(dictCall')
        BY <1>1, <2>1, <2>2 DEF AbstractMap!Loop
    <2> QED
        BY <1>1, <2>1, <2>3 DEF AbstractMap!Next, AbstractMap!Running, DictRunning, Fatal
<1>7. CASE /\ DictLoop.at # "freed" /\ DictFound(next) /\ ~(dictLock <= 0) /\ dictAnswer' = Value(next.at)
           /\ dictIts' = [dictIts EXCEPT !["loop"] = next] /\ dictLock' = dictLock
    <2>1. ~Changed /\ dictLock >= 0
        BY <1>3, <1>7 DEF Changed
    <2>2. /\ DictInv' /\ DictContents' = DictContents /\ Alive' = Alive /\ Changed' = Changed
          /\ Visited' = [Visited EXCEPT ![it] = SeenBy(array, dictLock, next)]
          /\ At' = [At EXCEPT ![it] = SpotOf(dictLock, next)]
        BY <1>1, <1>7, AdvanceIs
    <2>3. next.alive
        BY <1>1, <1>3, <1>7, OnwardPlace
    <2> HIDE DEF next
    <2>4. SeenBy(array, dictLock, next) = Visited[it] \cup {next.at} /\ SpotOf(dictLock, next) = next.at
        BY <1>2, <1>4, <1>7, <2>1, <2>3 DEF SeenBy, SpotOf, DictFound
    <2>5. Alive = Alive \cup {it}
        BY <1>1 DEF Alive
    <2>6. next.at \in DOMAIN DictContents \ Visited[it] /\ dictAnswer' = AbstractMap!Value(next.at)
        BY <1>2, <1>4, <1>7, <2>1 DEF Value, Values, AbstractMap!Value
    <2>7. AbstractMap!Places(it, Visited[it] \cup {next.at}, next.at)
        BY <2>2, <2>4 DEF AbstractMap!Places
    <2>8. AbstractMap!Turn(it, Visited[it])
        BY <2>2, <2>5, <2>6, <2>7 DEF AbstractMap!Turn
    <2>9. AbstractMap!Loop(dictCall')
        BY <1>1, <2>1, <2>2, <2>8 DEF AbstractMap!Loop
    <2> QED
        BY <1>1, <2>2, <2>9 DEF AbstractMap!Next, AbstractMap!Running, DictRunning, Fatal
<1> QED
    <2>1. \/ DictLoop.at = "freed" /\ UNCHANGED <<dictIts, dictLock>>
          \/ /\ DictLoop.at # "freed" /\ ~DictFound(next) /\ dictAnswer' = Just("end")
             /\ dictIts' = [dictIts EXCEPT !["loop"] = DictGone] /\ dictLock' = Unlock(dictLock)
          \/ DictLoop.at # "freed" /\ DictFound(next) /\ dictLock <= 0 /\ UNCHANGED <<dictIts, dictLock>>
          \/ /\ DictLoop.at # "freed" /\ DictFound(next) /\ ~(dictLock <= 0) /\ dictAnswer' = Value(next.at)
             /\ dictIts' = [dictIts EXCEPT !["loop"] = next] /\ dictLock' = dictLock
        BY <1>1, TurnIs
    <2>2. DictLoop.at = "freed" \/ dictLock <= 0 => Changed
        BY <1>2, <1>3
    <2> QED
        BY <1>5, <1>6, <1>7, <2>1, <2>2

LEMMA ForInStep ==
    ASSUME DictSuits, DictInv, DictForIn
    PROVE  DictInv' /\ AbstractMap!Next
<1> DEFINE it == "loop"
           next == DictOnward(DictBegun)
<1>1. /\ ~dictIts[it].alive /\ it \notin Alive /\ UNCHANGED <<hash, array, value, dictCount>> /\ DictRunning
      /\ dictCall' = [op |-> "for", it |-> it] /\ DictTurn(DictBegun, LockOn(dictLock)) /\ it \in Iterators
    BY IteratorsAssumption DEF DictForIn, Table, DictCall, DictLoop, Alive
<1>2. TableOK /\ dictLock \in Int /\ CountsAll(dictLock, Alive)
    BY DEF DictInv, DictLockCounts, CountsAll
<1>3. /\ CountsAll(LockOn(dictLock), Alive \cup {it})
      /\ LockOn(dictLock) < 0 <=> dictLock < 0
      /\ LockOn(dictLock) # 0 /\ Unlock(LockOn(dictLock)) = dictLock /\ LockOn(dictLock) \in Int
    BY <1>1, <1>2, LockOnIs DEF CountsAll
<1>4. /\ PlaceIn(array, DictBegun) /\ InPlaceIn(hash, array, DictBegun) /\ DictBegun.alive
      /\ DictBegun.at = "begin" /\ PassedIn(array, DictBegun) = {}
    BY NotYet DEF PassedIn
<1>5. /\ PlaceIn(array, next) /\ InPlaceIn(hash, array, next) /\ next.alive
      /\ DictFound(next) => next.at \in HeldIn(array) /\ PassedIn(array, next) = {next.at}
      /\ ~DictFound(next) => HeldIn(array) = {}
    <2>1. /\ InPlaceIn(hash, array, next)
          /\ DictFound(next) =>
                /\ next.at \in HeldIn(array) \ PassedIn(array, DictBegun)
                /\ PassedIn(array, next) = PassedIn(array, DictBegun) \cup {next.at}
          /\ ~DictFound(next) => PassedIn(array, DictBegun) = HeldIn(array)
        BY <1>2, <1>4, OnwardPasses
    <2>2. PlaceIn(array, next) /\ next.alive
        BY <1>2, <1>4, OnwardPlace
    <2> HIDE DEF next
    <2> QED
        BY <1>4, <2>1, <2>2
<1> HIDE DEF next
<1>6. DOMAIN DictContents = HeldIn(array)
    BY DEF DictContents, Held, HeldIn
<1>7. CASE UNCHANGED <<dictIts, dictLock>> /\ Changed
    <2>1. DictInv' /\ DictContents' = DictContents /\ AbstractMap!Unmoved
        BY <1>1, <1>7, StillIs DEF Still, Same, AbstractMap!Unmoved
    <2>2. AbstractMap!Loop(dictCall')
        BY <1>1, <1>7, <2>1 DEF AbstractMap!Loop
    <2> QED
        BY <1>1, <2>1, <2>2 DEF AbstractMap!Next, AbstractMap!Running, DictRunning, Fatal
<1>8. CASE /\ ~DictFound(next) /\ dictAnswer' = Just("end")
           /\ dictIts' = [dictIts EXCEPT !["loop"] = DictGone] /\ dictLock' = dictLock
    <2>1. DictInv' /\ DictContents' = DictContents /\ AbstractMap!Leave(it)
        BY <1>1, <1>8, DictLeaveIs DEF DictDisposed
    <2>2. ASSUME Changed PROVE AbstractMap!Unmoved
        <3>1. Visited[it] = {} /\ At[it] = "null" /\ Alive \ {it} = Alive
            BY <1>1 DEF Visited, At, Shown
        <3>2. Visited = [jt \in Iterators |-> Visited[jt]] /\ At = [jt \in Iterators |-> At[jt]]
            BY DEF Visited, At
        <3>3. Alive # {}
            BY <1>2, <2>2, WriteOnIs DEF Changed
        <3> QED
            BY <2>1, <2>2, <3>1, <3>2, <3>3 DEF AbstractMap!Leave, AbstractMap!Places, AbstractMap!Unmoved
    <2>3. AbstractMap!Turn(it, {})
        BY <1>5, <1>6, <1>8, <2>1 DEF AbstractMap!Turn, AbstractMap!Just, Just
    <2>4. AbstractMap!Loop(dictCall')
        BY <1>1, <2>1, <2>2, <2>3 DEF AbstractMap!Loop
    <2> QED
        BY <1>1, <2>1, <2>4 DEF AbstractMap!Next, AbstractMap!Running, DictRunning, Fatal
<1>9. CASE /\ DictFound(next) /\ ~(LockOn(dictLock) <= 0) /\ dictAnswer' = Value(next.at)
           /\ dictIts' = [dictIts EXCEPT !["loop"] = next] /\ dictLock' = LockOn(dictLock)
    <2>1. ~Changed /\ dictLock >= 0 /\ dictLock' >= 0
        BY <1>2, <1>3, <1>9 DEF Changed
    <2>2. /\ DictInv' /\ DictContents' = DictContents
          /\ Alive' = IF next.alive THEN Alive \cup {it} ELSE Alive \ {it}
          /\ Visited' = [Visited EXCEPT ![it] = SeenBy(array, dictLock', next)]
          /\ At' = [At EXCEPT ![it] = SpotOf(dictLock', next)]
        <3>1. CountsAll(dictLock', IF next.alive THEN Alive \cup {it} ELSE Alive \ {it})
            BY <1>3, <1>5, <1>9
        <3> QED
            BY <1>1, <1>5, <1>9, <2>1, <3>1, MovedIs
    <2>3. SeenBy(array, dictLock', next) = {} \cup {next.at} /\ SpotOf(dictLock', next) = next.at
        BY <1>5, <1>9, <2>1 DEF SeenBy, SpotOf, DictFound
    <2>4. AbstractMap!Places(it, {} \cup {next.at}, next.at)
        BY <2>2, <2>3 DEF AbstractMap!Places
    <2>5. Alive' = Alive \cup {it} /\ Changed' = Changed
        <3>1. Changed' = FALSE /\ Changed = FALSE
            BY <1>3, <1>9, <2>1 DEF Changed
        <3> QED
            BY <1>5, <2>2, <3>1
    <2>6. next.at \in DOMAIN DictContents \ {} /\ dictAnswer' = AbstractMap!Value(next.at)
        BY <1>5, <1>6, <1>9 DEF Value, Values, AbstractMap!Value
    <2>7. AbstractMap!Turn(it, {})
        BY <2>2, <2>4, <2>5, <2>6 DEF AbstractMap!Turn
    <2>8. AbstractMap!Loop(dictCall')
        BY <1>1, <2>1, <2>2, <2>7 DEF AbstractMap!Loop
    <2> QED
        BY <1>1, <2>2, <2>8 DEF AbstractMap!Next, AbstractMap!Running, DictRunning, Fatal
<1> QED
    <2>1. \/ DictBegun.at = "freed" /\ UNCHANGED <<dictIts, dictLock>>
          \/ /\ DictBegun.at # "freed" /\ ~DictFound(next) /\ dictAnswer' = Just("end")
             /\ dictIts' = [dictIts EXCEPT !["loop"] = DictGone] /\ dictLock' = Unlock(LockOn(dictLock))
          \/ /\ DictBegun.at # "freed" /\ DictFound(next) /\ LockOn(dictLock) <= 0
             /\ UNCHANGED <<dictIts, dictLock>>
          \/ /\ DictBegun.at # "freed" /\ DictFound(next) /\ ~(LockOn(dictLock) <= 0)
             /\ dictAnswer' = Value(next.at)
             /\ dictIts' = [dictIts EXCEPT !["loop"] = next] /\ dictLock' = LockOn(dictLock)
        BY <1>1, TurnIs DEF next
    <2>2. LockOn(dictLock) <= 0 => Changed
        BY <1>2, <1>3 DEF Changed
    <2> QED
        BY <1>3, <1>4, <1>7, <1>8, <1>9, <2>1, <2>2

-----------------------------------------------------------------------------
(* Theorems                                                                *)

LEMMA DictStarts ==
    ASSUME DictSuits, DictInit
    PROVE  DictInv /\ AbstractMap!Init
<1>1. /\ hash \in [Keys -> Bucket] /\ array = [b \in Bucket |-> <<>>]
      /\ value = [k \in Keys |-> 0] /\ dictCount = 0 /\ dictLock = 0
      /\ dictIts = [it \in Iterators |-> DictGone] /\ dictCall = [op |-> "start"] /\ dictAnswer = Just("none")
    BY DEF DictInit, DictSuits
<1>2. ToSet(<<>>) = {}
    BY DEF ToSet
<1>3. Held = {} /\ Alive = {}
    BY <1>1, <1>2 DEF Held, Alive, DictGone
<1>4. TableOK
    <2>1. \A b \in Bucket : ChainOf(hash, b, <<>>)
        BY DEF ChainOf, Distinct
    <2> QED
        BY <1>1, <2>1 DEF TableOK, TableIs, ValuesIn
<1>5. CountOK
    BY <1>1, <1>3, FS_EmptySet DEF CountOK
<1>6. DictItsOK
    <2>1. PlaceIn(array, DictGone)
        BY NotYet
    <2> QED
        BY <1>1, <2>1 DEF DictItsOK
<1>7. DictLockCounts /\ DictInPlace
    BY <1>1, <1>3, FS_EmptySet DEF DictLockCounts, CountsAll, DictInPlace
<1>8. \A it \in Iterators : ~Shown(it)
    BY <1>1 DEF Shown, DictGone
<1>9. AbstractMap!Init
    BY <1>1, <1>3, <1>8 DEF AbstractMap!Init, DictContents, Visited, At, Changed, Just, AbstractMap!Just
<1> QED
    BY <1>4, <1>5, <1>6, <1>7, <1>9 DEF DictInv

LEMMA DictSteps ==
    ASSUME DictSuits, DictInv, [DictNext]_dictVars
    PROVE  DictInv' /\ [AbstractMap!Next]_(AbstractMap!vars)
<1>1. CASE UNCHANGED dictVars
    <2>1. DictInv' /\ Same /\ UNCHANGED <<dictCall, dictAnswer>>
        BY <1>1, StillIs DEF dictVars, Still
    <2> QED
        BY <2>1 DEF Same, AbstractMap!vars
<1>2. CASE DictLength \/ DictClone
    BY <1>2, ReadsStep
<1>3. ASSUME NEW k \in Keys, DictGet(k) \/ DictExists(k) \/ RemoveKey(k) PROVE DictInv' /\ AbstractMap!Next
    BY <1>3, ReadsStep, RemoveKeyStep
<1>4. ASSUME NEW k \in Keys, NEW v \in Stored, DictSet(k, v) PROVE DictInv' /\ AbstractMap!Next
    BY <1>4, SetStep
<1>5. ASSUME NEW it \in Iterators \ {"loop"}, DictIterator(it) \/ DictDrop(it) \/ DictMoveNext(it) \/ DictCurrent(it)
      PROVE  DictInv' /\ AbstractMap!Next
    BY <1>5, DictIteratorStep, DropStep, MoveNextStep, CurrentStep
<1>6. CASE DictClear \/ DictForIn \/ DictForNext \/ DictForRead \/ DictForExit
    BY <1>6, ClearStep, ForInStep, ForNextStep, ForReadStep, ForExitStep
<1> QED
    BY <1>1, <1>2, <1>3, <1>4, <1>5, <1>6 DEF DictNext

\* A dictionary answers every statement as a function from keys to values does, and an
\* iterator of one that does not change visits every key once: _ht_t with its chains,
\* its count and the bookkeeping of _move_dict_it_next cannot be told from that, for any
\* keys, number of buckets, hash and number of iterators.
THEOREM DictIsMap == DictSpec => IsMap
<1>1. DictInit => DictInv /\ AbstractMap!Init
    BY DictStarts, DictAssumption
<1>2. DictInv /\ [DictNext]_dictVars => DictInv' /\ [AbstractMap!Next]_(AbstractMap!vars)
    BY DictSteps, DictAssumption
<1> QED
    BY <1>1, <1>2, PTL DEF DictSpec, IsMap, AbstractMap!Spec
=============================================================================
