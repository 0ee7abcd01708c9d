----------------------------- MODULE BasicList -----------------------------
(***************************************************************************)
(* The lists of MY-BASIC (my_basic.c, _list_t and the collection library): *)
(* a chain of nodes with a count beside it and the node that was looked up *)
(* last; a list made of a range, which keeps two numbers until something   *)
(* needs its elements; iterators, and the lock that tells them of changes. *)
(* One list, held by a variable of the program; its elements are integers. *)
(* A node stands for itself and for the object it holds.                   *)
(***************************************************************************)
EXTENDS Collection, Sequences

CONSTANTS MaxNodes,   \* how many nodes there is memory for
          Ints,       \* the integers a program stores
          Indices,    \* the indices it uses
          Lists,      \* what LIST(...) is called with
          Ranges      \* what LIST(a TO b) is called with: <<a, b>>

ASSUME MaxNodesAssumption == MaxNodes \in Nat
ASSUME IntsAssumption == Ints \subseteq Int /\ Indices \subseteq Int
ASSUME ListsAssumption ==
    /\ Lists \subseteq Seq(Int) /\ \A s \in Lists : Len(s) <= MaxNodes
    /\ Ranges \subseteq Int \X Int /\ \A r \in Ranges : r[2] - r[1] \in (1 - MaxNodes)..(MaxNodes - 1)

Node == 1..MaxNodes
Null == 0
Freed == -1

VARIABLES
    nodes,         \* the chain behind list->list
    data,          \* the integer in each node's object
    count, range,  \* coll->count; <<*coll->range_begin>>, or <<>> without a range
    cache,         \* [node, index]: cached_node and cached_index
    lock,
    its,           \* iterators: alive, and curr, which is a union of a node and a number
    x,             \* the object that the variable of FOR x IN l stands for
    call, answer
listVars == <<nodes, data, count, range, cache, lock, its, x, call, answer>>

Sgn(v) == IF v > 0 THEN 1 ELSE IF v < 0 THEN -1 ELSE 0
Running == answer.kind \notin Fatal

Start(k) == [kind |-> k, at |-> 0]
AtNode(n) == [kind |-> "node", at |-> n]
AtNumber(v) == [kind |-> "number", at |-> v]
AtEnd == Start("end")
NoCache == [node |-> Null, index |-> 0]
Gone == [alive |-> FALSE, curr |-> AtEnd]

\* malloc: a node that neither the list nor an iterator points to.
Chain(s) == {s[k] : k \in DOMAIN s}
Referred == Chain(nodes) \cup {its[it].curr.at : it \in {j \in Iterators : its[j].curr.kind = "node"}}
Unused(used) == CHOOSE n \in Node \ used : \A m \in Node \ used : n <= m

-----------------------------------------------------------------------------
(* Parts of the operations, on a record of the list's fields.              *)

This == [nodes |-> nodes, data |-> data, count |-> count, range |-> range,
         cache |-> cache, lock |-> lock]
Become(c) ==
    /\ nodes' = c.nodes /\ data' = c.data /\ count' = c.count /\ range' = c.range
    /\ cache' = c.cache /\ lock' = c.lock

\* What a statement that writes leaves: a chain s with data d and a count of n.
Written(c, s, d, n) ==
    [nodes |-> s, data |-> d, count |-> n, range |-> c.range,
     cache |-> NoCache, lock |-> WriteOn(c.lock)]

\* The numbers of a range; count is negative for one that goes down.
RangeLength == IF count < 0 THEN -count ELSE count
InRange(k) == range[1] + Sgn(count) * (k - 1)
FillRanged ==
    IF range = <<>> THEN This
    ELSE Written([This EXCEPT !.range = <<>>], [k \in 1..RangeLength |-> k],
                 [m \in Node |-> IF m <= RangeLength THEN InRange(m) ELSE data[m]], count)
NewNode == IF range = <<>> THEN Unused(Referred) ELSE RangeLength + 1
HasMemory == IF range = <<>> THEN Node \ Referred # {} ELSE RangeLength < MaxNodes

\* _node_at_list: from the head, from the cached node or from the tail, whichever is
\* near; the node found is cached.  The walk from the cached node follows its links.
Place(c) == CHOOSE k \in 1..Len(c.nodes) : c.nodes[k] = c.cache.node
\* A plausible bug: the walk from the tail goes one node too far.
FoundFromTail(c, i) ==
    IF c.cache.node # Null /\ i > c.cache.index THEN c.nodes[Len(c.nodes) - (c.count - i)]
    ELSE c.nodes[i + 1]

Found(c, i) ==
    LET left == c.cache.index \div 2
        right == c.cache.index + ((c.count - c.cache.index) \div 2)
    IN  CASE c.cache.node = Null \/ i < left -> c.nodes[i + 1]
          [] c.cache.node # Null /\ i \in left..right -> c.nodes[Place(c) + i - c.cache.index]
          [] OTHER -> c.nodes[Len(c.nodes) - (c.count - 1 - i)]
InBounds(c, i) == i \in 0..(c.count - 1)
LookedUp(c, i) == [c EXCEPT !.cache = [node |-> Found(c, i), index |-> i]]

\* The object that x stands for is one of those a step frees.
Frees(S) == x' = IF x \in S THEN Freed ELSE x
Zeroed(d, S) == [n \in Node |-> IF n \in S THEN 0 ELSE d[n]]
Unlinked(s, n) ==
    LET k == CHOOSE j \in DOMAIN s : s[j] = n IN SubSeq(s, 1, k - 1) \o SubSeq(s, k + 1, Len(s))
FreesNone == UNCHANGED x
Finish(c, a) == Become(c) /\ answer' = a /\ UNCHANGED its
Call(c) == Running /\ call' = c

-----------------------------------------------------------------------------
(* The statements on a list.                                               *)

Length == Call([op |-> "len"]) /\ Finish(This, Value(count)) /\ FreesNone

Get(i) ==
    /\ Call([op |-> "get", i |-> i]) /\ FreesNone
    /\ LET c == FillRanged IN
       IF InBounds(c, i) THEN Finish(LookedUp(c, i), Value(c.data[Found(c, i)]))
       ELSE Finish(c, Just("index"))

\* PUSH and the arguments of LIST.
Push(v) ==
    /\ Call([op |-> "push", v |-> v]) /\ FreesNone
    /\ HasMemory
    /\ LET c == FillRanged IN
       Finish(Written(c, Append(c.nodes, NewNode), [c.data EXCEPT ![NewNode] = v], c.count + 1),
              Just("none"))

Pop ==
    /\ Call([op |-> "pop"])
    /\ LET c == FillRanged
           n == Len(c.nodes)
       IN  IF n = 0 THEN Finish(c, Just("empty")) /\ FreesNone
           ELSE /\ Finish(Written(c, SubSeq(c.nodes, 1, n - 1), Zeroed(c.data, {c.nodes[n]}),
                                  c.count - 1), Value(c.data[c.nodes[n]]))
                /\ Frees({c.nodes[n]})

\* BACK looks at the chain, and a range has none yet.
Back ==
    /\ Call([op |-> "back"]) /\ FreesNone
    /\ Finish(This, IF nodes = <<>> THEN Just("empty") ELSE Value(data[nodes[Len(nodes)]]))

Insert(i, v) ==
    /\ Call([op |-> "insert", i |-> i, v |-> v]) /\ FreesNone
    /\ HasMemory
    /\ LET c == FillRanged IN
       IF i \notin 0..Len(c.nodes) THEN Finish(c, Just("index"))
       ELSE Finish(Written(c, SubSeq(c.nodes, 1, i) \o <<NewNode>>
                                  \o SubSeq(c.nodes, i + 1, Len(c.nodes)),
                           [c.data EXCEPT ![NewNode] = v], c.count + 1), Just("none"))

\* SET and l(i) = v: the node gets a new object.
Set(i, v) ==
    /\ Call([op |-> "set", i |-> i, v |-> v])
    /\ LET c == FillRanged IN
       IF ~InBounds(c, i) THEN Finish(c, Just("index")) /\ FreesNone
       ELSE /\ Finish(Written(c, c.nodes, [c.data EXCEPT ![Found(c, i)] = v], c.count), Just("none"))
            /\ Frees({Found(c, i)})

RemoveIndex(i) ==
    /\ Call([op |-> "remove", i |-> i])
    /\ LET c == FillRanged IN
       IF ~InBounds(c, i) THEN Finish(c, Just("index")) /\ FreesNone
       ELSE /\ Finish(Written(c, Unlinked(c.nodes, Found(c, i)), Zeroed(c.data, {Found(c, i)}),
                              c.count - 1), Just("none"))
            /\ Frees({Found(c, i)})

Clear ==
    /\ Call([op |-> "clear"])
    /\ Finish(Written([This EXCEPT !.range = <<>>], <<>>, Zeroed(data, Chain(nodes)), 0), Just("none"))
    /\ Frees(Chain(nodes))

With(c, v) == {k \in 1..Len(c.nodes) : c.data[c.nodes[k]] = v}
Exists(v) ==
    /\ Call([op |-> "exists", v |-> v]) /\ FreesNone
    /\ Finish(FillRanged, Truth(With(FillRanged, v) # {}))
IndexOf(v) ==
    /\ Call([op |-> "indexof", v |-> v]) /\ FreesNone
    /\ LET found == With(FillRanged, v) IN
       Finish(FillRanged, IF found = {} THEN Just("end")
                          ELSE Value((CHOOSE k \in found : \A m \in found : k <= m) - 1))

\* _ht_cmp_object compares the bytes of an integer, and a negative one's are higher.
Above(a, b) == IF (a < 0) = (b < 0) THEN a > b ELSE a < 0
\* _ls_sort: runs are merged in pairs, the left one's element first unless it is above;
\* then runs of twice the length.
MergeStep(p, q, m) ==
    IF m.i < Len(p) /\ (m.j = Len(q) \/ ~Above(data[p[m.i + 1]], data[q[m.j + 1]]))
    THEN [i |-> m.i + 1, j |-> m.j, out |-> Append(m.out, p[m.i + 1])]
    ELSE [i |-> m.i, j |-> m.j + 1, out |-> Append(m.out, q[m.j + 1])]
Merge(p, q) ==
    LET merged[k \in 0..(Len(p) + Len(q))] ==
            IF k = 0 THEN [i |-> 0, j |-> 0, out |-> <<>>] ELSE MergeStep(p, q, merged[k - 1])
    IN  merged[Len(p) + Len(q)].out
Run(s, from, size) == SubSeq(s, from + 1, IF from + size < Len(s) THEN from + size ELSE Len(s))
PassStep(s, size, m) ==
    [from |-> m.from + 2 * size,
     out |-> m.out \o Merge(Run(s, m.from, size), Run(s, m.from + size, size))]
Pass(s, size) ==
    LET pass[k \in 0..Len(s)] ==
            IF k = 0 THEN [from |-> 0, out |-> <<>>] ELSE PassStep(s, size, pass[k - 1])
    IN  pass[Len(s)].out
SortStep(m) == [list |-> Pass(m.list, m.insize), insize |-> 2 * m.insize]
Sorted(s) ==
    LET passes[k \in 0..Len(s)] ==
            IF k = 0 THEN [list |-> s, insize |-> 1] ELSE SortStep(passes[k - 1])
    IN  passes[Len(s)].list
Sort ==
    /\ Call([op |-> "sort"]) /\ FreesNone
    /\ Finish(Written(This, Sorted(nodes), data, count), Just("none"))

\* The two that copy look at the chain only; an array has as many elements as count says.
Clone ==
    /\ Call([op |-> "clone"]) /\ FreesNone
    /\ Finish(This, Values([k \in 1..Len(nodes) |-> data[nodes[k]]]))
ToArray ==
    /\ Call([op |-> "toarray"]) /\ FreesNone
    /\ Finish(This, Values([k \in 1..count |-> IF k <= Len(nodes) THEN data[nodes[k]] ELSE 0]))

-----------------------------------------------------------------------------
(* Iterators.                                                              *)

Disposed(it) == IF its[it].alive THEN Unlock(lock) ELSE lock
Begun == IF range = <<>> THEN Start("head") ELSE AtNumber(range[1] - Sgn(count))
Rest == UNCHANGED <<nodes, data, count, range, cache>>

\* it = ITERATOR(l), and it = jt: a copy begins again.
Iterator(it) ==
    /\ \/ Call([op |-> "iterator", it |-> it])
       \/ /\ \E jt \in Iterators \ {it, "loop"} : its[jt].alive
          /\ Call([op |-> "copy", it |-> it])
    /\ its' = [its EXCEPT ![it] = [alive |-> TRUE, curr |-> Begun]]
    /\ lock' = LockOn(Disposed(it))
    /\ answer' = Just("none") /\ UNCHANGED x /\ Rest
\* Something else is assigned to the variable.
Drop(it) ==
    /\ Call([op |-> "drop", it |-> it])
    /\ its' = [its EXCEPT ![it] = Gone]
    /\ lock' = Disposed(it)
    /\ answer' = Just("none") /\ UNCHANGED x /\ Rest

\* _move_list_it_next, for a list that has not changed.
Linked(n) == {nodes[k + 1] : k \in {j \in DOMAIN nodes : nodes[j] = n /\ j + 1 \in DOMAIN nodes}}
NodeAfter(n) == IF Linked(n) = {} THEN AtEnd ELSE AtNode(CHOOSE m \in Linked(n) : TRUE)
Onward(curr) ==
    CASE range # <<>> -> AtNumber(curr.at + Sgn(count))
      [] range = <<>> /\ curr.kind = "head" -> IF 1 \in DOMAIN nodes THEN AtNode(nodes[1]) ELSE AtEnd
      [] range = <<>> /\ curr.kind = "node" -> NodeAfter(curr.at)
      [] OTHER -> AtEnd
Past(curr) ==
    \/ curr.kind = "end"
    \/ /\ curr.kind = "number"
       /\ Sgn(count) * (curr.at - range[1]) >= RangeLength

\* A bound: the number counts on with each call after the end; here two past the end.
PastEnd == 2
MoveNext(it) ==
    /\ Call([op |-> "movenext", it |-> it])
    /\ its[it].alive
    /\ range # <<>> =>
           Sgn(count) * (its[it].curr.at - range[1]) < RangeLength + PastEnd - 1
    /\ IF lock < 0 THEN answer' = Just("iterator") /\ UNCHANGED its
       ELSE /\ its' = [its EXCEPT ![it].curr = Onward(@)]
            /\ answer' = IF Past(Onward(its[it].curr)) THEN Just("end") ELSE Truth(TRUE)
    /\ UNCHANGED <<lock, x>> /\ Rest

\* GET(it) looks at where the iterator is and not at the lock.
Here(curr) ==
    CASE range # <<>> -> Value(curr.at)
      [] range = <<>> /\ curr.kind = "node" /\ curr.at \in Chain(nodes) -> Value(data[curr.at])
      [] range = <<>> /\ curr.kind = "end" -> Just("iterator")
      [] range = <<>> /\ curr.kind = "head" /\ nodes = <<>> -> Just("iterator")
      [] OTHER -> Just("undefined")
Current(it) ==
    /\ Call([op |-> "current", it |-> it])
    /\ its[it].alive
    /\ answer' = Here(its[it].curr)
    /\ UNCHANGED <<lock, its, x>> /\ Rest

-----------------------------------------------------------------------------
(* FOR x IN l: an iterator of its own; x is the element, not a copy of it. *)

Loop == its["loop"]
Turn(curr, lk) ==
    LET next == Onward(curr) IN
    CASE lk < 0 -> answer' = Just("iterator") /\ UNCHANGED <<its, lock, x>>
      [] lk >= 0 /\ Past(next) ->
           /\ answer' = Just("end") /\ x' = Null
           /\ its' = [its EXCEPT !["loop"] = Gone] /\ lock' = Unlock(lk)
      [] OTHER ->
           /\ answer' = Here(next) /\ x' = (IF next.kind = "node" THEN next.at ELSE Null)
           /\ its' = [its EXCEPT !["loop"] = [alive |-> TRUE, curr |-> next]] /\ lock' = lk
ForIn ==
    /\ ~Loop.alive
    /\ Call([op |-> "for", it |-> "loop"])
    /\ Turn(Begun, LockOn(lock)) /\ Rest
ForNext ==
    /\ Loop.alive
    /\ Call([op |-> "next", it |-> "loop"])
    /\ Turn(Loop.curr, lock) /\ Rest
\* The body assigns to x.
ForAssign(v) ==
    /\ Loop.alive
    /\ Call([op |-> "assign", it |-> "loop", v |-> v])
    /\ data' = IF x \in Node THEN [data EXCEPT ![x] = v] ELSE data
    /\ answer' = Just(IF x = Freed THEN "undefined" ELSE "none")
    /\ UNCHANGED <<nodes, count, range, cache, lock, its, x>>
ForExit ==
    /\ Loop.alive
    /\ Call([op |-> "exit", it |-> "loop"])
    /\ its' = [its EXCEPT !["loop"] = Gone] /\ lock' = Unlock(lock) /\ x' = Null
    /\ answer' = Just("none") /\ Rest

-----------------------------------------------------------------------------
Init ==
    /\ \/ \E s \in Lists :
              /\ nodes = [k \in 1..Len(s) |-> k] /\ count = Len(s) /\ range = <<>>
              /\ data = [n \in Node |-> IF n <= Len(s) THEN s[n] ELSE 0]
       \/ \E r \in Ranges :
              /\ nodes = <<>> /\ range = <<r[1]>>
              /\ count = IF r[1] = r[2] THEN 1 ELSE r[2] - r[1] + Sgn(r[2] - r[1])
              /\ data = [n \in Node |-> 0]
    /\ cache = NoCache /\ lock = 0 /\ x = Null
    /\ its = [it \in Iterators |-> Gone]
    /\ call = [op |-> "start"] /\ answer = Just("none")

Next ==
    \/ Length \/ Pop \/ Back \/ Clear \/ Sort \/ Clone \/ ToArray
    \/ \E i \in Indices : Get(i) \/ RemoveIndex(i)
    \/ \E v \in Ints : Push(v) \/ Exists(v) \/ IndexOf(v) \/ ForAssign(v)
    \/ \E i \in Indices, v \in Ints : Insert(i, v) \/ Set(i, v)
    \/ \E it \in Iterators \ {"loop"} : Iterator(it) \/ Drop(it) \/ MoveNext(it) \/ Current(it)
    \/ ForIn \/ ForNext \/ ForExit
ListSpec == Init /\ [][Next]_listVars

\* What a program has to keep to: ranges that ascend, whose length is not negative, and
\* nothing that looks at the chain of a range before anything has filled it.
Ascending == \A r \in Ranges : r[1] <= r[2]
FilledFirst == range # <<>> => call'.op \notin {"back", "sort", "clone", "toarray"}

-----------------------------------------------------------------------------
(* Properties                                                              *)

TypeOK ==
    /\ nodes \in Seq(Node) /\ data \in [Node -> Int]
    /\ count \in Int /\ range \in Seq(Int) /\ Len(range) <= 1
    /\ cache \in [node : Node \cup {Null}, index : Int]
    /\ lock \in Int
    /\ its \in [Iterators -> [alive : BOOLEAN,
                              curr : [kind : {"head", "node", "number", "end"}, at : Int]]]
    /\ x \in Node \cup {Null, Freed}

\* While the lock says that nothing has changed, no iterator points to a node that is
\* gone, or takes a number for a node (_move_list_it_next follows it without a look at
\* the list), and the object of a loop's variable is still an element.
InPlace(curr) ==
    IF range # <<>> THEN curr.kind = "number"
    ELSE curr.kind # "number" /\ (curr.kind = "node" => curr.at \in Chain(nodes))
IteratorsAlive ==
    lock >= 0 =>
        /\ \A it \in Iterators : its[it].alive => InPlace(its[it].curr)
        /\ Loop.alive => x \in Chain(nodes) \cup {Null}

\* The list is the sequence that its calls make of it, and an iterator that moves is at
\* the element that its moves count to: the chain, the count, the cache, the range that
\* is not filled and the lock are not to be seen in any answer.
Contents == IF range = <<>> THEN [k \in 1..Len(nodes) |-> data[nodes[k]]]
            ELSE [k \in 1..RangeLength |-> InRange(k)]
Position(curr) ==
    CASE curr.kind = "head" -> 0
      [] curr.kind = "node" -> CHOOSE k \in 1..Len(nodes) : nodes[k] = curr.at
      [] curr.kind = "end" -> Len(nodes) + 1
      [] curr.kind = "number" ->
           LET p == Sgn(count) * (curr.at - range[1]) + 1 IN
           IF p > RangeLength THEN RangeLength + 1 ELSE p
Live == {it \in Iterators : its[it].alive}
Altered == lock < 0
Positions ==
    [it \in Iterators |-> IF Altered \/ ~its[it].alive THEN 0 ELSE Position(its[it].curr)]
Abstract == INSTANCE AbstractList WITH
    contents <- Contents, live <- Live, changed <- Altered, position <- Positions
IsSequence == Abstract!Spec

\* _move_list_it_next: "The iterator goes invalid if collection has been changed after
\* obtaining iterator".
StaleRefused == call.op = "current" /\ lock < 0 => answer.kind = "iterator"
=============================================================================
