------------------------------ MODULE BasicGc ------------------------------
(***************************************************************************)
(* Who owns a list, and the collector of the interpreter (my_basic.c, _ref *)
(* to _gc_collect_garbage, mb_push_value, and the statements on lists that *)
(* move references).                                                       *)
(*                                                                         *)
(* A list has a count of references, and the interpreter a table of lists  *)
(* that lost one and may be garbage.  When a statement leaves a value      *)
(* while the table is long, the collector runs: what can be reached from   *)
(* variables is taken off the table, and from the rest references are      *)
(* taken away one by one until the counts reach zero, in the order of a    *)
(* hash table of addresses, which is any.  Expressions run with the        *)
(* collector off; what a call yields in an expression keeps a reference    *)
(* that nobody gives back, so that most counts are too high.               *)
(*                                                                         *)
(* The elements of lists are lists here: numbers own nothing.              *)
(***************************************************************************)
EXTENDS Integers, Sequences, SequencesExt, FiniteSets

CONSTANTS
    Obj,        \* the addresses of lists
    Var,        \* the program's variables
    Nil,        \* no list
    Threshold,  \* MB_GC_GARBAGE_THRESHOLD
    MaxCount,   \* bound: references counted on one list when a statement begins
    MaxLen      \* bound: elements of a list

ASSUME ThresholdAssumption == Threshold \in Nat \ {0} /\ Nil \notin Obj
ASSUME FiniteAssumption == IsFiniteSet(Obj) /\ IsFiniteSet(Var)
ASSUME BoundAssumption == MaxCount \in Nat /\ MaxLen \in Nat

VARIABLES
    mem,        \* the lists, the intermediate value and the collector's tables
    scope,      \* the list each variable holds
    held,       \* what the running statement gives back when it ends
    phase       \* "run", "collect", or "end" of a statement

gcVars == <<mem, scope, held, phase>>

\* The history: a freed list was used (broken), or a list took an address still noted
\* as collected (reused).
Fresh == [alive |-> {}, count |-> [o \in Obj |-> 0], elems |-> [o \in Obj |-> <<>>],
          inter |-> Nil, table |-> {}, recursive |-> {}, collected |-> {}, valid |-> {},
          collecting |-> FALSE, broken |-> FALSE, reused |-> FALSE]

Memory == [alive : SUBSET Obj, count : [Obj -> Int], elems : [Obj -> Seq(Obj)],
           inter : Obj \cup {Nil}, table : SUBSET Obj, recursive : SUBSET Obj,
           collected : SUBSET Obj, valid : SUBSET Obj,
           collecting : BOOLEAN, broken : BOOLEAN, reused : BOOLEAN]

ElementsOf(m, S) == UNION {ToSet(m.elems[o]) : o \in S}

\* _gc_add_reachable: S and what its lists contain.
Closure(m, S) ==
    LET within[n \in 0..Cardinality(Obj)] ==
            IF n = 0 THEN S ELSE within[n - 1] \cup ElementsOf(m, within[n - 1])
    IN within[Cardinality(Obj)]

\* _gc_get_reachable.
Roots == {scope[v] : v \in Var} \ {Nil}
Reachable(m) == Closure(m, Roots)

-----------------------------------------------------------------------------
(* References.                                                             *)

Plus(f, o, k) == [f EXCEPT ![o] = @ + k]
Put(f, o, s) == [f EXCEPT ![o] = s]

\* _ref.
Ref(m, o) == [m EXCEPT !.count = Plus(@, o, 1), !.broken = @ \/ o \notin m.alive]

\* A plausible bug: what is reachable is noted as well.
NotedThoughReachable(m, S) ==
    LET Update(tab) == (tab \ S) \cup {o \in S : m.count[o] > 0}
    IN [m EXCEPT !.collected = @ \ S,
                 !.table = IF m.collecting THEN @ ELSE Update(@),
                 !.recursive = IF m.collecting THEN Update(@) ELSE @,
                 !.broken = @ \/ ~(S \subseteq m.alive)]

\* _gc_add, of each list in S: possible garbage while somebody still refers to it.
Noted(m, S) ==
    LET Update(tab) == (tab \ S) \cup {o \in S : m.count[o] > 0 /\ o \notin m.valid}
    IN [m EXCEPT !.collected = @ \ S,
                 !.table = IF m.collecting THEN @ ELSE Update(@),
                 !.recursive = IF m.collecting THEN Update(@) ELSE @,
                 !.broken = @ \/ ~(S \subseteq m.alive)]

\* _ADDGC.
NotedUnlessCollected(m, S) == Noted(m, S \ m.collected)

\* _unref up to on_unref; the last reference takes a list out of the intermediate value.
Lost(m, o) ==
    LET less == Noted([m EXCEPT !.count = Plus(@, o, -1)], {o})
    IN IF m.count[o] > 1 \/ m.inter # o THEN less ELSE [less EXCEPT !.inter = Nil]

\* The list is freed, and its address noted as collected: the end of _unref.
Freed(m, o) ==
    [m EXCEPT !.alive = @ \ {o}, !.count = Put(@, o, 0), !.elems = Put(@, o, <<>>),
              !.table = IF m.collecting THEN @ ELSE @ \ {o},
              !.recursive = IF m.collecting THEN @ \ {o} ELSE @,
              !.collected = @ \cup {o}]

\* _unref calls _destroy_list, and that _unref for the elements, which go while the list
\* is still there: the calls under way are a stack.
UnrefCall(o) == [list |-> o, returns |-> FALSE]
UnrefReturn(o) == [list |-> o, returns |-> TRUE]
UnrefCalls(s) == [i \in 1..Len(s) |-> UnrefCall(s[i])]

UnrefStep(run) ==
    LET m == run.mem
        o == Head(run.stack).list
        rest == Tail(run.stack)
    IN CASE run.stack = <<>> -> run
         [] run.stack # <<>> /\ Head(run.stack).returns ->
              [mem |-> Freed(m, o), stack |-> rest]
         [] run.stack # <<>> /\ ~Head(run.stack).returns /\ o \notin m.alive ->
              [mem |-> [m EXCEPT !.broken = TRUE], stack |-> rest]
         [] run.stack # <<>> /\ ~Head(run.stack).returns /\ o \in m.alive ->
              [mem |-> Lost(m, o),
               stack |-> IF m.count[o] > 1 THEN rest
                         ELSE UnrefCalls(m.elems[o]) \o <<UnrefReturn(o)>> \o rest]

\* As many calls as there can be: each list is freed once, with all its elements.
UnrefEach(m, s) ==
    LET calls == Len(s) + Cardinality(Obj) * (MaxLen + 2)
        run[k \in 0..calls] ==
            IF k = 0 THEN [mem |-> m, stack |-> UnrefCalls(s)] ELSE UnrefStep(run[k - 1])
    IN run[calls].mem

\* _unref.
Unref(m, o) == UnrefEach(m, <<o>>)

UnrefIfAny(m, o) == IF o = Nil THEN m ELSE Unref(m, o)

\* The intermediate value and its reference: mb_push_value without the collector.
PutDown(m, o) == Ref([UnrefIfAny(m, m.inter) EXCEPT !.inter = o], o)

\* The end of _calc_expression: what a call left is the value and no longer
\* intermediate; the reference stays counted.
TakenUp(m, o) == <<[m EXCEPT !.inter = IF @ = o THEN Nil ELSE @], o>>

-----------------------------------------------------------------------------
(* Expressions, with the collector off: pairs of the state they leave and  *)
(* their value.                                                            *)

\* _create_list, and the element _coll_list puts in, if there is one.
Created(m, o, e) ==
    LET own == IF e = <<>> THEN m ELSE Ref(m, e[1])
    IN [own EXCEPT !.alive = @ \cup {o}, !.count = Put(@, o, 0), !.elems = Put(@, o, e),
                   !.reused = @ \/ o \in m.collected]
Elements == {<<>>} \cup {<<c>> : c \in Roots}
NewList(m, o, e) == TakenUp(PutDown(Created(m, o, e), o), o)

\* GET(c, i): the list is held while its element is looked up.
Got(m, c, i) ==
    LET e == m.elems[c][i]
    IN TakenUp(Unref(PutDown(Ref(m, c), e), c), e)

\* POP(c): the reference of the list to its last element goes.
Shorter(m, c) == [Ref(m, c) EXCEPT !.elems = Put(@, c, Front(@[c]))]
Popped(m, c) ==
    LET e == Last(m.elems[c])
    IN TakenUp(Unref(Unref(PutDown(Shorter(m, c), e), e), c), e)

ValuesOfVar(m) == {<<m, c>> : c \in Roots}
ValuesOfList(m) == {NewList(m, o, e) : o \in Obj \ m.alive, e \in Elements}
ValuesOfGet(m) == UNION {{Got(m, c, i) : i \in DOMAIN m.elems[c]} : c \in Roots}
ValuesOfPop(m) == {Popped(m, c) : c \in {d \in Roots : m.elems[d] # <<>>}}
Values(m) == ValuesOfVar(m) \cup ValuesOfList(m) \cup ValuesOfGet(m) \cup ValuesOfPop(m)

-----------------------------------------------------------------------------
(* Statements.                                                             *)

Begins == phase = "run" /\ ~mem.broken /\ \A o \in Obj : mem.count[o] =< MaxCount

\* v = value, _core_let: the old value goes before the new one is counted.
Assign ==
    /\ Begins
    /\ \E v \in Var, r \in Values(mem) :
         /\ mem' = Ref(UnrefIfAny(r[1], scope[v]), r[2])
         /\ scope' = [scope EXCEPT ![v] = r[2]]
    /\ UNCHANGED <<held, phase>>

\* v = 0.
Forget ==
    /\ Begins
    /\ \E v \in Var :
         /\ scope[v] # Nil
         /\ mem' = Unref(mem, scope[v])
         /\ scope' = [scope EXCEPT ![v] = Nil]
    /\ UNCHANGED <<held, phase>>

\* _gc_collect_garbage until its first pass: what is reachable is no garbage.
Collecting(m) ==
    LET valid == Reachable(m)
    IN [m EXCEPT !.collecting = TRUE, !.valid = valid, !.table = @ \ valid,
                 !.recursive = @ \ valid]

\* mb_push_value at the end of a statement, where the collector is on.  When it is
\* done, the statement gives back the arguments it holds.
PushValue(m, o, holds) ==
    LET left == PutDown(m, o)
        full == Cardinality(left.table) >= Threshold
    IN /\ mem' = IF full THEN Collecting(left) ELSE left
       /\ phase' = IF full THEN "collect" ELSE "end"
       /\ held' = holds
       /\ UNCHANGED scope

\* PUSH(c, value).
PushOn ==
    /\ Begins
    /\ \E r \in Values(mem) : \E s \in Values(Ref(r[1], r[2])) :
         LET c == r[2]
         IN /\ Len(s[1].elems[c]) < MaxLen
            /\ PushValue([Ref(s[1], s[2]) EXCEPT !.elems = Put(@, c, Append(@[c], s[2]))],
                         c, <<c>>)

\* POP(c).
PopOff ==
    /\ Begins
    /\ \E r \in Values(mem) :
         LET c == r[2]
             elems == r[1].elems[c]
         IN elems # <<>> /\ PushValue(Shorter(r[1], c), Last(elems), <<Last(elems), c>>)

\* GET(c, i).
GetAt ==
    /\ Begins
    /\ \E r \in Values(mem) : \E i \in DOMAIN r[1].elems[r[2]] :
         PushValue(Ref(r[1], r[2]), r[1].elems[r[2]][i], <<r[2]>>)

\* CLEAR(c).
ClearAll ==
    /\ Begins
    /\ \E r \in Values(mem) :
         LET c == r[2]
             counted == Ref(r[1], c)
             emptied == UnrefEach(counted, counted.elems[c])
         IN PushValue([emptied EXCEPT !.elems = Put(@, c, <<>>)], c, <<c>>)

\* LIST(), whose value nobody takes.
MakeList ==
    /\ Begins
    /\ \E o \in Obj \ mem.alive, e \in Elements : PushValue(Created(mem, o, e), o, <<>>)

\* The end of a statement, _mark_dangling_intermediate_value last.
EndStatement ==
    LET given == UnrefEach(mem, held)
    IN /\ phase = "end"
       /\ mem' = IF given.inter = Nil THEN given ELSE NotedUnlessCollected(given, {given.inter})
       /\ phase' = "run"
       /\ held' = <<>>
       /\ UNCHANGED scope

-----------------------------------------------------------------------------
(* The collector.                                                          *)

\* A plausible bug: the elements are dropped and not noted.
SweptAlone(m, o) == Unref([m EXCEPT !.elems = Put(@, o, <<>>)], o)

\* _gc_destroy_garbage: the elements are noted for the next pass and dropped without
\* being counted off, and the list loses one reference.
Swept(m, o) ==
    LET noted == NotedUnlessCollected(m, ToSet(m.elems[o]))
    IN Unref([noted EXCEPT !.elems = Put(@, o, <<>>)], o)

Visit ==
    /\ phase = "collect"
    /\ \E o \in mem.table :
         LET rest == [mem EXCEPT !.table = @ \ {o}]
         IN mem' = IF o \in mem.collected THEN rest ELSE Swept(rest, o)
    /\ UNCHANGED <<scope, held, phase>>

\* What passes left for later is the next one's table; the last one tidies up.
NextPass ==
    /\ phase = "collect"
    /\ mem.table = {}
    /\ IF mem.recursive # {}
       THEN /\ mem' = [mem EXCEPT !.table = mem.recursive, !.recursive = {}]
            /\ phase' = phase
       ELSE /\ mem' = [mem EXCEPT !.collecting = FALSE, !.collected = {}, !.valid = {}]
            /\ phase' = "end"
    /\ UNCHANGED <<scope, held>>

-----------------------------------------------------------------------------
GcInit ==
    /\ mem = Fresh
    /\ scope = [v \in Var |-> Nil]
    /\ held = <<>>
    /\ phase = "run"

GcNext == Assign \/ Forget \/ PushOn \/ PopOff \/ GetAt \/ ClearAll \/ MakeList
          \/ EndStatement \/ Visit \/ NextPass

GcSpec == GcInit /\ [][GcNext]_gcVars

-----------------------------------------------------------------------------
(* Properties.                                                             *)

GcTypeOK ==
    /\ mem \in Memory
    /\ \A o \in Obj : mem.count[o] \in Nat
    /\ scope \in [Var -> Obj \cup {Nil}]
    /\ held \in Seq(Obj)
    /\ phase \in {"run", "collect", "end"}

\* What a variable can reach is never freed, whatever lost references, was shared,
\* or contains itself, and in whatever order the collector comes by.
ReachableKept == mem.broken \/ Reachable(mem) \subseteq mem.alive

\* No garbage is forgotten: between statements a list that no variable reaches is the
\* value the last statement left, in the table, or in a list there, so that a
\* collection, which empties the table, frees it.
GarbageKnown ==
    phase # "run" \/ mem.broken \/ mem.reused
    \/ mem.alive \subseteq Closure(mem, Roots \cup mem.table \cup ({mem.inter} \ {Nil}))

\* What "Get all reachable referenced objects" (_gc_get_reachable) promises its user:
\* a list the running statement still holds is not freed under it.
HeldKept == ToSet(held) \subseteq mem.alive

\* The same as GarbageKnown for lists at addresses that were collected before.
GarbageAlwaysKnown ==
    phase # "run" \/ mem.broken
    \/ mem.alive \subseteq Closure(mem, Roots \cup mem.table \cup ({mem.inter} \ {Nil}))
=============================================================================
