---------------------------- MODULE AbstractList ----------------------------
(***************************************************************************)
(* What a BASIC program may expect of a list: a sequence, calls with their *)
(* answers, and iterators that count through it.  A call is a record with  *)
(* its name and its arguments.  An answer is a record too: a value, an     *)
(* end, or an error, which ends the program.                               *)
(***************************************************************************)
EXTENDS Integers, Sequences, FiniteSets

CONSTANT Iterators

VARIABLES contents,
          live,      \* the iterators there are
          changed,   \* the list was changed while it had iterators, and has some still
          position,  \* how many times each has moved on; 0 when the list has changed
          call, answer
vars == <<contents, live, changed, position, call, answer>>

Values(s) == [kind |-> "value", value |-> s]
Value(v) == Values(<<v>>)
Truth(c) == Value(IF c THEN 1 ELSE 0)
Just(k) == [kind |-> k, value |-> <<>>]
Running == answer.kind \notin {"index", "empty", "iterator", "undefined"}

\* -1 is above every number that is not negative: the bytes are compared.
Precedes(a, b) == IF (a < 0) = (b < 0) THEN a < b ELSE b < 0

Zero == [it \in Iterators |-> 0]
Init ==
    /\ live = {} /\ changed = FALSE
    /\ position = Zero
    /\ call = [op |-> "start"] /\ answer = Just("none")

Length == Len(contents)
Has(i) == i \in 0..(Length - 1)
Without(i) == SubSeq(contents, 1, i - 1) \o SubSeq(contents, i + 1, Length)

\* Any call may make the iterators invalid, one that writes must.
Forgotten == UNCHANGED live /\ position' = IF changed' THEN Zero ELSE position
Touched == changed' \in {changed, live # {}} /\ Forgotten
Written == changed' = (live # {}) /\ Forgotten
Reads(a) == UNCHANGED contents /\ answer' = a /\ Touched
Writes(s) == contents' = s /\ Written

Access(c) ==
    CASE c.op = "len" -> Reads(Value(Length))
      [] c.op = "get" -> Reads(IF Has(c.i) THEN Value(contents[c.i + 1]) ELSE Just("index"))
      [] c.op = "back" -> Reads(IF Length = 0 THEN Just("empty") ELSE Value(contents[Length]))
      [] c.op = "exists" -> Reads(Truth(\E k \in 1..Length : contents[k] = c.v))
      [] c.op = "indexof" ->
           LET found == {k \in 1..Length : contents[k] = c.v} IN
           Reads(IF found = {} THEN Just("end")
                 ELSE Value((CHOOSE k \in found : \A m \in found : k <= m) - 1))
      [] c.op \in {"clone", "toarray"} -> Reads(Values(contents))
      [] c.op = "push" -> Writes(Append(contents, c.v)) /\ answer' = Just("none")
      [] c.op = "pop" ->
           IF Length = 0 THEN Reads(Just("empty"))
           ELSE Writes(SubSeq(contents, 1, Length - 1)) /\ answer' = Value(contents[Length])
      [] c.op = "insert" ->
           IF c.i \notin 0..Length THEN Reads(Just("index"))
           ELSE /\ Writes(SubSeq(contents, 1, c.i) \o <<c.v>> \o SubSeq(contents, c.i + 1, Length))
                /\ answer' = Just("none")
      [] c.op = "set" ->
           IF ~Has(c.i) THEN Reads(Just("index"))
           ELSE Writes([contents EXCEPT ![c.i + 1] = c.v]) /\ answer' = Just("none")
      [] c.op = "remove" ->
           IF ~Has(c.i) THEN Reads(Just("index"))
           ELSE Writes(Without(c.i + 1)) /\ answer' = Just("none")
      [] c.op = "clear" -> Writes(<<>>) /\ answer' = Just("none")
      [] c.op = "sort" ->
           /\ Written /\ answer' = Just("none")
           /\ Len(contents') = Length
           /\ \A k \in 2..Length : ~Precedes(contents'[k], contents'[k - 1])
           /\ \A k \in 1..Length : Cardinality({m \in 1..Length : contents[m] = contents[k]})
                                     = Cardinality({m \in 1..Length : contents'[m] = contents[k]})

Begin(it) ==
    /\ live' = live \cup {it}
    /\ position' = [position EXCEPT ![it] = 0]
    /\ changed' = (changed /\ live \ {it} # {})
Leave(it) ==
    /\ live' = live \ {it}
    /\ position' = [position EXCEPT ![it] = 0]
    /\ changed' = (changed /\ live \ {it} # {})
Move(it) ==
    LET p == IF position[it] > Length THEN position[it] ELSE position[it] + 1 IN
    /\ position' = [position EXCEPT ![it] = p]
    /\ UNCHANGED <<live, changed>>
    /\ answer' = IF p > Length THEN Just("end") ELSE Truth(TRUE)
\* An iterator is at an element only after it has moved and before the list changes.
At(it) == it \in live /\ ~changed /\ position[it] \in 1..Length

Iterate(c) ==
    CASE c.op \in {"iterator", "copy"} -> Begin(c.it) /\ UNCHANGED contents /\ answer' = Just("none")
      [] c.op \in {"drop", "exit"} -> Leave(c.it) /\ UNCHANGED contents /\ answer' = Just("none")
      [] c.op = "movenext" ->
           /\ UNCHANGED contents
           /\ IF changed THEN answer' = Just("iterator") /\ UNCHANGED <<live, position, changed>>
              ELSE Move(c.it)
      [] c.op = "current" ->
           /\ UNCHANGED <<contents, live, position, changed>>
           /\ At(c.it) => answer' = Value(contents[position[c.it]])

\* FOR x IN l: x is the element itself, and what the body assigns to x is assigned to
\* the element; in a loop over a range x is a variable of its own.
Loop(c) ==
    CASE c.op = "for" ->
           /\ UNCHANGED contents
           /\ \/ changed /\ answer' = Just("iterator") /\ UNCHANGED <<live, position, changed>>
              \/ /\ ~changed /\ answer' = (IF Length = 0 THEN Just("end") ELSE Value(contents[1]))
                 /\ live' = IF Length = 0 THEN live ELSE live \cup {c.it}
                 /\ position' = [position EXCEPT ![c.it] = IF Length = 0 THEN 0 ELSE 1]
                 /\ UNCHANGED changed
      [] c.op = "next" ->
           /\ UNCHANGED contents
           /\ LET p == position[c.it] + 1 IN
              (CASE changed -> answer' = Just("iterator") /\ UNCHANGED <<live, position, changed>>
                [] ~changed /\ p <= Length ->
                     /\ answer' = Value(contents[p])
                     /\ position' = [position EXCEPT ![c.it] = p]
                     /\ UNCHANGED <<live, changed>>
                [] ~changed /\ p > Length -> answer' = Just("end") /\ Leave(c.it))
      [] c.op = "assign" ->
           /\ UNCHANGED <<live, position, changed>>
           /\ At(c.it) =>
                contents' \in {contents, [contents EXCEPT ![position[c.it]] = c.v]}

Next ==
    /\ Running
    /\ LET c == call' IN
       \/ c.op \in {"len", "get", "back", "exists", "indexof", "clone", "toarray", "push", "pop",
                    "insert", "set", "remove", "clear", "sort"} /\ Access(c)
       \/ c.op \in {"iterator", "copy", "drop", "exit", "movenext", "current"} /\ Iterate(c)
       \/ c.op \in {"for", "next", "assign"} /\ Loop(c)
Spec == Init /\ [][Next]_vars
=============================================================================
