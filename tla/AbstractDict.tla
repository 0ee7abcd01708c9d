---------------------------- MODULE AbstractDict ----------------------------
(***************************************************************************)
(* What a BASIC program may expect of a dictionary: a function from keys   *)
(* to values, and iterators that visit every key once, in any order, as    *)
(* long as the dictionary does not change.  Calls and answers are records, *)
(* as in AbstractList.                                                     *)
(***************************************************************************)
EXTENDS Integers, Sequences, FiniteSets

CONSTANTS Iterators, Keys, NoKey

VARIABLES contents,
          live,      \* the iterators there are
          changed,   \* the dictionary was changed while it had iterators, and has some still
          visited,   \* the keys each iterator has been at
          at,        \* the key each one is at
          call, answer
vars == <<contents, live, changed, visited, at, call, answer>>

Value(v) == [kind |-> "value", value |-> <<v>>]
Whole(f) == [kind |-> "value", value |-> f]
Just(k) == [kind |-> k, value |-> <<>>]
Running == answer.kind \notin {"index", "iterator", "undefined"}

Has(k) == k \in DOMAIN contents
Rest(it) == DOMAIN contents \ visited[it]

Init ==
    /\ contents = [k \in {} |-> 0]
    /\ live = {} /\ changed = FALSE
    /\ visited = [it \in Iterators |-> {}] /\ at = [it \in Iterators |-> NoKey]
    /\ call = [op |-> "start"] /\ answer = Just("none")

Unmoved == UNCHANGED <<live, changed, visited, at>>
Reads(a) == UNCHANGED contents /\ answer' = a /\ Unmoved
Writes(f) ==
    /\ contents' = f
    /\ changed' = (live # {}) /\ UNCHANGED live
    /\ visited' = (IF live = {} THEN visited ELSE [it \in Iterators |-> {}])
    /\ at' = (IF live = {} THEN at ELSE [it \in Iterators |-> NoKey])
    /\ answer' = Just("none")

Access(c) ==
    CASE c.op = "len" -> Reads(Value(Cardinality(DOMAIN contents)))
      [] c.op = "get" -> Reads(IF Has(c.k) THEN Value(contents[c.k]) ELSE Just("unknown"))
      [] c.op = "exists" -> Reads(Value(IF Has(c.k) THEN 1 ELSE 0))
      [] c.op = "clone" -> Reads(Whole(contents))
      [] c.op = "set" ->
           Writes([k \in DOMAIN contents \cup {c.k} |-> IF k = c.k THEN c.v ELSE contents[k]])
      [] c.op = "remove" ->
           IF Has(c.k) THEN Writes([k \in DOMAIN contents \ {c.k} |-> contents[k]])
           ELSE Reads(Just("index"))
      [] c.op = "clear" -> Writes([k \in {} |-> 0])

Places(it, seen, k) ==
    visited' = [visited EXCEPT ![it] = seen] /\ at' = [at EXCEPT ![it] = k]
Begin(it) ==
    /\ live' = live \cup {it} /\ changed' = (changed /\ live \ {it} # {})
    /\ Places(it, {}, NoKey)
Leave(it) ==
    /\ live' = live \ {it} /\ changed' = (changed /\ live \ {it} # {})
    /\ Places(it, {}, NoKey)
Visit(it, k) == Places(it, visited[it] \cup {k}, k)

Iterate(c) ==
    /\ UNCHANGED contents
    /\ CASE c.op \in {"iterator", "copy"} -> Begin(c.it) /\ answer' = Just("none")
         [] c.op \in {"drop", "exit"} -> Leave(c.it) /\ answer' = Just("none")
         [] c.op = "movenext" /\ ~changed ->
              /\ UNCHANGED <<live, changed>>
              /\ IF Rest(c.it) = {} THEN Places(c.it, visited[c.it], NoKey) /\ answer' = Just("end")
                 ELSE (\E k \in Rest(c.it) : Visit(c.it, k)) /\ answer' = Value(1)
         [] c.op \in {"current", "value"} /\ ~changed ->
              /\ Unmoved
              /\ answer' = IF at[c.it] = NoKey THEN Just("iterator")
                           ELSE Value(IF c.op = "current" THEN at[c.it] ELSE contents[at[c.it]])
         [] c.op \in {"movenext", "current", "value"} /\ changed -> Unmoved

\* FOR k IN d.
Turn(it, seen) ==
    \/ /\ DOMAIN contents \subseteq seen /\ answer' = Just("end") /\ Leave(it)
    \/ /\ UNCHANGED changed /\ live' = live \cup {it}
       /\ \E k \in DOMAIN contents \ seen : Places(it, seen \cup {k}, k) /\ answer' = Value(k)
Loop(c) ==
    /\ UNCHANGED contents
    /\ CASE c.op = "for" /\ ~changed -> Turn(c.it, {})
         [] c.op = "next" /\ ~changed -> Turn(c.it, visited[c.it])
         [] c.op = "for" /\ changed -> Unmoved
         [] c.op = "next" /\ changed -> Unmoved \/ Leave(c.it)
         [] c.op = "read" -> Unmoved /\ (~changed => answer' = Value(at[c.it]))

Next ==
    /\ Running
    /\ LET c == call' IN
       \/ c.op \in {"len", "get", "exists", "clone", "set", "remove", "clear"} /\ Access(c)
       \/ c.op \in {"iterator", "copy", "drop", "exit", "movenext", "current", "value"} /\ Iterate(c)
       \/ c.op \in {"for", "next", "read"} /\ Loop(c)
Spec == Init /\ [][Next]_vars
=============================================================================
