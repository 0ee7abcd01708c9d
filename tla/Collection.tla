----------------------------- MODULE Collection -----------------------------
(***************************************************************************)
(* What lists and dictionaries of MY-BASIC have in common (my_basic.c):    *)
(* answers, and the lock, a counter whose sign tells iterators of changes. *)
(***************************************************************************)
EXTENDS Integers, FiniteSets

CONSTANT Iterators  \* the program's iterator variables, and "loop" for FOR x IN l

ASSUME IteratorsAssumption == IsFiniteSet(Iterators) /\ "loop" \in Iterators

Values(s) == [kind |-> "value", value |-> s]
Value(v) == Values(<<v>>)
Truth(c) == Value(IF c THEN 1 ELSE 0)
Just(k) == [kind |-> k, value |-> <<>>]

\* The statements that failed end the program; "undefined" is one that reads or
\* writes what was freed, or takes a number for a pointer.
Fatal == {"index", "empty", "iterator", "undefined"}

\* _lock_ref_object, _unlock_ref_object.
LockOn(lk) == IF lk >= 0 THEN lk + 1 ELSE lk - 1
Unlock(lk) == IF lk > 0 THEN lk - 1 ELSE IF lk < 0 THEN lk + 1 ELSE lk

\* A plausible bug: a write does not tell the iterators.
WriteOnUnnoticed(lk) == lk

\* _write_on_ref_object: the iterators there are become invalid.
WriteOn(lk) == IF lk > 0 THEN -lk ELSE lk
=============================================================================
