---------------------------- MODULE MCBasicDict ----------------------------
(***************************************************************************)
(* The dictionaries that are checked: three keys in three buckets.         *)
(***************************************************************************)
EXTENDS BasicDict

MCKeys == {"p", "q", "r"}

\* Two keys that collide beside an empty bucket, all in one, and the first and last bucket.
MCHashes ==
    {[k \in Keys |-> IF k = "r" THEN 2 ELSE 0],
     [k \in Keys |-> 1],
     [k \in Keys |-> IF k = "q" THEN 0 ELSE 2]}
OneBucket == {[k \in Keys |-> 1]}

\* A step depends on the last call only in that no error has ended the program.
DictView == <<hash, array, [k \in Held |-> value[k]], dictCount, dictLock, dictIts, DictRunning>>
\* DictStaleRefused is about the last call and its answer.
AnswerView == <<DictView, dictCall.op, dictAnswer.kind>>
=============================================================================
