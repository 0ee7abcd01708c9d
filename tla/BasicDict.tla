----------------------------- MODULE BasicDict -----------------------------
(***************************************************************************)
(* The dictionaries of MY-BASIC (my_basic.c, _ht_node_t, _dict_t and the   *)
(* collection library): an array of buckets, each a chain of keys with     *)
(* their values, a count beside it, and iterators that walk the buckets.   *)
(* One dictionary; a node of a chain is named by the key it holds.  What a *)
(* type and a value hash to is any function of the key, fixed for a run.   *)
(***************************************************************************)
EXTENDS Collection, SequencesExt

CONSTANTS Keys,     \* the keys a program uses
          Stored,   \* the values it stores
          Size,     \* ht->array_size
          Hashes    \* what ht->hash may be: functions from keys to buckets

Bucket == 0..(Size - 1)
\* Where an iterator is when it is at no key: _INVALID_DICT_IT, the head of the last
\* bucket, nothing, and a node that was freed.
NoPlace == {"begin", "head", "null", "freed"}

\* The names of places are no keys, and every hash is a bucket.
DictSuits ==
    /\ Size \in Nat \ {0}
    /\ Keys \cap NoPlace = {}
    /\ Hashes \subseteq [Keys -> Bucket]
ASSUME DictAssumption == DictSuits

VARIABLES
    hash,
    array,   \* ht->array, the keys in each chain
    value,   \* the value in the node of each key
    dictCount,   \* ht->count
    dictLock,
    dictIts,     \* iterators: alive, at (curr_node) and bucket (curr_bucket)
    dictCall, dictAnswer
dictVars == <<hash, array, value, dictCount, dictLock, dictIts, dictCall, dictAnswer>>

DictRunning == dictAnswer.kind \notin Fatal
DictCall(c) == DictRunning /\ dictCall' = c /\ UNCHANGED hash
DictGone == [alive |-> FALSE, at |-> "null", bucket |-> 0]

-----------------------------------------------------------------------------
(* The hash table.                                                         *)

\* _ht_find.
Finds(k) == Contains(array[hash[k]], k)
Held == UNION {ToSet(array[b]) : b \in Bucket}

\* _ls_try_remove: the iterators there keep pointing to what is freed.
Freeing(S) == [it \in Iterators |-> IF dictIts[it].at \in S THEN [dictIts[it] EXCEPT !.at = "freed"]
                                    ELSE dictIts[it]]
DictBecome(a, n) == array' = a /\ dictCount' = n
Taken(k) == [array EXCEPT ![hash[k]] = RemoveFirst(@, k)]

Counted(k) == IF Finds(k) THEN dictCount ELSE dictCount + 1

-----------------------------------------------------------------------------
(* The statements on a dictionary.                                         *)

Still == UNCHANGED <<array, value, dictCount, dictLock, dictIts>>

DictLength == DictCall([op |-> "len"]) /\ dictAnswer' = Value(dictCount) /\ Still

\* GET(d, k) and d(k).
DictGet(k) ==
    /\ DictCall([op |-> "get", k |-> k])
    /\ dictAnswer' = IF Finds(k) THEN Value(value[k]) ELSE Just("unknown")
    /\ Still

DictExists(k) == DictCall([op |-> "exists", k |-> k]) /\ dictAnswer' = Truth(Finds(k)) /\ Still

\* CLONE, node by node into another dictionary.
DictClone ==
    /\ DictCall([op |-> "clone"])
    /\ dictAnswer' = [kind |-> "value", value |-> [k \in Held |-> value[k]]]
    /\ Still

\* SET(d, k, v), d(k) = v and the arguments of DICT: a key that is there is removed, and
\* goes to the end of its chain.
DictSet(k, v) ==
    /\ DictCall([op |-> "set", k |-> k, v |-> v])
    /\ DictBecome([Taken(k) EXCEPT ![hash[k]] = Append(@, k)], Counted(k))
    /\ value' = [value EXCEPT ![k] = v]
    /\ dictIts' = Freeing({k})
    /\ dictLock' = WriteOn(dictLock)
    /\ dictAnswer' = Just("none")

RemoveKey(k) ==
    /\ DictCall([op |-> "remove", k |-> k])
    /\ UNCHANGED value
    /\ IF Finds(k)
       THEN /\ DictBecome(Taken(k), dictCount - 1)
            /\ dictIts' = Freeing({k})
            /\ dictLock' = WriteOn(dictLock)
            /\ dictAnswer' = Just("none")
       ELSE dictAnswer' = Just("index") /\ UNCHANGED <<array, dictCount, dictIts, dictLock>>

DictClear ==
    /\ DictCall([op |-> "clear"])
    /\ DictBecome([b \in Bucket |-> <<>>], 0)
    /\ dictIts' = Freeing(Held)
    /\ dictLock' = WriteOn(dictLock)
    /\ dictAnswer' = Just("none") /\ UNCHANGED value

-----------------------------------------------------------------------------
(* Iterators.                                                              *)

Table == UNCHANGED <<array, value, dictCount>>
DictDisposed(it) == IF dictIts[it].alive THEN Unlock(dictLock) ELSE dictLock
DictBegun == [alive |-> TRUE, at |-> "begin", bucket |-> 0]

\* it = ITERATOR(d), and it = jt: a copy begins again.
DictIterator(it) ==
    /\ \/ DictCall([op |-> "iterator", it |-> it])
       \/ /\ \E jt \in Iterators \ {it, "loop"} : dictIts[jt].alive
          /\ DictCall([op |-> "copy", it |-> it])
    /\ dictIts' = [dictIts EXCEPT ![it] = DictBegun]
    /\ dictLock' = LockOn(DictDisposed(it))
    /\ dictAnswer' = Just("none") /\ Table

\* Something else is assigned to the variable.
DictDrop(it) ==
    /\ DictCall([op |-> "drop", it |-> it])
    /\ dictIts' = [dictIts EXCEPT ![it] = DictGone]
    /\ dictLock' = DictDisposed(it)
    /\ dictAnswer' = Just("none") /\ Table

\* The for loop of _move_dict_it_next, from a bucket on; without one it changes nothing.
FirstFrom(c) ==
    LET filled == {b \in Bucket : b >= c.bucket /\ array[b] # <<>>}
        b == CHOOSE m \in filled : \A n \in filled : m <= n
    IN IF filled # {} THEN [c EXCEPT !.at = array[b][1], !.bucket = b]
       ELSE [c EXCEPT !.at = IF @ = "begin" \/ c.bucket < Size THEN "head" ELSE @,
                      !.bucket = IF @ < Size THEN Size ELSE @]

Follows(c) ==
    LET s == IF c.at = "head" THEN <<"head">> \o array[Size - 1] ELSE array[hash[c.at]]
        i == CHOOSE n \in DOMAIN s : s[n] = c.at
    IN IF i < Len(s) THEN s[i + 1] ELSE "null"

\* A plausible bug: at the end of a chain the bucket is not left.
DictOnwardInBucket(c) ==
    IF c.at \in {"begin", "null"} THEN FirstFrom(c)
    ELSE IF Follows(c) # "null" THEN [c EXCEPT !.at = Follows(c)]
    ELSE FirstFrom([c EXCEPT !.at = "null"])

\* _move_dict_it_next, for an iterator at no freed node.
DictOnward(c) ==
    IF c.at = "null" THEN c
    ELSE IF c.at = "begin" THEN FirstFrom(c)
    ELSE IF Follows(c) # "null" THEN [c EXCEPT !.at = Follows(c)]
    ELSE FirstFrom([c EXCEPT !.at = "null", !.bucket = @ + 1])

DictFound(c) == c.at \in Keys

\* MOVE_NEXT(it).  That the lock says the dictionary has changed is seen before only if
\* the iterator has not begun, and else when it has moved.
DictMoveNext(it) ==
    /\ DictCall([op |-> "movenext", it |-> it])
    /\ dictIts[it].alive
    /\ LET next == DictOnward(dictIts[it]) IN
       IF dictIts[it].at = "begin" /\ dictLock <= 0
       THEN dictAnswer' = Just("iterator") /\ UNCHANGED dictIts
       ELSE IF dictIts[it].at = "freed" THEN dictAnswer' = Just("undefined") /\ UNCHANGED dictIts
       ELSE /\ dictIts' = [dictIts EXCEPT ![it] = next]
            /\ dictAnswer' = IF ~DictFound(next) THEN Just("end")
                             ELSE IF dictLock <= 0 THEN Just("iterator") ELSE Truth(TRUE)
    /\ UNCHANGED dictLock /\ Table

\* GET(it) and VAL(it).
DictHere(c, a) ==
    CASE c.at = "freed" -> Just("undefined")
      [] c.at \in {"begin", "head", "null"} -> Just("iterator")
      [] OTHER -> Value(a)
DictCurrent(it) ==
    /\ dictIts[it].alive
    /\ \/ /\ DictCall([op |-> "current", it |-> it])
          /\ dictAnswer' = DictHere(dictIts[it], dictIts[it].at)
       \/ /\ DictCall([op |-> "value", it |-> it])
          /\ dictAnswer' = DictHere(dictIts[it], IF DictFound(dictIts[it]) THEN value[dictIts[it].at] ELSE 0)
    /\ Still

-----------------------------------------------------------------------------
(* FOR k IN d: an iterator of its own, whose key the variable stands for.  *)
(* A body that assigns to it is left out: it would change the key where it *)
(* is and leave it in the old key's bucket.                                *)

DictLoop == dictIts["loop"]
DictTurn(c, lk) ==
    LET next == DictOnward(c) IN
    CASE c.at = "freed" -> dictAnswer' = Just("undefined") /\ UNCHANGED <<dictIts, dictLock>>
      [] c.at # "freed" /\ ~DictFound(next) ->
           /\ dictAnswer' = Just("end")
           /\ dictIts' = [dictIts EXCEPT !["loop"] = DictGone] /\ dictLock' = Unlock(lk)
      [] c.at # "freed" /\ DictFound(next) /\ lk <= 0 ->
           dictAnswer' = Just("iterator") /\ UNCHANGED <<dictIts, dictLock>>
      [] OTHER ->
           /\ dictAnswer' = Value(next.at)
           /\ dictIts' = [dictIts EXCEPT !["loop"] = next] /\ dictLock' = lk
DictForIn ==
    /\ ~DictLoop.alive
    /\ DictCall([op |-> "for", it |-> "loop"])
    /\ DictTurn(DictBegun, LockOn(dictLock)) /\ Table
DictForNext ==
    /\ DictLoop.alive
    /\ DictCall([op |-> "next", it |-> "loop"])
    /\ DictTurn(DictLoop, dictLock) /\ Table
DictForRead ==
    /\ DictLoop.alive
    /\ DictCall([op |-> "read", it |-> "loop"])
    /\ dictAnswer' = (IF DictLoop.at = "freed" THEN Just("undefined") ELSE Value(DictLoop.at))
    /\ Still
DictForExit ==
    /\ DictLoop.alive
    /\ DictCall([op |-> "exit", it |-> "loop"])
    /\ dictIts' = [dictIts EXCEPT !["loop"] = DictGone] /\ dictLock' = Unlock(dictLock)
    /\ dictAnswer' = Just("none") /\ Table

-----------------------------------------------------------------------------
\* DICT().
DictInit ==
    /\ hash \in Hashes
    /\ array = [b \in Bucket |-> <<>>] /\ value = [k \in Keys |-> 0] /\ dictCount = 0
    /\ dictLock = 0 /\ dictIts = [it \in Iterators |-> DictGone]
    /\ dictCall = [op |-> "start"] /\ dictAnswer = Just("none")

DictNext ==
    \/ DictLength \/ DictClone \/ DictClear
    \/ \E k \in Keys : DictGet(k) \/ DictExists(k) \/ RemoveKey(k)
    \/ \E k \in Keys, v \in Stored : DictSet(k, v)
    \/ \E it \in Iterators \ {"loop"} :
          DictIterator(it) \/ DictDrop(it) \/ DictMoveNext(it) \/ DictCurrent(it)
    \/ DictForIn \/ DictForNext \/ DictForRead \/ DictForExit
DictSpec == DictInit /\ [][DictNext]_dictVars

-----------------------------------------------------------------------------
(* Properties                                                              *)

DictTypeOK ==
    /\ hash \in [Keys -> Bucket] /\ array \in [Bucket -> Seq(Keys)] /\ value \in [Keys -> Int]
    /\ dictCount \in Nat /\ dictLock \in Int
    /\ dictIts \in [Iterators -> [alive : BOOLEAN, at : Keys \cup NoPlace, bucket : 0..(Size + 1)]]

\* The dictionary is the function from keys to values that its calls make of it, and an
\* iterator of one that does not change visits each key once: neither the chains and their
\* order, nor the count, nor the buckets without a key are to be seen in any answer.
Passed(c) ==
    IF c.at = "begin" THEN {}
    ELSE IF ~DictFound(c) THEN Held
    ELSE (UNION {ToSet(array[b]) : b \in {n \in Bucket : n < c.bucket}})
         \cup {array[c.bucket][i] : i \in {n \in DOMAIN array[c.bucket] :
                 \E m \in n..Len(array[c.bucket]) : array[c.bucket][m] = c.at}}
Shown(it) == dictIts[it].alive /\ dictLock >= 0

DictContents == [k \in Held |-> value[k]]
Alive    == {it \in Iterators : dictIts[it].alive}
Changed  == dictLock < 0
Visited  == [it \in Iterators |-> IF Shown(it) THEN Passed(dictIts[it]) ELSE {}]
At       == [it \in Iterators |-> IF Shown(it) /\ DictFound(dictIts[it]) THEN dictIts[it].at ELSE "null"]

AbstractMap == INSTANCE AbstractDict WITH
    NoKey <- "null", contents <- DictContents, live <- Alive, changed <- Changed,
    visited <- Visited, at <- At, call <- dictCall, answer <- dictAnswer
IsMap == AbstractMap!Spec

\* What _move_list_it_next promises of collections, "The iterator goes invalid if
\* collection has been changed after obtaining iterator": MOVE_NEXT refuses it.
DictStaleRefused == dictCall.op = "movenext" /\ dictLock < 0 => dictAnswer.kind # "undefined"
=============================================================================
