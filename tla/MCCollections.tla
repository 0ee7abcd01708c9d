--------------------------- MODULE MCCollections ---------------------------
(***************************************************************************)
(* The collections of MY-BASIC: a run is about a list or a dictionary.     *)
(***************************************************************************)
EXTENDS BasicList, MCBasicDict

VARIABLE question

MCLists == {<<>>, <<1, -1>>, <<-1, 1>>}
MCRanges == {<<1, 1>>, <<-1, 1>>}
MCInts == {-1, 1}
MCIndices == -1..2

\* Of ranges that ascend, and filled before anything looks at their chain.
ASSUME AscendingAssumption == Ascending

\* The collection that is not asked about stays empty.
MCInit ==
    /\ question \in {"list", "dict"} /\ Init /\ DictInit
    /\ question = "list" => hash = [k \in Keys |-> 1]
    /\ question = "dict" => nodes = <<>> /\ range = <<>>
MCNext ==
    \/ question = "list" /\ Next /\ FilledFirst /\ UNCHANGED <<question, dictVars>>
    \/ question = "dict" /\ DictNext /\ UNCHANGED <<question, listVars>>
MCSpec == MCInit /\ [][MCNext]_<<question, listVars, dictVars>>

MCView == <<question, nodes, data, count, range, cache, lock, its, x, Running, DictView>>
=============================================================================
