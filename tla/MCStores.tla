------------------------------ MODULE MCStores ------------------------------
(***************************************************************************)
(* Three questions about memory, in one run: three threads that add to a   *)
(* counter under a kernel that switches between them with a dummy LR, a    *)
(* dirty-tracked range of three pages, and accesses of every width and     *)
(* alignment.  A behaviour takes one of them and leaves the others in one  *)
(* initial state.                                                          *)
(***************************************************************************)
EXTENDS LrSc, PhysMem, MCMemAccess, TLC

VARIABLE question

CONSTANTS t1, t2, t3, p1, p2, p3

MCThread == {t1, t2, t3}
MCPage == {p1, p2, p3}
Alike == Permutations(MCThread) \cup Permutations(MCPage)

Idle(part) ==
    \/ part = "atomics" /\ Init /\ running = t1
    \/ part = "dirty" /\ RamInit /\ enabled
    \/ part = "accesses" /\ AccInit /\ \A v \in VPage : map[v] = At(v)

MCInit ==
    \/ question = "atomics" /\ Init /\ Idle("dirty") /\ Idle("accesses")
    \/ question = "dirty" /\ RamInit /\ Idle("atomics") /\ Idle("accesses")
    \/ question = "accesses" /\ AccInit /\ Idle("atomics") /\ Idle("dirty")

MCNext ==
    \/ question = "atomics" /\ Next /\ UNCHANGED <<question, ramVars, accVars>>
    \/ question = "dirty" /\ RamNext /\ UNCHANGED <<question, vars, accVars>>
    \/ question = "accesses" /\ AccNext /\ UNCHANGED <<question, vars, ramVars>>

MCSpec == MCInit /\ [][MCNext]_<<question, vars, ramVars, accVars>>
=============================================================================
