-------------------------------- MODULE LrSc --------------------------------
(***************************************************************************)
(* LR/SC and AMO of the emulated hart (OP_A in riscv_cpu_template.h).  The *)
(* reservation is one register, load_res, an address: LR sets it, SC       *)
(* compares it, and nothing else touches it.                               *)
(*                                                                         *)
(* The guest is a kernel that switches between threads at any instruction, *)
(* each thread adding one to a shared counter, with an LR/SC loop or with  *)
(* amoadd.  What the kernel does to the reservation on a switch is a       *)
(* parameter: nothing, a dummy SC to a scratch word or a dummy LR of it.   *)
(* A page fault in an LR, SC or AMO changes nothing here: the thread is    *)
(* resumed at the same instruction.                                        *)
(***************************************************************************)
EXTENDS Integers

CONSTANTS
    Thread,
    Adds,       \* additions each thread makes
    SwitchWith  \* "nothing", "sc" or "lr"

Addr == {"counter", "scratch"}
None == "none"          \* load_res = 0 after reset, below the mapped RAM

ASSUME LrScAssumption ==
    /\ Thread # {}
    /\ Adds \in Nat \ {0}
    /\ SwitchWith \in {"nothing", "sc", "lr"}

VARIABLES
    mem,        \* the two words
    loadRes,    \* s->load_res
    running,    \* the thread the kernel has on the hart
    reserved,   \* threads between their LR and their SC
    loaded,     \* the value each thread's LR read
    done,       \* additions each thread completed
    added,      \* history: additions the threads believe they made
    written     \* history: threads whose counter was written since their LR

vars == <<mem, loadRes, running, reserved, loaded, done, added, written>>

\* A write to a word; the threads that hold a value of the counter are behind.
Put(addr, val) ==
    /\ mem' = [mem EXCEPT ![addr] = val]
    /\ written' = IF addr = "counter" THEN Thread ELSE written

Added(t) == done' = [done EXCEPT ![t] = @ + 1] /\ added' = added + 1

\* lr.w
Lr(t) ==
    /\ running = t /\ t \notin reserved /\ done[t] < Adds
    /\ loaded' = [loaded EXCEPT ![t] = mem["counter"]]
    /\ loadRes' = "counter"
    /\ reserved' = reserved \cup {t}
    /\ written' = written \ {t}
    /\ UNCHANGED <<mem, running, done, added>>

\* Plausible bugs: an SC that does not look at the reservation, one that stores
\* although it reports a failure.
ScUnconditional(t) ==
    /\ running = t /\ t \in reserved
    /\ Put("counter", loaded[t] + 1)
    /\ Added(t)
    /\ reserved' = reserved \ {t}
    /\ UNCHANGED <<loadRes, running, loaded>>

ScStoresAnyway(t) ==
    /\ running = t /\ t \in reserved
    /\ Put("counter", loaded[t] + 1)
    /\ IF loadRes = "counter" THEN Added(t) ELSE UNCHANGED <<done, added>>
    /\ reserved' = reserved \ {t}
    /\ UNCHANGED <<loadRes, running, loaded>>

\* sc.w of the incremented value: a success is an addition, a failure goes back
\* to the LR.  The reservation survives both.
Sc(t) ==
    /\ running = t /\ t \in reserved
    /\ IF loadRes = "counter"
       THEN /\ Put("counter", loaded[t] + 1)
            /\ Added(t)
       ELSE UNCHANGED <<mem, written, done, added>>
    /\ reserved' = reserved \ {t}
    /\ UNCHANGED <<loadRes, running, loaded>>

\* amoadd.w: a read and a write in one instruction, blind to the reservation.
AmoAdd(t) ==
    /\ running = t /\ t \notin reserved /\ done[t] < Adds
    /\ Put("counter", mem["counter"] + 1)
    /\ Added(t)
    /\ UNCHANGED <<loadRes, running, reserved, loaded>>

\* A timer interrupt and the kernel's switch to another thread, with its dummy
\* LR or SC of the scratch word.
Switch(t) ==
    /\ running' = t
    /\ loadRes' = IF SwitchWith = "lr" THEN "scratch" ELSE loadRes
    /\ IF SwitchWith = "sc" /\ loadRes = "scratch"
       THEN Put("scratch", 0)
       ELSE UNCHANGED <<mem, written>>
    /\ UNCHANGED <<reserved, loaded, done, added>>

Init ==
    /\ mem = [a \in Addr |-> 0]
    /\ loadRes = None
    /\ running \in Thread
    /\ reserved = {}
    /\ loaded = [t \in Thread |-> 0]
    /\ done = [t \in Thread |-> 0]
    /\ added = 0
    /\ written = {}

Next == \E t \in Thread : Lr(t) \/ Sc(t) \/ AmoAdd(t) \/ Switch(t)

Spec == Init /\ [][Next]_vars

-----------------------------------------------------------------------------
TypeOK ==
    /\ mem \in [Addr -> Nat]
    /\ loadRes \in Addr \cup {None}
    /\ running \in Thread
    /\ reserved \subseteq Thread
    /\ loaded \in [Thread -> Nat]
    /\ done \in [Thread -> 0 .. Adds]
    /\ added \in Nat
    /\ written \subseteq Thread

\* No addition is lost or made twice: the counter is the number of additions
\* the threads believe they made, though every one of them may be suspended
\* between its LR and its SC ("for atomic LR/SC", riscv_cpu_priv.h:233).
NoLostUpdate == mem["counter"] = added

\* An SC succeeds only if the word is as its own LR left it.
ScSeesOwnLoad ==
    [][\A t \in Thread : Sc(t) /\ done'[t] # done[t] => t \notin written]_vars
=============================================================================
