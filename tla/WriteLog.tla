------------------------------ MODULE WriteLog ------------------------------
(***************************************************************************)
(* What dirty-page tracking promises the host: every page stored to since  *)
(* the last collection is in the next report, no other page is, and a      *)
(* report does not change until the next collection.  Pages that change by *)
(* the marks of page walks are not logged: a report has such a page only   *)
(* if it was stored to as well.                                            *)
(***************************************************************************)
CONSTANT Page

VARIABLES log, unlogged, report

vars == <<log, unlogged, report>>

Init == log = {} /\ unlogged = {} /\ report = {}

\* The pages in which the walk of an access marks an entry, if it does.
Mark(pages) == unlogged' = unlogged \cup pages

Write(p, marked) == log' = log \cup {p} /\ Mark(marked) /\ UNCHANGED report
Walk(p)   == Mark({p}) /\ UNCHANGED <<log, report>>
Forget(p) == log' = log \ {p} /\ unlogged' = unlogged \ {p} /\ UNCHANGED report
Collect   == report' = log /\ log' = {} /\ unlogged' = {}

Next ==
    \/ Collect
    \/ \E p \in Page : Walk(p) \/ Forget(p)
    \/ \E p \in Page, marked \in SUBSET Page : Write(p, marked)

Spec == Init /\ [][Next]_vars
=============================================================================
