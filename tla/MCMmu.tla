------------------------------- MODULE MCMmu -------------------------------
(***************************************************************************)
(* A four-page machine for TLC.  Pages 0 and 1 are RAM, 2 is a device and  *)
(* 3 a hole.  Page 0 is the root table: it points to the table in page 1   *)
(* and holds a superpage that gives the supervisor both tables as pages 2  *)
(* and 3.  Page 1 maps user page 0 to RAM and page 1 execute-only.  The    *)
(* guest edits the mapping of page 0.                                      *)
(***************************************************************************)
EXTENDS Mmu, TLC

Leaf(r, w, x, u, a, d, ppn) ==
    [v |-> TRUE, r |-> r, w |-> w, x |-> x, u |-> u, a |-> a, d |-> d, ppn |-> ppn]

Pointer    == Leaf(FALSE, FALSE, FALSE, FALSE, FALSE, FALSE, 1)
KernelSuper == Leaf(TRUE, TRUE, TRUE, FALSE, FALSE, FALSE, 0)
UserData   == Leaf(TRUE, TRUE, FALSE, TRUE, FALSE, FALSE, 1)
UserDevice == Leaf(TRUE, TRUE, TRUE, TRUE, FALSE, FALSE, 2)
ExecOnly   == Leaf(FALSE, FALSE, TRUE, TRUE, FALSE, FALSE, 0)
Bare       == {ZeroPte, Pointer, KernelSuper, UserData, UserDevice, ExecOnly}

MCPage    == 0 .. 3
MCRamPage == {0, 1}
MCPte     == Bare \cup {Mark(pte, acc) : pte \in Bare \ {Pointer}, acc \in Access}
MCSatpPpn == {0}
MCMem0    == {(<<0, 0>> :> Pointer) @@ (<<0, 1>> :> KernelSuper)
              @@ (<<1, 0>> :> UserData) @@ (<<1, 1>> :> ExecOnly)}
MCMstatusWrites ==
    [mprv : BOOLEAN, mpp : {PRV_U, PRV_S, PRV_M}, spp : {PRV_U},
     sum : BOOLEAN, mxr : {FALSE}]
    \cup [mprv : {FALSE}, mpp : {PRV_H}, spp : {PRV_S}, sum : {FALSE}, mxr : {TRUE}]
MCEdits   == {<<<<1, 0>>, pte>> : pte \in {ZeroPte, UserDevice}}
=============================================================================
