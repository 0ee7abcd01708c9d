------------------------------ MODULE Display ------------------------------
(***************************************************************************)
(* The frame loop of the emulator (mach_setup in emu/main.c), the display  *)
(* peripheral it draws with (emu/peri_gfx.c) and the guest's driver for it *)
(* (sdk/driver/gfxdriver.c), which finds out by polling what line is being *)
(* drawn.  Guest and host share one thread: the guest runs for a slice of  *)
(* instructions, then the host draws one line from the registers as it     *)
(* finds them, wherever in a driver call the slice happened to end.        *)
(*                                                                         *)
(* A slice is counted in register accesses (module Interp counts it in     *)
(* instructions); a register holds the number of the driver call that      *)
(* wrote it last, 0 before the first.                                      *)
(***************************************************************************)
EXTENDS Integers, Sequences

CONSTANTS
    Lines,      \* lines of a frame (240)
    LineSteps,  \* register accesses that fit in a slice
    Updates     \* driver calls the guest makes in all (bounds the run)

ASSUME DisplayAssumption ==
    /\ Lines \in Nat /\ Lines >= 2
    /\ LineSteps \in Nat \ {0}
    /\ Updates \in Nat

VARIABLES
    running,    \* mach_setup's loop has not been quit
    y,          \* the line whose slice is running
    last,       \* g->last_scanline
    steps,      \* accesses left in the slice
    reg,        \* the registers of the peripheral
    pc,         \* the guest: in one of gfx_wait_vbl's loops, or elsewhere
    todo,       \* the register writes the driver call at hand still owes
    calls,      \* driver calls so far
    fresh,      \* the guest has done nothing since gfx_wait_vbl returned
    vblOnly,    \* the guest calls the driver only when gfx_wait_vbl returns
    snap,       \* history: the registers that line 0 of the frame was drawn with
    drawn       \* history: lines drawn since gfx_wait_vbl returned, at most Lines

guestVars == <<pc, todo, calls, fresh, vblOnly>>
displayVars == <<running, y, last, steps, reg, guestVars, snap, drawn>>

-----------------------------------------------------------------------------
(* The driver calls, as the registers they write, in their order.          *)

\* A plausible bug: the base address, which turns the layer on, comes first.
FbSetMemBaseFirst == <<"fb_base", "fb_pitch", "fb_height">>

\* gfx_fb_set_mem
FbSetMem == <<"fb_pitch", "fb_height", "fb_base">>

\* gfx_fb_set_scroll
FbSetScroll == <<"fb_scrollx", "fb_scrolly">>

\* gfx_bgnd_set_map
BgndSetMap == <<"width", "height", "map_addr">>

\* gfx_bgnd_set_gfx
BgndSetGfx == <<"gfx_addr", "transcol">>

\* gfx_bgnd_set_scroll
BgndSetScroll == <<"bgnd_scrollx", "bgnd_scrolly">>

\* gfx_sprite_set_mem
SpriteSetMem == <<"sprite_tile_addr", "sprite_list_addr", "sprite_transcol">>

DriverCalls == {FbSetMem, FbSetScroll, BgndSetMap, BgndSetGfx, BgndSetScroll, SpriteSetMem}
Written(call) == {call[i] : i \in 1 .. Len(call)}
Reg == UNION {Written(call) : call \in DriverCalls}

\* What the renderers ask before they draw a layer.
FbOn      == reg["fb_base"] # 0
BgndOn    == \A r \in {"gfx_addr", "map_addr", "width", "height"} : reg[r] # 0
SpritesOn == \A r \in {"sprite_tile_addr", "sprite_list_addr"} : reg[r] # 0

\* The registers of a call that no call has written yet.
Unset(call) == {r \in Written(call) : reg[r] = 0}

-----------------------------------------------------------------------------
(* The guest.                                                              *)

Guest == running /\ steps > 0
Idle  == Guest /\ pc = "elsewhere" /\ todo = <<>>

\* Instructions that leave the display alone take any part of the slice.
Compute ==
    /\ Idle
    /\ steps' \in 0 .. steps - 1
    /\ fresh' = FALSE
    /\ UNCHANGED <<running, y, last, reg, pc, todo, calls, vblOnly, snap, drawn>>

Start(call) ==
    /\ Idle
    /\ calls < Updates
    /\ vblOnly => fresh
    /\ todo' = call
    /\ calls' = calls + 1
    /\ fresh' = FALSE
    /\ UNCHANGED <<running, y, last, steps, reg, pc, vblOnly, snap, drawn>>

\* gfx_write_fn
WriteReg ==
    /\ Guest
    /\ todo # <<>>
    /\ reg' = [reg EXCEPT ![Head(todo)] = calls]
    /\ todo' = Tail(todo)
    /\ steps' = steps - 1
    /\ UNCHANGED <<running, y, last, pc, calls, fresh, vblOnly, snap, drawn>>

\* A plausible bug: gfx_wait_vbl without its first loop.
CallWaitForLast ==
    /\ Idle
    /\ pc' = "until last"
    /\ UNCHANGED <<running, y, last, steps, reg, todo, calls, fresh, vblOnly, snap, drawn>>

\* gfx_wait_vbl: wait for the last line but one, then for the last.
CallWait ==
    /\ Idle
    /\ pc' = "until last but one"
    /\ UNCHANGED <<running, y, last, steps, reg, todo, calls, fresh, vblOnly, snap, drawn>>

\* One round of a loop: gfx_read_fn of GFX_ST_SCANLINE_REG.
PollLastButOne ==
    /\ Guest
    /\ pc = "until last but one"
    /\ IF last = Lines - 2 THEN pc' = "until last" ELSE UNCHANGED pc
    /\ steps' = steps - 1
    /\ UNCHANGED <<running, y, last, reg, todo, calls, fresh, vblOnly, snap, drawn>>

PollLast ==
    /\ Guest
    /\ pc = "until last"
    /\ IF last = Lines - 1
       THEN pc' = "elsewhere" /\ fresh' = TRUE /\ drawn' = 0
       ELSE UNCHANGED <<pc, fresh, drawn>>
    /\ steps' = steps - 1
    /\ UNCHANGED <<running, y, last, reg, todo, calls, vblOnly, snap>>

-----------------------------------------------------------------------------
(* The host.                                                               *)

\* History.
Drawn == /\ snap' = IF y = 0 THEN reg ELSE snap
         /\ drawn' = IF drawn < Lines THEN drawn + 1 ELSE drawn

\* A plausible bug: the line is reported only with the frame.
RenderReportsFrame ==
    /\ running /\ steps = 0
    /\ last' = IF y = Lines - 1 THEN y ELSE last
    /\ Drawn
    /\ y' = (y + 1) % Lines
    /\ steps' = LineSteps
    /\ running' \in IF y = Lines - 1 THEN BOOLEAN ELSE {TRUE}
    /\ UNCHANGED <<reg, guestVars>>

\* The slice is over: peri_gfx_render_scanline(y), and the next line's slice.
\* After the last line the loop looks at the host's events, and may be quit.
Render ==
    /\ running /\ steps = 0
    /\ last' = y
    /\ Drawn
    /\ y' = (y + 1) % Lines
    /\ steps' = LineSteps
    /\ running' \in IF y = Lines - 1 THEN BOOLEAN ELSE {TRUE}
    /\ UNCHANGED <<reg, guestVars>>

-----------------------------------------------------------------------------
\* peri_gfx_init clears the peripheral.
DisplayInit ==
    /\ running = TRUE
    /\ y = 0
    /\ last = 0
    /\ steps = LineSteps
    /\ reg = [r \in Reg |-> 0]
    /\ pc = "elsewhere"
    /\ todo = <<>>
    /\ calls = 0
    /\ fresh = FALSE
    /\ vblOnly \in BOOLEAN
    /\ snap = reg
    /\ drawn = Lines

DisplayNext ==
    \/ Compute
    \/ \E call \in DriverCalls : Start(call)
    \/ WriteReg
    \/ CallWait
    \/ PollLastButOne
    \/ PollLast
    \/ Render

DisplaySpec == DisplayInit /\ [][DisplayNext]_displayVars

\* The emulator's only thread keeps running.
DisplayFairSpec == DisplaySpec /\ WF_displayVars(DisplayNext)

-----------------------------------------------------------------------------
(* Properties.                                                             *)

DisplayTypeOK ==
    /\ running \in BOOLEAN
    /\ y \in 0 .. Lines - 1
    /\ last \in 0 .. Lines - 1
    /\ steps \in 0 .. LineSteps
    /\ reg \in [Reg -> 0 .. Updates]
    /\ pc \in {"elsewhere", "until last but one", "until last"}
    /\ todo \in Seq(Reg)
    /\ calls \in 0 .. Updates
    /\ fresh \in BOOLEAN
    /\ vblOnly \in BOOLEAN
    /\ snap \in [Reg -> 0 .. Updates]
    /\ drawn \in 0 .. Lines

\* gfx_wait_vbl returns between two frames: every line of the old one is drawn,
\* none of the new one.
ReturnsBetweenFrames ==
    [][pc = "until last" /\ pc' = "elsewhere" => y = 0]_displayVars

\* A guest that waits once per round of its loop does at most one round per
\* frame: gfx_wait_vbl does not return twice for the same last line, however
\* short the round (what its first loop is for).
OneReturnPerFrame ==
    [][pc = "until last" /\ pc' = "elsewhere" => drawn = Lines]_displayVars

\* What the tests of the renderers are worth: a layer that is on has every register
\* written, but for those that the driver call under way still owes.  The frame
\* buffer, whose address is the last register of its call, has them all.
OnIsSetUp ==
    /\ FbOn => Unset(FbSetMem) = {}
    /\ BgndOn => Unset(BgndSetMap) \cup Unset(BgndSetGfx) \subseteq Written(todo)
    /\ SpritesOn => Unset(SpriteSetMem) \subseteq Written(todo)

\* Which lines are drawn with a layer half set up.  Of the frame buffer, none.  Of a
\* background and of the sprites, the line at the end of a slice that ends inside the
\* very call that switched them on: the sprites' call, and gfx_bgnd_set_gfx after
\* gfx_bgnd_set_map, write the transparent colour last.  In whatever order the calls
\* are made, none if the guest makes them only when gfx_wait_vbl returns.
HalfSetUpOnlyInCall ==
    [][Render => OnIsSetUp
                 /\ (vblOnly => /\ BgndOn => Unset(BgndSetMap) \cup Unset(BgndSetGfx) = {}
                                /\ SpritesOn => Unset(SpriteSetMem) = {})]_displayVars

\* gfx_wait_vbl returns, unless the user quits: its two loops poll often enough
\* to see both lines, which are reported for one slice each.
WaitReturns == pc # "elsewhere" ~> pc = "elsewhere" \/ ~running

\* A guest that updates the display only when gfx_wait_vbl returns, with writes
\* that fit in what is left of the slice, never tears a frame: all its lines are
\* drawn with the registers its first line was drawn with.
NoTearing == [][vblOnly /\ Render /\ y > 0 => reg = snap]_displayVars
=============================================================================
