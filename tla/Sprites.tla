------------------------------ MODULE Sprites ------------------------------
(***************************************************************************)
(* The sprites, from the BASIC program's calls to the pixels: SPRINIT,     *)
(* SPRSETX and SPRSETY (sdk/mybasic/ext_gfx.c), the list they keep in the  *)
(* guest's memory, and the renderer that walks it once a line              *)
(* (gfx_render_sprites in emu/peri_gfx.c).                                 *)
(*                                                                         *)
(* The list ends with a marker in a sprite's y position, a 16 bit number   *)
(* that the program's ints are cut down to.  The program names sprites of  *)
(* its list only: the extensions do not check.  Sprites are opaque.        *)
(***************************************************************************)
EXTENDS Backgrounds, Sequences, FiniteSetsExt

CONSTANTS
    Counts,   \* the max_count arguments of SPRINIT
    Place,    \* the positions the program sets, ints
    Half,     \* 2^15, half the range of a position
    Limit     \* sprite_limit of the renderer (200)

ASSUME SpritesAssumption ==
    /\ Counts \subseteq Nat
    /\ Place \subseteq Int
    /\ Half \in Nat \ {0} /\ Limit \in Nat \ {0}
    /\ Side < Half /\ FBW < Half /\ FBH < Half

SPRITE_LIST_END_MARKER == -Half
SPRITE_HIDE == -Half + 1

VARIABLES
    list,    \* the sprites at sprite_list_addr, <<>> while that is 0
    placed    \* history: the positions the program asked for

spriteVars == <<list, placed>>

Count == Len(list) - 1        \* number of sprites, without the one that ends the list

\* An int stored as int16_t.
Int16(v) == ((v + Half) % (2 * Half)) - Half

-----------------------------------------------------------------------------
(* The extensions.                                                         *)

\* calloc, then hidden sprites and the marker.
NewList(count) ==
    [i \in 1 .. count + 1 |->
        [x |-> 0, y |-> IF i > count THEN SPRITE_LIST_END_MARKER ELSE SPRITE_HIDE]]

\* _sprinit and gfx_sprite_set_mem; an earlier list stays allocated.
SprInit(count) ==
    /\ list' = NewList(count)
    /\ placed' = [i \in 1 .. count |-> [x |-> 0, y |-> SPRITE_HIDE]]

\* A plausible bug: the walk stops on a hidden sprite too.
StopsAtHidden(s) == s.y \in {SPRITE_LIST_END_MARKER, SPRITE_HIDE}

Stops(s) == s.y = SPRITE_LIST_END_MARKER

\* Before SPRINIT the address is 0 and the store goes where there is no memory.
SprSetX(id, v) ==
    /\ list' = [list EXCEPT ![id].x = Int16(v)]
    /\ placed' = [placed EXCEPT ![id].x = v]

SprSetY(id, v) ==
    /\ list' = [list EXCEPT ![id].y = Int16(v)]
    /\ placed' = [placed EXCEPT ![id].y = v]

-----------------------------------------------------------------------------
(* gfx_render_sprites.                                                     *)

\* The sprites the walk visits: up to the first marker, without limit.
Visited == {i \in DOMAIN list : \A e \in 1 .. i : ~Stops(list[e])}

\* A sprite that covers pixel p of the line.
Covers(s, p, ypos) == ypos - s.y \in 0 .. Side - 1 /\ p - s.x \in 0 .. Side - 1

\* The sprite drawn at a pixel, the last of those that cover it; 0 for none.
Shown(p, ypos) == Max({0} \cup {i \in Visited : Covers(list[i], p, ypos)})

-----------------------------------------------------------------------------
SpritesInit == list = <<>> /\ placed = <<>>

SpritesNext ==
    \/ \E count \in Counts : SprInit(count)
    \/ \E id \in 1 .. Count, v \in Place : SprSetX(id, v) \/ SprSetY(id, v)

SpritesSpec == SpritesInit /\ [][SpritesNext]_spriteVars

-----------------------------------------------------------------------------
(* Properties.                                                             *)

SpritesTypeOK ==
    /\ \A i \in DOMAIN list : list[i] \in [x : -Half .. Half - 1, y : -Half .. Half - 1]
    /\ DOMAIN list = IF list = <<>> THEN {} ELSE 1 .. Len(placed) + 1
    /\ \A i \in DOMAIN placed : placed[i] \in [x : Int, y : Int]

\* No position asked for is, in 16 bits, the marker that ends the list.
NoMarker == \A i \in DOMAIN placed : (placed[i].y - SPRITE_LIST_END_MARKER) % (2 * Half) # 0

\* The sprite asked for covers the pixel, positions counted around 16 bits.
Wanted(s, p, ypos) == /\ (ypos - s.y) % (2 * Half) \in 0 .. Side - 1
                      /\ (p - s.x) % (2 * Half) \in 0 .. Side - 1

\* Every pixel shows the last sprite whose square, at the position asked for, covers it:
\* neither sprites whose y is not set yet or that hide, nor positions that do not fit in
\* 16 bits, show a sprite elsewhere or keep the ones behind it off the screen.
SpritesShown ==
    NoMarker => \A p \in 0 .. FBW - 1, ypos \in 0 .. FBH - 1 :
        Shown(p, ypos) = Max({0} \cup {i \in DOMAIN placed : Wanted(placed[i], p, ypos)})

\* What the message at peri_gfx.c:164 says once Limit sprites have been visited: "not
\* rendering more sprites".  The code does not keep it; no run checks it.
LimitHolds == \A p \in 0 .. FBW - 1, ypos \in 0 .. FBH - 1 : Shown(p, ypos) <= Limit
=============================================================================
