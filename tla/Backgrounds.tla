---------------------------- MODULE Backgrounds ----------------------------
(***************************************************************************)
(* The tile backgrounds, from the BASIC program's calls to the pixels: the *)
(* extensions TILEMAPLOAD, TILEMAPFREE, TILEMAPAT, TILEMAPSET, BGNDINIT    *)
(* and BGNDSCROLL (sdk/mybasic/ext_gfx.c), the driver behind them          *)
(* (sdk/driver/gfxdriver.c), the registers and the line renderer of the    *)
(* peripheral (emu/peri_gfx.c).  The display is looked at between driver   *)
(* calls; module Display has what is drawn within one.                     *)
(*                                                                         *)
(* A BASIC error ends the program, a failed assertion the guest.           *)
(***************************************************************************)
EXTENDS Integers

CONSTANTS
    File,     \* the tilemaps the program may load, each once
    Size,     \* their width and height in tiles: [File -> [w : Nat, h : Nat]]
    Layers,   \* GFX_BGND_COUNT
    Side,     \* pixels along the side of a tile (8)
    FBW, FBH, \* pixels of the screen (320, 240)
    Word,     \* values of a register (2^32)
    Coord,    \* the coordinates the program passes
    Blank     \* the tile the program sets

\* A map's tiles fit the guest's memory, so its pixels and a screen of them are far
\* from the range of a register.
ASSUME BackgroundsAssumption ==
    /\ \A f \in File : Size[f].w \in Nat \ {0} /\ Size[f].h \in Nat \ {0}
    /\ \A n \in {Layers, Side, FBW, FBH, Word} : n \in Nat \ {0}
    /\ FBW < Word /\ FBH < Word
    /\ \A f \in File : /\ Size[f].w * Side + FBW < Word
                        /\ Size[f].h * Side + FBH < Word
    /\ Coord \subseteq Int /\ Blank \in Int

NoMap  == "none"
Layer  == 0 .. Layers - 1
Cells(f) == {[x |-> x, y |-> y] : x \in 0 .. Size[f].w - 1, y \in 0 .. Size[f].h - 1}

VARIABLES
    program,  \* the BASIC program: running, ended by an error, or aborted
    loaded,   \* tilemaps allocated
    tiles,    \* map->tiles of each, by index
    bgnd,     \* g->bgnd
    cells,    \* history: the tile the program last set at each cell
    asked     \* history: the scroll position last asked for, of each layer

backgroundVars == <<program, loaded, tiles, bgnd, cells, asked>>

-----------------------------------------------------------------------------
(* Arithmetic of the guest and of the host.                                *)

\* % on ints: the remainder has the sign of the dividend; by zero, which C leaves
\* undefined, the RISC-V instruction yields the dividend.
Rem(a, b) == IF b = 0 THEN a ELSE IF a >= 0 THEN a % b ELSE -((-a) % b)

\* The remainder brought into 0 .. n-1, as the extensions do it.
Wraparound(a, n) == IF Rem(a, n) < 0 THEN Rem(a, n) + n ELSE Rem(a, n)

\* A register holds an int as unsigned.
Unsigned(v) == v % Word

\* "while (pos>=n) pos-=n": int against unsigned compares as unsigned.
Reduced(pos, n) ==
    LET sub[p \in 0 .. Word - 1] == IF p >= n THEN sub[p - n] ELSE p IN sub[pos]

-----------------------------------------------------------------------------
(* gfx_render_bgnd_scanline.                                               *)

NextPixel(x, n) == IF x + 1 >= n THEN x + 1 - n ELSE x + 1

Line(b, ypos) == Reduced((ypos + b.scrolly) % Word, b.height * Side)
Column(b, i)  ==
    LET xpos[k \in 0 .. i] == IF k = 0 THEN Reduced(b.scrollx, b.width * Side)
                              ELSE NextPixel(xpos[k - 1], b.width * Side)
    IN xpos[i]

\* The tile read for pixel i of line ypos, as an index of the map, and the pixel of it.
TileIdx(b, i, ypos) == (Line(b, ypos) \div Side) * b.width + (Column(b, i) \div Side)
InTile(b, i, ypos)  == [x |-> Column(b, i) % Side, y |-> Line(b, ypos) % Side]

Visible(b) == b.map # NoMap /\ b.width # 0 /\ b.height # 0

-----------------------------------------------------------------------------
(* The extensions.                                                         *)

End(how) == program' = how /\ UNCHANGED <<loaded, tiles, bgnd, cells, asked>>

TilemapLoad(f) ==
    /\ program = "running"
    /\ f \notin loaded
    /\ loaded' = loaded \cup {f}
    /\ UNCHANGED <<program, tiles, bgnd, cells, asked>>

\* TILEMAPFREE is registered as _tilemapload, which expects a string: an error.
TilemapFree(f) == program = "running" /\ f \in loaded /\ End("error")

\* tilemapat and tilemapset: the same wraparound and index.
TilemapIndex(f, x, y) ==
    Size[f].w * Wraparound(y, Size[f].h) + Wraparound(x, Size[f].w)

TilemapSet(f, x, y, t) ==
    /\ program = "running"
    /\ f \in loaded
    /\ tiles' = [tiles EXCEPT ![f][TilemapIndex(f, x, y)] = t]
    /\ cells' = [cells EXCEPT ![f][[x |-> x % Size[f].w, y |-> y % Size[f].h]] = t]
    /\ UNCHANGED <<program, loaded, bgnd, asked>>

\* The check on the layer's number, and the assertion behind it.
Rejected(id) == id < 0 \/ id > Layers
Asserted(id) == id < Layers

\* gfx_bgnd_set_gfx and gfx_bgnd_set_map; the position stays what it was.
BgndInit(id, f) ==
    /\ program = "running"
    /\ f \in loaded
    /\ IF Rejected(id) THEN End("error")
       ELSE IF ~Asserted(id) THEN End("aborted")
       ELSE /\ bgnd' = [bgnd EXCEPT ![id] = [@ EXCEPT
                            !.map = f, !.width = Size[f].w, !.height = Size[f].h]]
            /\ asked' = [asked EXCEPT ![id] =
                  [@ EXCEPT !.x = bgnd[id].scrollx, !.y = bgnd[id].scrolly]]
            /\ UNCHANGED <<program, loaded, tiles, cells>>

\* A plausible bug: a negative remainder goes to the register.
ScrolledNegative(b, x, y) ==
    [b EXCEPT !.scrollx = Unsigned(Rem(x, b.width * Side)),
              !.scrolly = Unsigned(Rem(y, b.height * Side))]

Scrolled(b, x, y) ==
    [b EXCEPT !.scrollx = Unsigned(Wraparound(x, b.width * Side)),
              !.scrolly = Unsigned(Wraparound(y, b.height * Side))]

\* A position asked for before there is a map to wrap it around is not remembered.
BgndScroll(id, x, y) ==
    /\ program = "running"
    /\ IF Rejected(id) THEN End("error")
       ELSE IF ~Asserted(id) THEN End("aborted")
       ELSE /\ bgnd' = [bgnd EXCEPT ![id] = Scrolled(@, x, y)]
            /\ asked' = [asked EXCEPT ![id] =
                  [known |-> Visible(bgnd[id]), x |-> x, y |-> y]]
            /\ UNCHANGED <<program, loaded, tiles, cells>>

-----------------------------------------------------------------------------
\* peri_gfx_init clears the registers; the tiles of a file are numbered.
BackgroundsInit ==
    /\ program = "running"
    /\ loaded = {}
    /\ tiles = [f \in File |-> [i \in 0 .. Size[f].w * Size[f].h - 1 |-> i]]
    /\ bgnd = [id \in Layer |->
                 [map |-> NoMap, width |-> 0, height |-> 0, scrollx |-> 0, scrolly |-> 0]]
    /\ cells = [f \in File |-> [c \in Cells(f) |-> c.y * Size[f].w + c.x]]
    /\ asked = [id \in Layer |-> [known |-> TRUE, x |-> 0, y |-> 0]]

BackgroundsNext ==
    \/ \E f \in File : TilemapLoad(f) \/ TilemapFree(f)
    \/ \E f \in File, x \in Coord, y \in Coord : TilemapSet(f, x, y, Blank)
    \/ \E id \in -1 .. Layers + 1, f \in File : BgndInit(id, f)
    \/ \E id \in -1 .. Layers + 1, x \in Coord, y \in Coord : BgndScroll(id, x, y)

BackgroundsSpec == BackgroundsInit /\ [][BackgroundsNext]_backgroundVars

-----------------------------------------------------------------------------
(* Properties.                                                             *)

BackgroundsTypeOK ==
    /\ program \in {"running", "error", "aborted"}
    /\ loaded \subseteq File
    /\ \A f \in File : tiles[f] \in [0 .. Size[f].w * Size[f].h - 1 -> Int]
    /\ bgnd \in [Layer -> [map : loaded \cup {NoMap}, width : 0 .. Word - 1,
                           height : 0 .. Word - 1, scrollx : 0 .. Word - 1,
                           scrolly : 0 .. Word - 1]]
    /\ \A f \in File : cells[f] \in [Cells(f) -> Int]

\* The renderer reads no tile outside the map it was given, whatever the scroll
\* registers hold: positions kept from a larger map, or set before there was one.  And
\* what it shows is the map repeated without end in both directions, moved by the
\* position last asked for, with the tiles last set: the remainders of the guest, the
\* unsigned registers and the two kinds of wrap around of the renderer agree.
ScreenShowsTiles ==
    \A id \in Layer : Visible(bgnd[id]) =>
        \A i \in 0 .. FBW - 1, ypos \in 0 .. FBH - 1 :
            LET b == bgnd[id]
                x == i + asked[id].x
                y == ypos + asked[id].y
            IN /\ TileIdx(b, i, ypos) \in DOMAIN tiles[b.map]
               /\ asked[id].known =>
                    /\ tiles[b.map][TileIdx(b, i, ypos)]
                         = cells[b.map][[x |-> (x \div Side) % b.width,
                                         y |-> (y \div Side) % b.height]]
                    /\ InTile(b, i, ypos) = [x |-> x % Side, y |-> y % Side]

\* What the assertions of the driver (gfxdriver.c:24) state: no call gets through the
\* extensions' own checks with a layer that does not exist.  The code does not keep it:
\* one number does; no run checks it.
LayersExist == program # "aborted"

\* What the comment at ext_gfx.c:25 says of tilemapfree(tilemap): it releases the map.
\* The code does not keep it; no run checks it.
FreeReleases == [][\A f \in File : TilemapFree(f) => f \notin loaded']_backgroundVars
=============================================================================
