---------------------------- MODULE MCPeripherals ----------------------------
(***************************************************************************)
(* What the guest sees of its peripherals, in one run: the display and its *)
(* driver, the UART, and BASIC's tilemaps and sprites.  They share nothing *)
(* that any of them writes, so a behaviour takes one of them and leaves    *)
(* the others in one initial state each.                                   *)
(***************************************************************************)
EXTENDS Display, Uart, Sprites

VARIABLE part

\* Display: frames of four lines; a slice fits the poll and the longest driver call.
\* UART: nine characters in lines of any length; stdio takes three at a time.
\* Tilemaps: a wide one and a single row, whose widths in pixels do not divide Word.
MCSize == [f \in File |-> IF f = "wide" THEN [w |-> 3, h |-> 2] ELSE [w |-> 2, h |-> 1]]
MCCoord == {-5, 4}

\* Both markers (-16, -15), a square partly off the screen, one on it, and
\* two ints that are cut to a position on the screen (33) and to the marker (48).
MCPlace == {-16, -15, -1, 1, 33, 48}

MCVars == <<part, displayVars, uartVars, backgroundVars, spriteVars>>

MCInit ==
    /\ part \in {"display", "uart", "backgrounds", "sprites"}
    /\ DisplayInit /\ (vblOnly => part = "display")
    /\ UartInit /\ BackgroundsInit /\ SpritesInit

DisplayTurn == part = "display" /\ DisplayNext
               /\ UNCHANGED <<part, uartVars, backgroundVars, spriteVars>>
UartTurn(A) == part = "uart" /\ A
               /\ UNCHANGED <<part, displayVars, backgroundVars, spriteVars>>

MCNext ==
    \/ DisplayTurn
    \/ UartTurn(UartNext)
    \/ part = "backgrounds" /\ BackgroundsNext /\ UNCHANGED <<part, displayVars, uartVars, spriteVars>>
    \/ part = "sprites" /\ SpritesNext /\ UNCHANGED <<part, displayVars, uartVars, backgroundVars>>

\* The fairness of DisplayFairSpec and of UartFairSpec.
MCSpec ==
    /\ MCInit /\ [][MCNext]_MCVars
    /\ WF_MCVars(DisplayTurn)
    /\ WF_MCVars(UartTurn(ReadFlag)) /\ WF_MCVars(UartTurn(ReadData /\ rxav))
=============================================================================
