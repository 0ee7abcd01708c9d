SPECIFICATION MCSpec
CONSTANTS
    Lines = 4
    LineSteps = 4
    Updates = 3
    Typed = 9
    StdioSize = 3
    File = {"wide", "row"}
    Size <- MCSize
    Layers = 2
    Side = 3
    FBW = 10
    FBH = 4
    Word = 128
    Coord <- MCCoord
    Blank = 100
    Counts = {0, 1, 3}
    Place <- MCPlace
    Half = 16
    Limit = 2
INVARIANTS NothingLost ScreenShowsTiles SpritesShown
PROPERTIES HalfSetUpOnlyInCall NoTearing OneReturnPerFrame WaitReturns EndDelivers
\* The loop of mach_setup ends when the user quits.
CHECK_DEADLOCK FALSE
