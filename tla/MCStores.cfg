SPECIFICATION MCSpec
CONSTANTS
    t1 = t1
    t2 = t2
    t3 = t3
    p1 = p1
    p2 = p2
    p3 = p3
    Thread <- MCThread
    Adds = 2
    SwitchWith = "lr"
    Page <- MCPage
    PageSize = 8
    VPage <- MCVPage
    RamFrame = {0, 1}
    DevFrame = {2}
    TlbSize = 2
    Mapping <- MCMapping
    Store <- MCStore
SYMMETRY Alike
INVARIANTS NoLostUpdate LoadIsBytes FaultJustified
PROPERTIES ScSeesOwnLoad LogSpec StoreRestarts
