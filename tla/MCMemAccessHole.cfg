SPECIFICATION AccSpec
CONSTANTS
    PageSize = 8
    VPage <- MCVPage
    RamFrame = {0, 1}
    DevFrame = {2}
    TlbSize = 2
    Mapping <- MCMapping
    Store <- MCStore
INVARIANT HoleErrors
