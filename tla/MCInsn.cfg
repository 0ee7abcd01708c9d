SPECIFICATION MCSpec
CONSTANTS
    SEXP = 5
    SMANT = 2
    DEXP = 6
    DMANT = 6
    XSIZE = 8
    XLEN = 8
    FRegs <- MCFRegs
    XRegs <- MCXRegs
    Starts <- MCStarts
    LoadValues <- MCLoadValues
INVARIANTS ResultRounded OrderKept ContextSaved WordDecoded AluExact
\* A program of one to three instructions ends.
CHECK_DEADLOCK FALSE
