SPECIFICATION Spec
CONSTANTS
    Fan = 2
    TlbSize = 1
    Page <- MCPage
    RamPage <- MCRamPage
    Pte <- MCPte
    SatpPpn <- MCSatpPpn
    Mem0 <- MCMem0
    Edits <- MCEdits
    MstatusWrites <- MCMstatusWrites
INVARIANTS
    CodeCurrent
    DataCurrent
    UseRecorded
