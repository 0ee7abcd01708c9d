SPECIFICATION FairSpec
CONSTANTS
    Irq <- MCIrq
    SIrq <- MCSIrq
    SoftIrq <- MCSIrq
    MieIrq <- MCIrq
    StatusWrites <- MCStatusWrites
    MidelegWrites <- MCMidelegWrites
    Slice = 3
    BlockMax = 2
INVARIANTS
    Latency
    BlockOnePriv
    CountedOnce
    NoLostWakeup
PROPERTIES
    InterruptServed
    MachineStateKept
    InterruptLevel
    ReturnRestores
