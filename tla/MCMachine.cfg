SPECIFICATION LoopFairSpec
CONSTANTS
    NumIrqs = 1024
    Irqs <- MCIrqs
    Sgis = {}
    Spurious = 1023
    IdlePrio = 1
    None = None
    Virt = 27
    Phys = 30
    DmaIrq = 48
    GuestPrio <- MCPrio
    Interval = 2
    IdleCap = 2
    Pcs = {"until", "code"}
    Until = "until"
    Vector = "code"
    Count = 2
    MaxTime = 1
    Cvals = {0, 1, 3}
INVARIANTS
    LoopTypeOK
    NoOversleep
    StopReasonTrue
PROPERTIES
    TimerDelivered
    DoorbellServed
