SPECIFICATION FairSpec
CONSTANTS
    NumIrqs = 1024
    Irqs <- MCIrqs
    Sgis = {}
    Spurious = 1023
    IdlePrio = 1
    None = None
    Kinds = {"rng", "mouse", "gpu"}
    Irq = 48
    IdxMod = 4
    QueueNum = 2
    Keys = {30}
    Motions <- MCMotions
    MaxPending = 2
    Ids = {1}
    NumPages = 1
    MaxDraw = 1
    MaxPosted <- MCMaxPosted
INVARIANTS
    TypeOK
    WindowCurrent
PROPERTIES
    ImplementsEventFifo
    Answered
