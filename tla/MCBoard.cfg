SPECIFICATION FairSpec
CONSTANTS
    NumIrqs = 1024
    Irqs <- MCIrqs
    Sgis = {}
    Spurious = 1023
    IdlePrio = 1
    None = None
    RamSize = 16777216
    DtbLen = 4096
    Images <- MCImages
    Initrds <- MCInitrds
    MaxDevices = 8
    Followed <- MCFollowed
    Lines <- MCLines
    Bytes = {1, 2}
    MaxTyped = 3
    MaxWritten = 3
    RxBatch = 2
    Rounds = 2
INVARIANT BoardInv
PROPERTY ImplementsConsole
CHECK_DEADLOCK FALSE
