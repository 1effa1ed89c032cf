SPECIFICATION FairSpec
CONSTANTS
    NumIrqs = 1024
    Irqs <- MCIrqs
    Sgis = {}
    Spurious = 1023
    IdlePrio = 1
    None = None
    Irq = 48
    IdxMod = 4
    QueueNum = 2
    Heads = {0, 1}
    Sectors = {0, 1}
    Blocks = {"zero", "data"}
    Zero = "zero"
    Disk0 <- MCDisk
INVARIANTS
    TypeOK
    CompletionSignalled
PROPERTIES
    ImplementsBlockQueue
    RequestCollected
