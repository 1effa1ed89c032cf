SPECIFICATION GicSpec
CONSTANTS
    NumIrqs = 3
    Irqs <- MCIrqs
    Sgis <- MCSgis
    Spurious = 2
    IdlePrio = 3
    None = None
INVARIANTS
    GicTypeOK
    CacheCoherent
    StrictNesting
PROPERTIES
    AckTakesHighest
    AckDropsLine
