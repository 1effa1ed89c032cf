SPECIFICATION FairSpec
CONSTANTS
    VaBits = 2
    LevelBits = 1
    TlbSize = 2
    NumFrames = 4
    Ram = {0, 1, 2}
    Tables <- MCTables
    Roots = {"a", "b"}
    KernelRoot = "k"
    Descs <- MCDescs
    Tables0 <- MCTables0
    AsPage <- MCAsPage
    Insns <- MCInsns
    None = None
INVARIANTS
    TypeOK
    TlbCoherent
    FastPathAgrees
PROPERTIES
    AccessesFollowTables
    InsnCompletes
