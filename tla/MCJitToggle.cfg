SPECIFICATION FairSpec
CONSTANTS
    PageWords = 4
    NumVPages = 3
    NumPPages = 2
    Offsets <- MCOffsets
    Vector = 8
    Maps <- MCMappings
    Patches <- MCPatches
    Programs <- MCPrograms
    None = None
    JIT_HOTNESS = 2
    MAX_REGION_BLOCKS = 3
    MAX_JIT_BLOCK = 3
    MAX_REGION_ITERS = 2
    Count = 2
    Toggle = TRUE
INVARIANT StaleNeverCalled
