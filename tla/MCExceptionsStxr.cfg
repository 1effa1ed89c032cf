SPECIFICATION Spec
CONSTANTS
    Tasks = {t1, t2}
    Kernel = kernel
    Addrs = {a1, a2}
    None = None
    MaxNest = 2
    MaxCount = 2
INVARIANTS
    NoLostUpdate
