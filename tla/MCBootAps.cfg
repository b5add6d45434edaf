\* Liveness is checked too, so no symmetry.
CONSTANTS
    c1 = c1  c2 = c2  c3 = c3
    CPUs = {c1, c2, c3}
    BSP = c1
    NEnv = 1
    NoCPU = NoCPU
SPECIFICATION BootSpec
INVARIANTS
    MutualExclusion
    NoFalseAlarm
    StartsAlone
    NoneTooEarly
PROPERTIES
    ImplementsLock
    KeepsLockRules
    BootEnds
CHECK_DEADLOCK TRUE
