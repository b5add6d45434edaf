\* A processor in the monitor keeps the kernel lock, so the system may stop.
CONSTANTS
    CPUs = {c0, c1}
    BSP = c0
    NENV = 3
    MaxGen = 2
    NInitial = 2
    None = None
SPECIFICATION LiveSpec
INVARIANTS
    OneCpuPerEnv
    StatusTellsWhoRuns
    RunsWhatItLoaded
    FreeListExact
    RecvBlocks
    MonitorOnlyWhenIdle
PROPERTIES
    ReadyRuns
CHECK_DEADLOCK FALSE
