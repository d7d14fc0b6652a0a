SPECIFICATION Spec
CONSTANTS
    CpuCounts <- OneCpu
    MaxCpus = 1
    UintLimit = 8
    PerJiffy = 1
    MaxTime = 2
    MaxLoads = 2
    StatCount = 1
    WordLimit = 16
    Rounded <- NoRounding
CHECK_DEADLOCK FALSE
INVARIANT
    FrequencyIsReal
