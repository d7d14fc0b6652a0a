SPECIFICATION Spec
CONSTANTS
    CpuCounts <- MCCpuCounts
    MaxCpus = 2
    UintLimit = 2
    PerJiffy = 1
    MaxTime = 2
    MaxLoads = 2
    StatCount = 1
    WordLimit = 16
    Rounded <- NoRounding
CHECK_DEADLOCK FALSE
INVARIANTS
    TypeOK
    PageLive
    NoLeak
    UsageInRange
    ReportedOnce
    PassComplete
PROPERTY
    Refreshes
