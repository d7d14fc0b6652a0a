SPECIFICATION Spec
CONSTANTS
    Cpus <- MCCpus
    Ifs <- MCIfs
    Loopback <- MCLoopback
    Bucket <- MCBucket
    Removable <- MCRemovable
    Capacities <- MCCapacities
    MaxPackets = 3
CHECK_DEADLOCK FALSE
INVARIANTS
    TypeOK
    ReportedWithinSeen
    EveryInterfaceReported
PROPERTIES
    NoLossOnceSettled
    WalkEnds
