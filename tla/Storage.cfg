CONSTANTS
    Count = 6
    Slots = {1, 2}
    Ports = {0, 1}
    Plugged <- MCPlugged
    MaxReports = 1
    SectorSize = 2
    LastLba = 2
    Byte <- MCByte
    MaxFaults = 1
    TagSpan = 2
    QueueSize = 2
    IndexSpan = 4
    WordSpan = 32
    PartitionTable <- MCTable
    BootSignature = TRUE
    MaxPartitions = 9
    DwordSpan = 8
    Offsets = {0, 3, 8}
    Lengths = {0, 3}
    MaxOps = 2
SPECIFICATION Spec
INVARIANTS NoStaleCompletion HaltsOnlyForCause CacheCoherent
PROPERTIES ImplementsByteStore Settles
CHECK_DEADLOCK FALSE
