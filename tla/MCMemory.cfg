CONSTANTS
    NWorkers = 2
    BucketSizes <- MCBucketSizes
    BucketCapacity <- MCBucketCapacity
    ChunkSize = 8
    FiberPoolCap = 2
    GlobalPoolRatio = 1
    Size <- MCSize
    MaxHeld = 4
    MaxObjects = 2
    MaxCalls = 5
SPECIFICATION Spec
INVARIANTS NoOverlap Accounts WithinLimits InUse NothingLeft
