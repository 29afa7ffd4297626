SPECIFICATION FairSpec
CONSTANTS
    x = x
    y = y
    z = z
    Item = {x, y, z}
    QueueItem = {x, y}
    Plan <- MCPlan
    MaxPolls = 2
    BatchSize = 1
    ChunkSize = 1
    MaxPushes = 2
    MaxFaults = 2
    MaxSpawned = 1
CHECK_DEADLOCK FALSE
INVARIANTS ListsLandInOrder QueuesHoldAll DuplicatesAreLate
PROPERTIES WorkIsAnswered
