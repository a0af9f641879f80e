SPECIFICATION HostFairSpec
CONSTANTS
    p = p  f = f  g = g
    Producers = {p}
    Finishers = {f}
    Worker = Worker
    Canceller = Canceller
    ChunkSizes = {1}
    Capacity = 1
    MaxQueueChunks = 2
    MaxSessionFrames = 2
    MaxFinals = 1
    Deadlines = {1}
    MaxTime = 1
    NoDeadline = NoDeadline
PROPERTIES CallsAndWorkerEnd
CHECK_DEADLOCK FALSE
