SPECIFICATION Spec
CONSTANTS
    p = p  f = f  g = g
    Producers = {p}
    Finishers = {f, g}
    Worker = Worker
    Canceller = Canceller
    ChunkSizes = {0, 2}
    Capacity = 3
    MaxQueueChunks = 2
    MaxSessionFrames = 4
    MaxFinals = 1
    Deadlines = {1}
    MaxTime = 1
    NoDeadline = NoDeadline
SYMMETRY TwoFinishers
INVARIANTS AllWoken FramesAccounted SameResult
PROPERTIES KeepsPromise
CHECK_DEADLOCK FALSE
