SPECIFICATION CaptureSpec
CONSTANTS
    Capacity = 2
    Batch = 2
    MaxSessionFrames = 4
    MaxSamples = 5
INVARIANTS StopDrainsTheRing
CHECK_DEADLOCK FALSE
