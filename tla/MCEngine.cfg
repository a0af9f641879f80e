SPECIFICATION FairEngineSpec
CONSTANTS
    Calls = {c1, c2, c3}
    Transcriptions = {c1}
    NoCall = NoCall
    MaxActiveSessions = 2
    Chunks = 2
    QueueChunks = 1
INVARIANTS PermitsAccounted OneNetwork TranscribesInFull
PROPERTIES TranscribeReturns
CHECK_DEADLOCK FALSE
