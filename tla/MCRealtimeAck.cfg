SPECIFICATION RealtimeSpec
CONSTANTS
    a = a  b = b  s = s  x = x
    Ids = {a, b, s}
    SpokenItems <- MCSpoken
    IdLen <- MCIdLen
    Chars = {x}
    WhiteSpace = {}
    Says <- MCSays
    Texts <- MCTexts
    Deltas <- MCDeltas
    Indexes = {}
    MaxTextBytes = 9
    MaxIdBytes = 1
    MaxTotalIdBytes = 9
    MaxRegisteredIds = 3
    MaxOutstanding = 3
    MaxPartials = 3
    MaxPendingFinals = 1
    MaxUnindexedFinals = 1
    MaxRevision = 2
    MaxFrames = 1
    MaxOnWire = 2
    Open = Open
    Unindexed = Unindexed
    Nothing = Nothing
INVARIANTS FinishIsAcknowledged
CHECK_DEADLOCK FALSE
