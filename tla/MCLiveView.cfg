SPECIFICATION FairLiveSpec
CONSTANTS
    a = a  b = b  x = x
    Ids = {a, b}
    IdLen <- MCIdLen
    Chars = {x}
    WhiteSpace = {}
    Texts <- MCTexts
    Deltas <- MCDeltas
    Indexes = {0, 1}
    MaxTextBytes = 4
    MaxIdBytes = 1
    MaxTotalIdBytes = 2
    MaxRegisteredIds = 2
    MaxOutstanding = 2
    MaxPartials = 2
    MaxPendingFinals = 2
    MaxUnindexedFinals = 1
    MaxRevision = 2
    EventCapacity = 2
    Open = Open
    Unindexed = Unindexed
INVARIANTS ViewConverges NoLostWakeup
PROPERTIES HostNeverGoesBack SubscriberDisconnects
CHECK_DEADLOCK FALSE
