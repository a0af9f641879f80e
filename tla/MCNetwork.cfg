SPECIFICATION NetworkSpec
CONSTANTS
    i0 = i0  i1 = i1  i2 = i2  i3 = i3  i4 = i4  i5 = i5  x = x  sp = sp
    Ids = {i0, i1, i2, i3, i4, i5}
    Says <- MCSays
    Identified = {3, 4}
    Name <- MCName
    IdLen <- MCIdLen
    Chars = {x, sp}
    WhiteSpace = {sp}
    Texts = {}
    Deltas = {}
    Indexes = {}
    MaxTextBytes = 9
    MaxIdBytes = 1
    MaxTotalIdBytes = 9
    MaxRegisteredIds = 4
    MaxOutstanding = 1
    MaxPartials = 1
    MaxPendingFinals = 1
    MaxUnindexedFinals = 1
    MaxRevision = 2
    MaxOnWire = 2
    MaxUpload = 1
    MaxResponse = 2
    MaxPushes = 1
    MaxCuts = 3
    Open = Open
    Unindexed = Unindexed
INVARIANTS TranscriptAsSaid TranscriptAsServed NoLostCancel
PROPERTIES FinishTaskEnds RequestsEnd
CHECK_DEADLOCK FALSE
