SPECIFICATION LedgerSpec
CONSTANTS
    a = a  b = b  c = c  d = d  x = x  sp = sp
    Ids = {a, b, c, d}
    IdLen <- MCIdLen
    Chars = {x, sp}
    WhiteSpace = {sp}
    Texts <- MCTexts
    Deltas <- MCDeltas
    Indexes = {0, 1, 2, 3}
    MaxTextBytes = 2
    MaxIdBytes = 2
    MaxTotalIdBytes = 3
    MaxRegisteredIds = 3
    MaxOutstanding = 2
    MaxPartials = 1
    MaxPendingFinals = 2
    MaxUnindexedFinals = 2
    MaxRevision = 2
    Open = Open
    Unindexed = Unindexed
INVARIANTS BudgetsAccounted FinalsInPlace
PROPERTIES ImplementsFinalLog
CHECK_DEADLOCK FALSE
