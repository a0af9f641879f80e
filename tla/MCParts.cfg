SPECIFICATION PartsSpec
CONSTANTS
    Capacity = 2
    Batch = 2
    MaxSessionFrames = 3
    MaxSamples = 4
    Process = {p1, p2}
    Size = 2
    MaxAttempts = 2
    CR = CR  LF = LF  Lead = Lead  Trail = Trail  Done = Done  Fault = Fault  x = x  y = y
    Byte = {CR, LF, Lead, Trail, Done, Fault, x}
    MaxBytes = 5
    MaxChunk = 2
    Rates <- MCRates
    Block = 8
    Window = 8
    MaxFrames = 40
    Heard = {None, x, y}
    Blank = None
    MaxInputs = 4
    MaxSteps = 2
INVARIANTS CapturedInOrder OkIsVerified FinalIsWhole PartsAccounted SseAsWhole ResampledExactly LocalTranscript
PROPERTIES CaptureEnds CallsEnd
CHECK_DEADLOCK FALSE
