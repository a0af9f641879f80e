SPECIFICATION HostFairSpec
CONSTANTS
    h = h  i = i
    Hosts = {h, i}
    Loader = Loader
    MaxGeneration = 2
    NoError = NoError
    SpawnError = SpawnError
INVARIANTS AnswerIsForItsRequest LoaderServes AllWoken
PROPERTIES ImplementsHotSwap CallsAndLoadsEnd
CHECK_DEADLOCK FALSE
