CONSTANTS
    cloud = cloud
    Sources <- MCSources
    Requests <- MCRequests
    NoRequest = NoRequest
    Debounce = 1
    MaxToken = 4
    Queries = {q1, q2}
    NoComposition = NoComposition
    MaxGeneration = 5
SPECIFICATION EngineSpec
INVARIANTS EngineTypeOK ShownMatchComposition
PROPERTIES FreedEngineIsUntouched
CHECK_DEADLOCK FALSE
