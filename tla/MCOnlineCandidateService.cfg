CONSTANTS
    cloud = cloud
    ai = ai
    Sources <- MCSources
    Requests <- MCRequests
    NoRequest = NoRequest
    Debounce = 2
    MaxToken = 3
SPECIFICATION Spec
INVARIANTS TypeOK JoinedMeansQuiet
PROPERTIES FetchesOnlyQuietLatest CallsBackOnlyForLatest RequestIsFetched StopEndsWorkers
