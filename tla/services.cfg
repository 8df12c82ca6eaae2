CONSTANTS
    PayloadSize <- Sizes
    MaxFailures = 2
    MaxPaths = 5
    Depth = 2
    Links = {"p", "q"}
    Versions = {1, 2, 3}
    Long <- LongLists
    Rsp <- Names
    TornWrites = FALSE
    MaxTime = 3
    Workers = {"u", "v"}
    Outputs = {0, 2}
    PipeSize = 1
    Graphs <- SmallGraphs
    Times = {1, 2}
    ThreadCounts = {1, 3, 4}
    StatsPerThread = 1
SPECIFICATION Spec
INVARIANTS AllRemoved LinkedFromItsInputs OutputComplete NothingLeft SummaryAnswers
PROPERTIES CacheIsAtomic CallsReturn
CHECK_DEADLOCK FALSE
