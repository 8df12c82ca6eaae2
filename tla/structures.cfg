SPECIFICATION Spec
CONSTANTS
    Paths <- GraphFiles
    Manifests <- SmallManifests
    Keys = {k1, k2, k3}
    Values <- SmallValues
    Hashes <- HashFunctions
    Requests <- SmallRequests
    Nothing = Nothing
    MaxCalls = 4
    Views <- SmallViews
    Multipliers <- SmallMultipliers
    Capacities <- SmallCapacities
    MaxNodes = 4
    MaxInputs = 2
    Targets <- SmallTargets
    Names <- NameLists
    Gaps <- SmallGaps
    Others <- AnyTexts
INVARIANTS
    RefusedIffCyclic DegreesAreMentions CommandsInOrder
    LooksLikeMap ReturnsItsEntry ReferencesRight
    NamesSurvive EveryRoundAdvances
CHECK_DEADLOCK FALSE
