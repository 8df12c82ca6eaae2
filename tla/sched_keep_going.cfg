SPECIFICATION Spec
CONSTANTS
    a = a
    b = b
    c = c
    d = d
    t1 = t1
    t2 = t2
    t3 = t3
    Steps = {a, b, c, d}
    Edges <- DiamondEdges
    From <- DiamondFrom
    To <- DiamondTo
    NumSources = 1
    Threads = {t1, t2, t3}
    KeepGoing = TRUE
    Faulty = {b, c}
    CounterMod = 20
    NoStep = NoStep
INVARIANTS QueueHasWorker NoEarlyExit DependencyOrder ResultTruthful ReadyNeverFull SomeoneAwake
PROPERTIES ContractSpec
CHECK_DEADLOCK FALSE
