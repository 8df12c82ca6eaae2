SPECIFICATION Spec
CONSTANTS
    a = a
    b = b
    c = c
    d = d
    t1 = t1
    t2 = t2
    t3 = t3
    Steps = {a, b}
    Edges <- ChainEdges
    From <- ChainFrom
    To <- ChainTo
    NumSources = 1
    Threads = {t1, t2}
    KeepGoing = TRUE
    Faulty = {a}
    CounterMod = 20
    NoStep = NoStep
PROPERTIES Termination
CHECK_DEADLOCK FALSE
