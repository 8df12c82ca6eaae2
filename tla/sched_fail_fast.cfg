SPECIFICATION Spec
CONSTANTS
    a = a
    b = b
    c = c
    d = d
    t1 = t1
    t2 = t2
    t3 = t3
    Steps = {a, b, c, d}
    Edges <- LinkEdges
    From <- LinkFrom
    To <- LinkTo
    NumSources = 1
    Threads = {t1, t2}
    KeepGoing = FALSE
    Faulty = {a, b}
    CounterMod = 20
    NoStep = NoStep
INVARIANTS TypeOK TaskCountAccurate
PROPERTIES Termination RingSpec
