SPECIFICATION PartsSpec
CONSTANTS
    a = a
    b = b
    p = p
    q = q
    Steps = {a, b, p, q}
    Producers <- Generated
    Manifests = {a, manifest}
    Times = {1, 2, 3}
    Items = {x1, x2, x3, x4}
    Threads = {t1, t2, t3}
    Requested = 2
    None = None
INVARIANTS SlotsUnshared AnswersCurrent QuietRing NoDataRace WithinCapacity
PROPERTIES ClaimQueueSpec
SYMMETRY Symmetry
