SPECIFICATION Spec
CONSTANTS
    Workers = {w1, w2, w3}
    Main = main
    Messages = 2
    Capacity = 2
INVARIANTS NothingLost ReaderUndisturbed DequeueNotInVain
PROPERTIES PrinterEnds
