SPECIFICATION Spec
CONSTANTS
    src = src
    hdr = hdr
    obj = obj
    prog = prog
    Steps = {obj, prog}
    Sources = {src}
    Headers = {hdr}
    Manifests = {m}
    Inputs <- ObjectInputs
    Includes <- ObjectIncludes
    Overrides = {}
    Faulty = {prog}
    Leftovers = {"old", "nothing"}
    EditsDuringBuild = {m}
    HeaderEdits = "known"
    Coarse = TRUE
    MaxEdits = 2
    MaxRuns = 3
    MaxFaults = 1
    None = None
INVARIANTS SuccessMeansFresh HashTruthful EditsAreNoticed
PROPERTIES NothingToDo
