SPECIFICATION Spec
CONSTANTS
    src = src
    hdr = hdr
    obj = obj
    prog = prog
    Steps = {obj, prog}
    Sources = {src}
    Headers = {hdr}
    Manifests = {m}
    Inputs <- ObjectInputs
    Includes <- ObjectIncludes
    Overrides = {o1, o2}
    Faulty = {prog}
    Leftovers = {"old", "nothing"}
    EditsDuringBuild = {}
    HeaderEdits = "known"
    Coarse = FALSE
    MaxEdits = 1
    MaxRuns = 3
    MaxFaults = 0
    None = None
INVARIANTS HashTruthful
