SPECIFICATION Spec
CONSTANTS
    src = src
    hdr = hdr
    obj = obj
    prog = prog
    Steps = {obj, prog}
    Sources = {src}
    Headers = {hdr}
    Manifests = {m, n}
    Inputs <- ObjectInputs
    Includes <- ObjectIncludes
    Overrides = {}
    Faulty = {}
    Leftovers = {"old", "nothing"}
    EditsDuringBuild = {}
    HeaderEdits = "known"
    Coarse = FALSE
    MaxEdits = 1
    MaxRuns = 3
    MaxFaults = 0
    None = None
INVARIANTS UsesNamedManifest
