SPECIFICATION Spec
CONSTANTS
    Batch = {b1}
    Dir = {d1, d2, d3}
    Order <- OneCandidate
    Input = {i1}
    NumOps = 1
    MaxStarts = 4
    MaxRemovals = 1
    NoDir = NoDir
    NoResult = NoResult
    NoSummary = NoSummary
    NoInput = NoInput
SYMMETRY Symmetry
INVARIANTS SuccessIsCarriedOver LineageNeverCycles
