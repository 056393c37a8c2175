SPECIFICATION Spec
CONSTANTS
    Batch = {b1, b2}
    Dir = {d1, d2}
    Order <- OneCandidate
    Input = {i1}
    NumOps = 1
    MaxStarts = 2
    MaxRemovals = 0
    NoDir = NoDir
    NoResult = NoResult
    NoSummary = NoSummary
    NoInput = NoInput
SYMMETRY Symmetry
INVARIANT ResumeAvailableMeansResumable
