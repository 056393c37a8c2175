SPECIFICATION Spec
CONSTANTS
    Run = {r1, r2}
    Dir = {d1, d2}
    Request = {q1}
    Evidence = {e1, e2}
    NumOps = 2
    Exclusive = TRUE
    NoDir = NoDir
    NoReceipt = NoReceipt
    NoManifest = NoManifest
INVARIANTS
    ResumedRunKeepsItsSource
