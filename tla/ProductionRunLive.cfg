SPECIFICATION FairSpec
CONSTANTS
    Run = {r1, r2}
    Dir = {d1, d2}
    Request = {q1, q2}
    Evidence = {e1, e2}
    NumOps = 2
    Exclusive = TRUE
    NoDir = NoDir
    NoReceipt = NoReceipt
    NoManifest = NoManifest
PROPERTIES
    RunsEnd
INVARIANTS
    DeliveredFromCompleteCohort
