SPECIFICATION Spec
CONSTANTS
    Run = {r1, r2, r3}
    Dir = {d1, d2, d3}
    Request = {q1}
    Evidence = {e1, e2, e3}
    NumOps = 2
    Exclusive = TRUE
    NoDir = NoDir
    NoReceipt = NoReceipt
    NoManifest = NoManifest
SYMMETRY Symmetry
INVARIANTS
    TypeOK
    FailureManifestIsResumable
    CheckpointsAreProviderAnswers
    SecondRecoveryLosesNothing
PROPERTIES
    ManifestSealsDirectory
    OnlyMissingOperationsAreSent
    ImplementsRunDirectory
