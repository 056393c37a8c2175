SPECIFICATION Spec
CONSTANTS
    b1 = b1
    b2 = b2
    b3 = b3
    b4 = b4
    b5 = b5
    Contents <- MCContents
    Selections <- MCSelections
    KeywordField = {"rank"}
    Absent = "absent"
    None = None
INVARIANTS ConflictStaysOpen MissingIsNotNegative LineageIsComplete AdviceIsReproducible
