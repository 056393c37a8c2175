SPECIFICATION Spec
CONSTANTS
    Process = {p1, p2}
    MaxStarts = 3
    MaxEdits = 1
    Absent = Absent
    Torn = Torn
INVARIANTS ConsumedOnce ResultIsBound ReturnedIsStored
PROPERTY ImplementsStore
