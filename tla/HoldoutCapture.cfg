SPECIFICATION Spec
CONSTANTS
    CohortSize = 3
    Rules = {f1, f2}
    MaxStarts = 4
    NoFile = NoFile
    NoCohort = NoCohort
INVARIANTS OneAnswerLostPerFailure CompleteIsReplayable
PROPERTY RulesStayFrozen
