SPECIFICATION Spec
CONSTANTS
    NumOps = 2
    Provider = {"xiyou", "sorftime"}
    Registries <- OneOrTwo
    Bounded = {"xiyou"}
    MaxAttempts <- TwoAttempts
INVARIANTS TypeOK AttemptsAreBounded ExhaustionIsExact SummaryAddsUp CheckpointHoldsAcceptedResponse
PROPERTIES OnlyTransientIsRetried UsableAnswerEndsTheSearch
