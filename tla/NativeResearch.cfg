SPECIFICATION FairSpec
CONSTANTS
    Hook = {h1, h2}
    Source = {s1}
    Approval = {a1}
    Offline = TRUE
    Alone = TRUE
    MaxStarts = 3
    None = None
    Torn = Torn
INVARIANTS TypeOK CostIsReported AskedOncePerApproval
PROPERTIES PaidSlotStaysClosed CompletedReviewIsFinal InvocationsEnd
