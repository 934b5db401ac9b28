\* Any decisions in any order, checked against the code's own loop.
SPECIFICATION Spec
CONSTANTS
    method = method
    verify = verify
    get = get
    post = post
    put = put
    guide = guide
    policy = policy
    NoValue = NoValue
    Keys <- MCKeys
    Values <- MCValues
    PyClass <- MCPyClass
    Artifacts <- MCArtifacts
    AutoAcceptConfidence = 98
    AutoAcceptAuthority = 90
    AssertionInputs <- MCAssertionInputs
    DecisionInputs <- MCDecisionInputs
    MaxReviews = 3
CHECK_DEADLOCK FALSE
INVARIANTS
    LatestReviewIsLoop
    StaleReviewsInert
    ArrivalOrderInert
    ConflictHasOneSurvivor
    SelectionDetermined
