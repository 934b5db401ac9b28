\* Up to sixty cases and one more, when the variations start over.
SPECIFICATION BenchmarkSpec
CONSTANTS
    api = api
    guide = guide
    policy = policy
    NoValue = NoValue
    NoConfidence = NoConfidence
    NotExtracted = NotExtracted
    Keys <- MCKeys
    Values <- MCValues
    PyClass <- MCPyClass
    Artifacts <- MCArtifacts
    AutoAcceptConfidence = 98
    AutoAcceptAuthority = 90
    Rules <- MCRules
    Captures <- MCCaptures
    NoGroup = NoGroup
    Unquotable = {}
    Lower <- MCLower
    IntegerLiterals <- MCIntegerLiterals
    JsonString <- MCJsonString
    JsonInteger <- MCJsonInteger
    JsonBoolean <- MCJsonBoolean
    FixtureInputs <- MCFixtureInputs
    GoldenAssertions <- MCGoldenAssertions
    GoldenFacts <- MCGoldenFacts
    CreateText <- MCCreateText
    ApprovalText <- MCApprovalText
    RetentionText <- MCRetentionText
    CaseCounts = {0, 1, 30, 60, 61}
CHECK_DEADLOCK FALSE
INVARIANTS
    EveryConflictDetected
    NoUnsafePromotion
    ReviewLeadsToTruth
    FailsOnlyWithoutEvidence
