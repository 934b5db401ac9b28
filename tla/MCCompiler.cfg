\* Up to three blocks on two pages, some extracted with little confidence.
SPECIFICATION Spec
CONSTANTS
    count = count
    verify = verify
    guide = guide
    policy = policy
    NoValue = NoValue
    NoConfidence = NoConfidence
    NotExtracted = NotExtracted
    Keys <- MCKeys
    Values <- MCValues
    PyClass <- MCPyClass
    Artifacts <- MCArtifacts
    AutoAcceptConfidence = 98
    AutoAcceptAuthority = 90
    Rules <- MCRules
    Captures <- MCCaptures
    NoGroup = NoGroup
    Unquotable <- MCUnquotable
    Lower <- MCLower
    IntegerLiterals <- MCIntegerLiterals
    JsonString <- MCJsonString
    JsonInteger <- MCJsonInteger
    JsonBoolean <- MCJsonBoolean
    Means <- MCMeans
    DocumentInputs <- MCDocumentInputs
CHECK_DEADLOCK FALSE
INVARIANTS
    AllOrNothing
    ClaimsAreRead
    AcceptedIsWellRead
    ConflictMeansDisagreement
