\* Overlapping reviews: a decision leaves the run.
SPECIFICATION Spec
CONSTANTS
    method = method
    verify = verify
    get = get
    post = post
    yes = yes
    one = one
    guide = guide
    policy = policy
    NoRun = NoRun
    NoValue = NoValue
    Idle = Idle
    Keys <- MCKeys
    Values <- MCValues
    PyClass <- MCPyClass
    Artifacts <- MCArtifacts
    AutoAcceptConfidence = 98
    AutoAcceptAuthority = 90
    RequiredFactKeys <- MCKeys
    ContractValues <- MCContractValues
    Intakes <- MCIntakes
    Corrections <- MCCorrections
    w1 = w1
    w2 = w2
    Workers = {w1, w2}
    MonotoneClock = TRUE
    MaxOps = 2
    MaxTime = 1
CHECK_DEADLOCK FALSE
INVARIANT EveryDecisionAppended
