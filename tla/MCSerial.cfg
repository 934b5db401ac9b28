\* One review at a time, while the wall clock may step back.
SPECIFICATION Spec
CONSTANTS
    method = method
    verify = verify
    get = get
    post = post
    yes = yes
    one = one
    guide = guide
    policy = policy
    NoRun = NoRun
    NoValue = NoValue
    Idle = Idle
    Keys <- MCKeys
    Values <- MCValues
    PyClass <- MCPyClass
    Artifacts <- MCArtifacts
    AutoAcceptConfidence = 98
    AutoAcceptAuthority = 90
    RequiredFactKeys <- MCKeys
    ContractValues <- MCContractValues
    Intakes <- MCIntakes
    Corrections <- MCCorrections
    w1 = w1
    Workers = {w1}
    MonotoneClock = FALSE
    MaxOps = 3
    MaxTime = 2
CHECK_DEADLOCK FALSE
INVARIANTS
    TablesMirrorProjection
    ConflictStatusTruthful
PROPERTIES
    HistoryAppendOnly
