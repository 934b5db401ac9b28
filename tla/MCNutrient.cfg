\* Runs that overlap from the first of a process on, and either a restart, which
\* may change the settings, or a document that changes on disk.
SPECIFICATION Spec
CONSTANTS
    r1 = r1
    r2 = r2
    guide = guide
    policy = policy
    Requests = {r1, r2}
    NumFiles = 2
    Contents = {guide, policy}
    Modes <- MCModes
    MaxLiveCalls = 3
    CreditsPerCall = 3
    MaxCredits = 7
    NoEntry = NoEntry
    Nobody = Nobody
    MaxMishaps = 1
INVARIANTS
    TypeOK
    BudgetBoundsPosts
    OneFlightPerExtractor
PROPERTIES
    NeverPaidTwice
    EveryRequestEnds
