\* Two first runs, each of which builds an extractor with its own lock.
SPECIFICATION Spec
CONSTANTS
    r1 = r1
    r2 = r2
    guide = guide
    policy = policy
    Requests = {r1, r2}
    NumFiles = 2
    Contents = {guide, policy}
    Modes <- MCLiveOnly
    MaxLiveCalls = 3
    CreditsPerCall = 3
    MaxCredits = 7
    NoEntry = NoEntry
    Nobody = Nobody
    MaxMishaps = 0
INVARIANTS
    SingleFlight
