\* A source document is replaced while it is being extracted.
SPECIFICATION Spec
CONSTANTS
    r1 = r1
    r2 = r2
    guide = guide
    policy = policy
    Requests = {r1}
    NumFiles = 2
    Contents = {guide, policy}
    Modes <- MCLiveOnly
    MaxLiveCalls = 3
    CreditsPerCall = 3
    MaxCredits = 7
    NoEntry = NoEntry
    Nobody = Nobody
    MaxMishaps = 1
INVARIANTS
    ArtifactHashNamesSource
