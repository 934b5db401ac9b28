\* Two handlers that overlap, and answers in any order.
SPECIFICATION Spec
CONSTANTS
    method = method
    owner = owner
    get = get
    post = post
    network = network
    FactKeys = {method, owner}
    Candidates = {get, post, network}
    KeyOf <- MCKeyOf
    h1 = h1
    h2 = h2
    Handlers = {h1, h2}
    Loader = h1
    StoredRuns <- MCStoredRuns
    MaxClicks = 3
    MaxRuns = 2
CHECK_DEADLOCK FALSE
INVARIANTS
    TypeOK
    ReviewOfItsOwnRun
    QuietPageIsCurrent
PROPERTIES
    SecondDecisionOnlyAfterError
    ButtonsComeBack
