\* Three events, two edits.
SPECIFICATION Spec
CONSTANTS
    p1 = p1
    p2 = p2
    Payloads = {p1, p2}
    MaxEvents = 3
    MaxAlterations = 2
CHECK_DEADLOCK FALSE
INVARIANTS
    VerifiedIsGenuine
    HeadHashNamesLedger
