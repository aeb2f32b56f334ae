SPECIFICATION FairSpec
CONSTANTS
    bundled = bundled
    added = added
    r1 = r1
    r2 = r2
    Caller <- MCCaller
    Type <- MCType
    Bundled <- MCBundled
    MaxReloads = 2
INVARIANTS
    OwnDeadline
    QuickCallsEnd
PROPERTIES
    CallsAnswered
