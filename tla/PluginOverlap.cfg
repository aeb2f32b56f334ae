SPECIFICATION Spec
CONSTANTS
    bundled = bundled
    override = override
    other = other
    q1 = q1
    q2 = q2
    File <- MCFile
    Plugin <- MCPlugin
    Id <- MCId
    IdOf <- MCIdOf
    Bundled <- MCBundled
    Request <- MCTwoRequests
INVARIANTS
    SequentialReloadsMatch
