SPECIFICATION MCSpec
CONSTANTS
    c1 = c1
    c2 = c2
    c3 = c3
    k1 = k1
    k2 = k2
    k3 = k3
    None = None
    Keys <- MCKeys
    MaxEntries = 2
    Ttls <- MCTtls
    Callers <- MCCallers
    Key <- MCKey
    s1 = s1
    Streams <- MCStreams
    Pieces = 2
    MaxRetries = 2
INVARIANTS
    TruncatedNotKept
CHECK_DEADLOCK FALSE
