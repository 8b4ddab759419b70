SPECIFICATION Spec
CONSTANTS
    h1 = h1
    h2 = h2
    s1 = s1
    s2 = s2
    s3 = s3
    null = null
    Protocols = {"btc", "ont", "eth", "consensus"}
    Hashes = {h1, h2}
    SizeOf <- MCSizeOf
    Sids = {s1, s2, s3}
    NullSid = null
    HashOf <- MCHashOf
    StartKnown = {s1, s2}
    Messages <- MCMessages
    PoolSize = 2
    MinimalTx = 1
    DefaultTx = 4
    Capacity = 9
    MaxLength = 13
    MaxBlocks = 2
    MaxChanges = 2
INVARIANT OutputExact
INVARIANT MissingReported
INVARIANT CrashesExplained
CHECK_DEADLOCK FALSE
