SPECIFICATION Spec
CONSTANTS
    h1 = h1
    h2 = h2
    s1 = s1
    s2 = s2
    s3 = s3
    Protocols = {"btc", "ont", "eth", "consensus"}
    Hashes <- MCHashes
    Sids = {s1, s2, s3}
    HashOf <- MCHashOf
    Blocks <- MCBlocks
    StartBound = {s1, s2}
    PoolSize = 2
    MinimalTx = 1
    MaxBlocks = 2
    MaxChanges = 2
INVARIANT ResultExact
INVARIANT KeptOutputStays
INVARIANT AgeRespected
CHECK_DEADLOCK FALSE
