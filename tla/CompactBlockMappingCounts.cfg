SPECIFICATION AllSpec
CONSTANTS
    h1 = h1
    h2 = h2
    c1 = c1
    c2 = c2
    Tasks = {t1}
    Hashes <- MCHashes
    NoHash = NoHash
    CompactBlocks <- MCDistinctOnly
    StartKnown = {h1, h2}
    BucketCount = 2
    BucketCapacity = 1
    MaxPending = 1
    CounterSize = 8
INVARIANT CountsAddUp
CHECK_DEADLOCK FALSE
