SPECIFICATION MCSpec
CONSTANTS
    first = first
    dearer = dearer
    other = other
    cheap = cheap
    forged = forged
    alice = alice
    bob = bob
    Txs <- MCTxs
    Sender <- MCSender
    Price <- MCPrice
    Form <- MCForm
    Settings <- MCSettings
    MinFee = 2
    MaxTime = 3
    MaxPasses = 3
    TxHashes = {h1, h2, h3}
    Sizes = {1, 2}
    Expiration = 1
    MaxItems = 2
    SizeMod = 4
    MaxClock = 2
    h1 = h1
    h2 = h2
    s1 = s1
    s2 = s2
    s3 = s3
    b1 = b1
    b2 = b2
    Protocols = {"btc", "ont", "confirmation"}
    Hashes = {h1, h2}
    Sids = {s1, s2, s3}
    HashOf <- MCHashOf
    SizeOf <- MCSizeOf
    StartBound = {s1, s3}
    Blocks <- MCBlocks
    Confirmations <- MCConfirmations
    PoolSize = 2
    MinimalTx = 1
    MaxBlocks = 2
    MaxChanges = 1
INVARIANTS
    BytesExact
    NoncesRefused
    OverNoncesCleared
    CollectedUnlessRaced
PROPERTIES
    HistoryCleaned
    CleanupExact
CHECK_DEADLOCK FALSE
