SPECIFICATION FairSpec
CONSTANTS
    Items = {i1, i2}
    Readers = {r1, r2, r3}
    BucketCount = 2
    BucketCapacity = 1
    MaxPending = 2
INVARIANT TypeOK
INVARIANT ReadersAndQueuesAgree
INVARIANT DeferredIndexFresh
INVARIANT NoLostWakeup
PROPERTY ImplementsSnapshotReads
PROPERTY QueuedWritesApplied
