SPECIFICATION Spec
CONSTANTS
    Hashes = {h1, h2}
    ShortIds = {s1, s2}
    NullSid = NullSid
    Blocks = {b1, b2}
    FinalCounts = {2, 3}
    MaxReaders = 1
SYMMETRY Symmetry
INVARIANT TypeOK
INVARIANT MapsAgree
PROPERTY ShortIdsStable
PROPERTY RemovedAsAWhole
PROPERTY WindowBounded
