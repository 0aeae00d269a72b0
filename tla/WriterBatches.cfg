SPECIFICATION FairSpec
CONSTANTS
    r1 = r1
    r2 = r2
    r3 = r3
    bad = bad
    p1 = p1
    p2 = p2
    NoRow = NoRow
    Rows = {r1, r2, r3, bad}
    Malformed = {bad}
    Producers = {p1, p2}
    BufferSize = 1
    MaxBatch = 2
CHECK_DEADLOCK FALSE
INVARIANTS Accounted RetryBounded WrittenIsStored DropsReported EarlyRowsDrained
PROPERTIES ShutdownCompletes WriterKeepsContract
