SPECIFICATION Spec
CONSTANTS
    r1 = r1
    r2 = r2
    s1 = s1
    s2 = s2
    p1 = p1
    p2 = p2
    Processes = {p1, p2}
    NoProcess = NoProcess
    Runs = {r1, r2}
    Shards = {s1, s2}
    ShardOf <- EachItsShard
    Journaled = TRUE
    Partitions = 2
    PartitionOf <- TwoPartitions
    SnapshotInterval = 0
    Asks <- WriterAndReader
    Calls = 1
    MaxSignals = 2
    MaxSequence = 2
    MaxActors = 2
    MaxEntries = 5
INVARIANT ReadsAreLatest
CHECK_DEADLOCK FALSE
