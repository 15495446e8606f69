SPECIFICATION Spec
CONSTANTS
    r1 = r1
    r2 = r2
    s1 = s1
    s2 = s2
    p1 = p1
    p2 = p2
    Processes = {p1, p2}
    NoProcess = NoProcess
    Runs = {r1}
    Shards = {s1}
    ShardOf <- EachItsShard
    Journaled = TRUE
    Partitions = 1
    PartitionOf <- OnePartition
    SnapshotInterval = 2
    Asks <- AnyOperation
    Calls = 1
    MaxSignals = 2
    MaxSequence = 3
    MaxActors = 2
    MaxEntries = 4
INVARIANTS ReadsAreLatest ToldIsStored
CHECK_DEADLOCK FALSE
SYMMETRY EitherProcess
