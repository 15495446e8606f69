SPECIFICATION Spec
CONSTANTS
    r1 = r1
    r2 = r2
    s1 = s1
    s2 = s2
    p1 = p1
    p2 = p2
    Processes = {p1}
    NoProcess = NoProcess
    Runs = {r1}
    Shards = {s1}
    ShardOf <- EachItsShard
    Journaled = FALSE
    Partitions = 1
    PartitionOf <- OnePartition
    SnapshotInterval = 0
    Asks <- AnyOperation
    Calls = 2
    MaxSignals = 2
    MaxSequence = 2
    MaxActors = 2
    MaxEntries = 3
INVARIANT ToldIsStored
CHECK_DEADLOCK FALSE
