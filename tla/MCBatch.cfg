SPECIFICATION JournalSpec
CONSTANTS
    wf1 = wf1
    wf2 = wf2
    approve = approve
    shard = shard
    w1 = w1
    w2 = w2
    Workers = {w1, w2}
    NoWorker = NoWorker
    Shards = {shard}
    Ids = {wf1, wf2}
    RunIds = {1}
    ShardOf <- JournalShardOf
    Names = {1, 2}
    SignalTypes = {approve}
    Keys = {}
    NoKey = NoKey
    EffectKeys = {}
    Effect <- NoJournalEffects
    Versions = {1}
    VersionOf <- OneVersion
    StartKeys = {}
    ShardLeaseMs = 2
    TaskLeaseMs = 1
    InitialWaits <- JournalInitial
    NextWaits <- JournalNextWaits
    Outcomes = {"completed"}
    ClientStarts <- JournalStarts
    SendStarts = {}
    Appends <- JournalAppends
    CheckpointStarts = {}
    EagerStarts = {}
    CancelsChildren = FALSE
    EagerKeys = {}
    CheckpointKeys = {}
    Crashing = {}
    Failing = {}
    ClaimLimit = 2
    MaxBatch = 2
    MaxTime = 5
    Lag = 0
    MaxSignals = 1
    MaxChildren = 0
    MaxSequence = 2
    MaxEpoch = 2
    MaxAttemptIds = 2
INVARIANTS AnsweredIsKept
CHECK_DEADLOCK FALSE
