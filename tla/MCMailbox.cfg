SPECIFICATION InOrderSpec
CONSTANTS
    wf = wf
    approve = approve
    revise = revise
    k1 = k1
    k2 = k2
    shard = shard
    w1 = w1
    Workers = {w1}
    NoWorker = NoWorker
    Shards = {shard}
    Ids = {wf}
    RunIds = {1, 2, 3}
    ShardOf <- MailboxShardOf
    Names = {1, 2, 3}
    SignalTypes = {approve, revise}
    Keys = {k1, k2}
    NoKey = NoKey
    EffectKeys = {}
    Effect <- NoEffects
    Versions = {1}
    VersionOf <- VersionOne
    StartKeys = {}
    ShardLeaseMs = 2
    TaskLeaseMs = 1
    InitialWaits <- MailboxInitial
    NextWaits <- MailboxNext
    Outcomes = {"completed"}
    ClientStarts <- MailboxStarts
    SendStarts <- MailboxSends
    Appends <- MailboxAppends
    CheckpointStarts = {}
    EagerStarts = {}
    CancelsChildren = FALSE
    EagerKeys = {}
    CheckpointKeys = {}
    Crashing = {}
    Failing = {}
    ClaimLimit = 2
    MaxTime = 2
    Lag = 0
    MaxSignals = 3
    MaxChildren = 0
    MaxSequence = 2
    MaxEpoch = 1
    MaxAttemptIds = 0
INVARIANTS OneRunningRunPerId NoLostWakeUp IdempotencyKeysAreUnique
PROPERTIES FutureWaitKeepsPlace ImplementsDurableRuns
CHECK_DEADLOCK FALSE
