SPECIFICATION Spec
CONSTANTS
    wf = wf
    approve = approve
    shard = shard
    w1 = w1
    w2 = w2
    Workers = {w1, w2}
    NoWorker = NoWorker
    Shards = {shard}
    Ids = {wf}
    RunIds = {1}
    ShardOf <- EffectsShardOf
    Names = {1, 2}
    SignalTypes = {approve}
    Keys = {}
    NoKey = NoKey
    EffectKeys = {1, 2}
    Effect <- EagerAndLocal
    Versions = {1}
    VersionOf <- VersionOne
    StartKeys = {}
    ShardLeaseMs = 2
    TaskLeaseMs = 2
    InitialWaits <- EffectsInitial
    NextWaits <- EffectsNext
    Outcomes = {"completed"}
    ClientStarts <- EffectsStarts
    SendStarts = {}
    Appends <- EffectsAppends
    CheckpointStarts = {}
    EagerStarts = {}
    CancelsChildren = FALSE
    EagerKeys = {1}
    CheckpointKeys = {2}
    Crashing = {}
    Failing = {w1, w2}
    ClaimLimit = 1
    MaxTime = 3
    Lag = 0
    MaxSignals = 2
    MaxChildren = 0
    MaxSequence = 0
    MaxEpoch = 2
    MaxAttemptIds = 2
INVARIANTS RetryWaits
PROPERTIES OnlyFailuresSpendAttempts CompletedEffectStays OnlyTheLiveAttemptCompletes
CHECK_DEADLOCK FALSE
SYMMETRY EitherWorker
