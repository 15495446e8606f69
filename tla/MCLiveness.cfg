SPECIFICATION LiveSpec
CONSTANTS
    wf = wf
    approve = approve
    shard = shard
    w1 = w1
    w2 = w2
    Workers = {w1, w2}
    NoWorker = NoWorker
    Shards = {shard}
    Ids = {wf}
    RunIds = {1}
    ShardOf <- LivenessShardOf
    Names = {1, 2}
    SignalTypes = {approve}
    Keys = {}
    NoKey = NoKey
    EffectKeys = {}
    Effect <- NoEffects
    Versions = {1}
    VersionOf <- VersionOne
    StartKeys = {}
    ShardLeaseMs = 1
    TaskLeaseMs = 1
    InitialWaits <- LivenessInitial
    NextWaits <- LivenessNext
    Outcomes = {"completed"}
    ClientStarts <- LivenessStarts
    SendStarts = {}
    Appends <- LivenessAppends
    CheckpointStarts = {}
    EagerStarts = {}
    CancelsChildren = FALSE
    EagerKeys = {}
    CheckpointKeys = {}
    Crashing = {w1}
    Failing = {}
    ClaimLimit = 1
    MaxTime = 3
    Lag = 0
    MaxSignals = 1
    MaxChildren = 0
    MaxSequence = 2
    MaxEpoch = 3
    MaxAttemptIds = 0
PROPERTIES EveryWakeUpIsServed EverySignalIsServed
CHECK_DEADLOCK FALSE
