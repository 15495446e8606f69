SPECIFICATION Spec
CONSTANTS
    wf = wf
    approve = approve
    shard = shard
    w1 = w1
    w2 = w2
    Workers = {w1, w2}
    NoWorker = NoWorker
    Shards = {shard}
    Ids = {wf}
    RunIds = {1}
    ShardOf <- ClaimsShardOf
    Names = {1, 2}
    SignalTypes = {approve}
    Keys = {}
    NoKey = NoKey
    EffectKeys = {}
    Effect <- NoEffects
    Versions = {1, 2}
    VersionOf <- OldAndNew
    StartKeys = {}
    ShardLeaseMs = 1
    TaskLeaseMs = 1
    InitialWaits <- ClaimsInitial
    NextWaits <- ClaimsNext
    Outcomes = {"completed"}
    ClientStarts <- ClaimsStarts
    SendStarts = {}
    Appends <- ClaimsAppends
    CheckpointStarts = {}
    EagerStarts = {}
    CancelsChildren = FALSE
    EagerKeys = {}
    CheckpointKeys = {}
    Crashing = {w1}
    Failing = {w2}
    ClaimLimit = 2
    MaxTime = 3
    Lag = 1
    MaxSignals = 1
    MaxChildren = 0
    MaxSequence = 2
    MaxEpoch = 2
    MaxAttemptIds = 0
INVARIANTS TypeOK NoLostWakeUp NoPhantomTask OneCommitPerSequence SignalsConsumedWithCheckpoint MarkedSequenceIsHeld OwnedTaskIsHeld
PROPERTIES FencedByClaim EpochNamesOneOwner NoDowngrade
CHECK_DEADLOCK FALSE
