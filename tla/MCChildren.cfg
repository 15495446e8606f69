SPECIFICATION Spec
CONSTANTS
    parent = parent
    child = child
    helper = helper
    grandchild = grandchild
    mainStart = mainStart
    helpStart = helpStart
    shard = shard
    w1 = w1
    Workers = {w1}
    NoWorker = NoWorker
    Shards = {shard}
    Ids = {parent, child, helper, grandchild}
    RunIds = {1}
    ShardOf <- ChildrenShardOf
    Names = {1, 2, 3}
    SignalTypes = {}
    Keys = {}
    NoKey = NoKey
    EffectKeys = {}
    Effect <- NoEffects
    Versions = {1}
    VersionOf <- VersionOne
    StartKeys = {mainStart, helpStart}
    ShardLeaseMs = 2
    TaskLeaseMs = 1
    InitialWaits <- ChildrenInitial
    NextWaits <- ChildrenNext
    Outcomes = {"completed", "canceled"}
    ClientStarts <- ChildrenClients
    SendStarts = {}
    Appends = {}
    CheckpointStarts <- ChildrenBuffered
    EagerStarts <- ChildrenEager
    CancelsChildren = TRUE
    EagerKeys = {}
    CheckpointKeys = {}
    Crashing = {}
    Failing = {w1}
    ClaimLimit = 2
    MaxTime = 2
    Lag = 0
    MaxSignals = 0
    MaxChildren = 3
    MaxSequence = 1
    MaxEpoch = 1
    MaxAttemptIds = 0
INVARIANTS NoLostWakeUp StartedChildIsRunning ChildKnownToParent OneChildPerKey
PROPERTIES ChildrenDeliveredWithCheckpoint DeliveredOnce CloseReachesChildren ClosedStaysClosed ImplementsDurableRuns
CHECK_DEADLOCK FALSE
