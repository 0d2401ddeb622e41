SPECIFICATION Spec
CONSTANTS
    Key = {k1, k2}
    Thread = {t1, t2}
    MaxOps = 3
    HighWatermark = 1
    LowWatermark = 1
    MaxInflight = 1
    AsyncOps = {"store"}
    SyncOps = {}
    FlushOps = {"store"}
    FlushAllOps = {"store"}
SYMMETRY ThreadKeySymmetry
INVARIANTS RefExact QueueCount InflightCount FlushDurable
