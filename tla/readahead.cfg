SPECIFICATION Spec
CONSTANTS
    Key = {k1}
    Thread = {t1}
    MaxOps = 3
    HighWatermark = 10
    LowWatermark = 5
    MaxInflight = 10
    AsyncOps = {"store", "retrieve"}
    SyncOps = {"retrieve"}
    FlushOps = {}
    FlushAllOps = {}

INVARIANTS ReadAheadFresh
