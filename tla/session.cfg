SPECIFICATION Spec
CONSTANTS
    Key = {k1}
    Thread = {t1}
    MaxOps = 4
    HighWatermark = 10
    LowWatermark = 5
    MaxInflight = 10
    AsyncOps = {"store", "delete"}
    SyncOps = {"store", "retrieve"}
    FlushOps = {"store"}
    FlushAllOps = {}

INVARIANTS FreshRead FlushDurable
PROPERTIES WriteOrder
