SPECIFICATION Spec
CONSTANTS
    Key = {k1, k2, k3}
    Thread = {t1}
    MaxOps = 3
    HighWatermark = 10
    LowWatermark = 5
    MaxInflight = 1
    AsyncOps = {"store", "retrieve"}
    SyncOps = {}
    FlushOps = {}
    FlushAllOps = {}
SYMMETRY ThreadKeySymmetry
INVARIANTS InflightLimited
