SPECIFICATION Spec
CONSTANTS
    Key = {k1, k2}
    Thread = {t1}
    MaxOps = 2
    HighWatermark = 10
    LowWatermark = 5
    MaxInflight = 1
    AsyncOps = {"store"}
    SyncOps = {}
    FlushOps = {}
    FlushAllOps = {}
SYMMETRY ThreadKeySymmetry
INVARIANTS CongestionEnds
