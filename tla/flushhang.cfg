SPECIFICATION Spec
CONSTANTS
    Key = {k1}
    Thread = {t1, t2}
    MaxOps = 3
    HighWatermark = 10
    LowWatermark = 5
    MaxInflight = 10
    AsyncOps = {"store"}
    SyncOps = {"store"}
    FlushOps = {"store"}
    FlushAllOps = {}
SYMMETRY ThreadSymmetry
INVARIANTS FlusherServed
