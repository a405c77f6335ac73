SPECIFICATION Spec
CONSTANTS
    Leases = {l1}
    Tasks = {t1, t2}
    NoTask = NoTask
    Slots = {s1, s2}
    ExpiresAt = 1
    SlashableUntil = 2
    MaxTime = 1
    MaxCrashes = 1
    MaxStray = 1
INVARIANTS
    SingleBind
    ToldEndReclaimed
    SnapshotNeverAhead
PROPERTY SettledBondStays
SYMMETRY BrokerSymmetry
CHECK_DEADLOCK FALSE
