CONSTANTS
    r1 = r1
    r2 = r2
    d1 = d1
    d2 = d2
    Radios = {r1, r2}
    Devices = {d1}
    DeviceOf <- OneDevice
    Base = 1
    MismatchTtl = 1
    QueryInterval = 1
    Word = 64
    AgeCap = 6
    MaxM1 = 3
SPECIFICATION FairSpec
INVARIANTS TimerNeedsMismatch
PROPERTIES SyncEnds
CHECK_DEADLOCK FALSE
