CONSTANTS
    r1 = r1
    r2 = r2
    d1 = d1
    d2 = d2
    Radios = {r1, r2}
    Devices = {d1, d2}
    DeviceOf <- TwoDevices
    Base = 1
    MismatchTtl = 1
    QueryInterval = 1
    Word = 64
    AgeCap = 4
    MaxM1 = 3
SPECIFICATION Spec
PROPERTIES MismatchGetsItsTime
CHECK_DEADLOCK FALSE
