SPECIFICATION Spec
CONSTANTS
    Parts = {"gso"}
    None = None
    GSOWord = 16
    Bufs = {1, 2, 3, 5}
    MinHdr = 1
    Clients4 = {"a"}
    Clients6 = {"c"}
    BatchPackets <- MipsKinds
    MaxBatchLen = 4
    Devices <- MipsDevices
    MaxFail = 2
INVARIANTS CountsPopulated
CHECK_DEADLOCK FALSE
