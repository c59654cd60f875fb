SPECIFICATION Spec
CONSTANTS
    Parts = {"io", "loops", "lifecycle", "forward", "icmp", "pingRequests", "pingDests", "unprivileged"}
    None = None
    Writers = {"w1", "w2"}
    Readers = {"r1", "r2"}
    Batches <- WriteBatches
    MaxCalls = 3
    MaxReads = 2
    MaxFailures = 1
    LoopKinds = {"plain", "wintun", "linux", "darwin"}
    MaxPackets = 4
    MaxBatch = 2
    StackKinds = {"system", "mixed", "gvisor", "mipstack"}
    MaxTries = 3
    Conns = {"c1", "c2", "c3"}
    MaxInFlight = 2
    Echoes = {"r1", "r2"}
    Slots = 1
    MaxDest = 1
    Dest = {"d1", "d2"}
    Seqs = {1, 2}
    Limit = 1
    Timeout = 1
    MaxWire = 2
    MaxWrites = 2
    FewDest = {"d1"}
    FewSeqs = {1}
    FewWire = 1
    FewWrites = 1
    Idents = {1, 2}
    Socks = {"s1", "s2"}
    Writer = {"w1", "w2"}
    FairSteps = 9
INVARIANTS EveryPacketAccounted BuffersReturned NothingLeaks PingsAnsweredRight
PROPERTIES RequestsFindTheirWay StacksSettle
CHECK_DEADLOCK FALSE
