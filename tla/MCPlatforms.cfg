SPECIFICATION Spec
CONSTANTS
    Parts = {"darwinMonitor", "winChange", "darwinTun", "winSession", "winSetup", "defaultRoute"}
    None = None
    Interfaces = {"wifi", "cell"}
    MaxChanges = 2
    MaxFailures = 1
    Extensions = {TRUE, FALSE}
    Platforms = {"android", "darwin", "windows"}
    Tables <- RouteTables
    Width = 8
    Monitors = {"m1", "m2"}
    Listeners = {"l1"}
    Nobody = "nobody"
    MaxEvents = 1
    MaxErrors = 2
    Writers = {"w1", "w2"}
    MaxPackets = 2
    BatchLen = 2
    MaxCalls = 3
    Readers = {"r"}
    Closers = {"c1", "c2"}
    MaxWrites = 2
    Ranges = {"low", "mid", "high"}
    FairSteps = 18
INVARIANTS NoUseAfterClose NoBatchDropped FiltersHold DefaultIsTold
PROPERTIES PlatformsSettle
CHECK_DEADLOCK FALSE
