SPECIFICATION Spec
CONSTANTS
    Parts = {"nft", "ranges", "chain", "policy", "iptables", "redirect", "packages"}
    None = None
    Failed = Failed
    MaxAddr = 5
    BatchSize = 2
    Digit = 2
    W4 = 3
    W6 = 4
    TopBits = 2
    MaxIndex = 2
    RangeOptionSet <- RangeOptions
    Options <- ChainOptions
    Flows <- ChainFlows
    RouteSets <- ChainRouteSets
    RuleOptionSet <- RuleOptions
    RulePackets <- RoutedPackets
    MarkBits = {0, 1, 2, 3}
    BypassField = {0, 1}
    VPNMark = {3}
    RuleStart = 20
    MainPref = 40
    FallbackPref = 50
    IPTFamilies = {4, 6}
    PreRules = 3
    MaxFaults = 2
    RedirectAddr = {"a1", "a2"}
    Reports = {{"a1"}, {"a2"}}
    MaxStarts = 2
    Files <- PackageFiles
    AppOptionSet <- PackageOptions
    Dirs = {{}, {0, 1}}
    UserRange = 4
    UidBits = 4
    MaxChanges = 2
    MaxFailures = 1
INVARIANTS SetsMatchExactly RangesAsAsked FlowsGoTheirWay PolicyDecides NothingIsLeft AppsObeyed
PROPERTIES RulesSettle
CHECK_DEADLOCK FALSE
