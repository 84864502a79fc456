SPECIFICATION FairSpec
CONSTANTS
    i1 = i1
    i2 = i2
    Ids <- MCIds
    Versions <- MCVersions
    Bundles <- MCBundles
    DirectSaves <- MCDirectSaves
    RetryLimits <- FewLimits
    Faults = {"adapter", "write"}
    MaxCalls = 2
    FirstFresh = 3
    NoRecord = NoRecord
    Torn = Torn
    Garbled = Garbled
    NoTail = NoTail
    Cut = Cut
INVARIANTS
    FailedCommitRollsBack
    FailureLeavesItsTelemetry
    CommittedBundleIsWhole
PROPERTIES BundlesAreAtomic CallsReturn
