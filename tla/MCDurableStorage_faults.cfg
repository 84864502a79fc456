SPECIFICATION Spec
CONSTANTS
    i1 = i1
    i2 = i2
    Ids <- MCIds
    Versions <- MCVersions
    Bundles <- OneBundle
    DirectSaves <- MCDirectSaves
    RetryLimits = {1}
    Faults = {"adapter", "write", "snapshot", "handler", "crash"}
    MaxCalls = 2
    FirstFresh = 3
    NoRecord = NoRecord
    Torn = Torn
    Garbled = Garbled
    NoTail = NoTail
    Cut = Cut
INVARIANTS
    UncommittedLeavesMemory
    SyncedFilesReload
PROPERTY
    CrashKeepsPrefix
