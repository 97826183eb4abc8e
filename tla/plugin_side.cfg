SPECIFICATION Spec
CONSTANTS
    Files = {"f1", "f2"}
    Unreadable = {"f2"}
    MaxBatches = 2
    NoFile = NoFile
    MaxRequests = 4
    Scripts <- MCScripts
    HostVersion = 1
    PresetLimit = 2
    EntryLimit = 1
    ScanRows = 2
    BatchSize = 2
    KvValues = 1
    KvSamples = 2
CHECK_DEADLOCK FALSE
INVARIANT ParseFindsItsFile
INVARIANT AnsweredOnce
INVARIANT PatientIsNotTurnedAway
INVARIANT LibraryPasses
INVARIANT FaultIsFound
INVARIANT PassIsEarned
INVARIANT CheckedIsAccepted
INVARIANT WarnedOrKept
INVARIANT TwoPassesAgree
INVARIANT LoadKeepsClaim
