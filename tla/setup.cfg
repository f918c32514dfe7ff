SPECIFICATION FairSpec
CONSTANTS
    d1 = d1
    d2 = d2
    NoDevice = NoDevice
    Devices <- OneDevice
    MaxGen = 4
    MaxCrashes = 1
    MaxSaveFailures = 1
    MaxOutages = 1
INVARIANTS TypeOK ShownIsAlive StoredIsAccepted
PROPERTIES AppliedAloneMeansJoined RunIsAsPromised OperationEnds RadioIsGivenBack
CHECK_DEADLOCK FALSE
