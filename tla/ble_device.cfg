SPECIFICATION FairSpec
CONSTANTS
    first = first
    second = second
    arm = arm
    bare = bare
    Empty = Empty
    NoNetwork = NoNetwork
    Streams <- FirstAndArm
    LenOf <- Lengths
    Sound <- FirstAndArm
    RecordOf <- Records1
    Cleared <- EmptyRecord
    ChunkData <- Runs
    Totals = {1, 2, 3}
    MinStream = 1
    MaxStream = 2
    SeqMod = 2
    Networks <- FirstNetwork
    MaxWrites = 6
    MaxLinks = 1
    MaxFlashErrors = 1
    MaxPowerCuts = 1
INVARIANTS TypeOK RecordIsWhole StatusIsCurrent JoinsOnlySaved
PROPERTIES UsesDecoder SuccessIsNotEaten ServesAgain ApplyEnds
CHECK_DEADLOCK FALSE
