SPECIFICATION Spec
CONSTANTS
    first = first
    second = second
    arm = arm
    bare = bare
    Empty = Empty
    NoNetwork = NoNetwork
    Streams <- Pair
    LenOf <- Lengths
    Sound <- Pair
    RecordOf <- Records1
    Cleared <- EmptyRecord
    ChunkData <- Runs
    Totals = {1, 2}
    MinStream = 1
    MaxStream = 2
    SeqMod = 2
    Networks <- FirstNetwork
    MaxWrites = 6
    MaxLinks = 1
    MaxFlashErrors = 0
    MaxPowerCuts = 1
INVARIANT NeverMixed
CHECK_DEADLOCK FALSE
