SPECIFICATION Spec
CONSTANTS
    h1 = h1
    h2 = h2
    i1 = i1
    i2 = i2
    i3 = i3
    None = None
    MaxChanges = 3
    MaxStops = 1
    Handlers <- TwoHandlers
    Inodes <- ThreeFiles
    Texts <- AllTexts
    RawControl = {"tab"}
    Mangled = {"quote"}
    Garbled = "back"
    KeyShaped = {"sk"}
    BadZones = {"nowhere"}
    Loopback = {"loop"}
    Placeholder = "change-me"
    DefaultListen = "lan"
    DefaultTZ = "utc"
    DefaultInterval = 9
    MinInterval = 3
    DefaultOrder <- Order
    Planned = {"claude"}
    Keyed = {"main", "groq"}
    Groq = "groq"
    Env <- PlainEnv
    Requests <- Bodies
    Intervals = {3}
    KeyIds = {"groq"}
    HandFiles <- SomeHand
INVARIANTS SavedFileLoads
SYMMETRY Symmetry
CHECK_DEADLOCK FALSE
