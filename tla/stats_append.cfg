SPECIFICATION Spec
CONSTANTS
    claude = claude
    codex = codex
    opus = opus
    gpt = gpt
    Unknown = Unknown
    NoEntry = NoEntry
    NoReport = NoReport
    NoFile = NoFile
    Files <- JustCodex
    ClaudeFiles <- Nothing
    FailingFiles <- JustCodex
    LinesOf <- Session
    Models <- BothModels
    MaxLines = 3
    MaxScans = 3
    MaxTouches = 0
    MaxCrashes = 0
    TornWrites = FALSE
    BusyWriters = FALSE
PROPERTY MatchesIndependentParse
CHECK_DEADLOCK FALSE
