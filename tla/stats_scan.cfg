SPECIFICATION Spec
CONSTANTS
    claude = claude
    codex = codex
    opus = opus
    gpt = gpt
    Unknown = Unknown
    NoEntry = NoEntry
    NoReport = NoReport
    NoFile = NoFile
    Files <- BothFiles
    ClaudeFiles <- JustClaude
    FailingFiles <- JustCodex
    LinesOf <- Transcripts
    Models <- BothModels
    MaxLines = 2
    MaxScans = 2
    MaxTouches = 1
    MaxCrashes = 1
    TornWrites = TRUE
    BusyWriters = FALSE
INVARIANTS TypeOK
PROPERTIES RightIndexRightReport
CHECK_DEADLOCK FALSE
