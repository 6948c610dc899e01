SPECIFICATION Spec
CONSTANTS
    SoftTurn = 4
    FinalTurn = 5
    FinalReserve = 90
    ToolReserve = 120
    MinSendWindow = 30
    ActorDone = 960
    ToolSettled = 970
    LastSend = 1000
    MaxTurns = 6
    MaxCalls = 4
    MaxPerResponse = 2
    CheckpointTurns = 1
    CheckpointHeadroom = 2
    CheckpointReserve = 120
    FreshResponses = 4
    FreshBatches = 2
    HistoryCommit = 965
    MaxTimeout = 600
    Modes <- FreshModes
    StartTimes <- EarlyStart
    ClockPoints <- FreshClock
    FaultyEvents <- Faults
    RepeatIds = FALSE
INVARIANTS
    JournalAccepted
    NoStaleFallback
    CandidateSurvives
PROPERTY
    FinishIsFinal
