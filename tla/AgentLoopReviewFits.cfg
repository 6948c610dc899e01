SPECIFICATION Spec
CONSTANTS
    SoftTurn = 40
    FinalTurn = 48
    FinalReserve = 90
    ToolReserve = 120
    MinSendWindow = 30
    ActorDone = 960
    ToolSettled = 970
    LastSend = 1000
    MaxTurns = 5
    MaxCalls = 8
    MaxPerResponse = 1
    CheckpointTurns = 12
    CheckpointHeadroom = 12
    CheckpointReserve = 120
    FreshResponses = 4
    FreshBatches = 2
    HistoryCommit = 965
    MaxTimeout = 600
    Modes <- CheckpointMode
    StartTimes <- EarlyStart
    ClockPoints <- ShortClock
    FaultyEvents <- NoFaults
    RepeatIds = FALSE
INVARIANT
    ReviewFits
