SPECIFICATION Spec
CONSTANTS
    SoftTurn = 3
    FinalTurn = 5
    FinalReserve = 90
    ToolReserve = 120
    MinSendWindow = 30
    ActorDone = 960
    ToolSettled = 970
    LastSend = 1000
    MaxTurns = 4
    MaxCalls = 3
    MaxPerResponse = 1
    CheckpointTurns = 1
    CheckpointHeadroom = 2
    CheckpointReserve = 120
    FreshResponses = 4
    FreshBatches = 2
    HistoryCommit = 965
    MaxTimeout = 600
    Modes <- DebtModes
    StartTimes <- AnyStart
    ClockPoints <- DebtClock
    FaultyEvents <- Faults
    RepeatIds = FALSE
INVARIANT
    JournalAccepted
PROPERTIES
    DispatchInWindow
    Terminates
